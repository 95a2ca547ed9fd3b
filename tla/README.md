# TLA+ models of the Growatt SPF5000ES controller

The repository holds two programs. The *server* runs beside a Growatt SPF5000ES
inverter, talks MODBUS to it, switches it between batteries and grid by the clock
and by request, and answers remote monitors over TCP. The *client* is a Qt
monitor with three mode buttons. This directory models both in TLA+, checks the
models with TLC on small instances and proves their safety with TLAPS for all
values of the constants.

Contents: [inventory](#inventory) - [modules](#modules-and-how-they-correspond-to-the-code) -
[runs](#runs) - [fairness](#fairness) - [proofs](#proofs) -
[divergences found](#where-the-code-and-what-is-said-of-it-differ) -
[limits](#not-modelled-and-why) - [plan](#plan).

## Inventory

| Part | Code | State | Operations | Talks to |
|---|---|---|---|---|
| MODBUS thread | `server/main.c` `modbus_thread`, `SwitchTo*`, `Set*Amps`, `*ChargingTimes`, `reinit` | `modbusState`, `ctx`, `status`, `nInverterMode`, `nChargeAmps`, `nEndHour`, `slModeWriteTime` | INIT, one PROCESS pass, DEINIT | inverter (MODBUS), flags and `status` (shared memory) |
| Console | `server/main.c` `main` | `bRunning` | q, g, b, f, a[1-80] (s, l, m, d: printing, logging) | `modbusState`, flags, `status.nChargeCurrent`, `ctx` |
| Request callbacks | `server/main.c` `_tcpserver_*` | the three `bManualSwitchTo*` flags | SetGrid, SetBatts, SetBoost, GetStatus | run by the client threads of the TCP server |
| TCP server | `server/tcpserver.c`, start and end of `main` | `bServerRunning`, `serverThread`, `server_socket`, the accept loop's `client_socket`, one `sdfComms` per client thread | init, accept loop, client thread, deinit | comms protocol, callbacks |
| Comms protocol | `common/comms_protocol.c` | `struct sdfComms` | Comms_Receive, SendObject, SendCommand, Initialise, Deinit | callbacks of server or client |
| TCP client | `client/tcpclient.c` | `clientState`, `client_socket`, `sdcComms` | receive thread, SendCommand | comms protocol, polling thread, window |
| Polling thread | `client/main.cpp` | `status` | poll once a second, ReceiveStatus | TCP client, Qt queue |
| Window | `client/mainwindow.cpp` | visible buttons, page | mode buttons, page buttons, updateStatus | TCP client |
| Window of time | `server/main.c:546`, `common/system_defs.h` | none | a comparison of hour and minute | - |
| Charging amps | `common/utils.c`, `common/spf5000es_defs.*` | none | constants | MODBUS thread |
| `perftest.c`, `test/`, build files | | | | - |

What is hard in it:

* **No lock anywhere.** The MODBUS thread, the console and one thread per client
  share `modbusState`, `ctx`, `status` and the request flags; in the client, three
  threads share `clientState`, `client_socket` and `sdcComms`.
* **Every register transaction may fail**, in the middle of a change of state that
  needs three of them; nothing is retried at once. The *final check* of a later
  pass is to repair it, from values read earlier in that pass.
* **Time**: the off-peak window wraps midnight, and the final check has to wait
  until the readings can be trusted (`CHECK_MODE_TIMEOUT`).
* **TCP** keeps the order of bytes and no boundaries; a parser that counts in
  `uint8_t` has to put them together again.
* **Threads that come and go**: every connection has a thread, which is started
  through a local variable of the accept loop and registered in the one global that
  should name the accept loop's own thread; descriptors' numbers are used again.
* **Reconnecting**: the client rebuilds its connection and its parser under the
  feet of two threads that send through them.

What makes each part correct: the inverter's registers follow the state, the state
follows the clock and the requests, no request is lost and a quit is obeyed (server's
controller); every connection has its own thread, is answered, and is closed once, and a
quit ends it all (TCP server); messages arrive intact, once and in order (protocol); no
socket or payload is leaked, no thread calls into a half-built parser and the window
always shows a state again (client); and end to end, no click is served twice, the
newest decides, and the window ends up showing the controller's state.

`PROJECT.json` lists every hazard at its line with the properties that watch it.

## Modules and how they correspond to the code

| Module | Models | Extends / used by |
|---|---|---|
| `OffPeakWindow` | the comparison of `main.c:546-549` as `IsPeak`, and the interval it should be | extended by `InverterControl` |
| `ModeControl` | abstract: state, window and a set of pending requests | implemented by `InverterControl` |
| `InverterControl` | MODBUS thread, console, request callbacks, and the inverter's three registers | the core |
| `MessageChannel` | abstract: messages sent and delivered in order, until a break | implemented by `CommsProtocol` |
| `CommsProtocol` | one direction of a connection, byte by byte | |
| `StatusFeed` | abstract: a connection, what was asked for on it, and what the window shows | implemented by `TcpClient` and by `RemoteControl` |
| `TcpClient` | receive thread, polling thread and Qt thread of the monitor | |
| `StatusService` | abstract: a client's session, its requests and answers | implemented by `TcpServer` |
| `TcpServer` | `tcpserver.c` and the start and end of `main`: main thread, accept loop, client threads, descriptors | |
| `RemoteControl` | the composition: window, connections, client threads' callbacks, controller | instantiates `ModeControl` as the controller |
| `MC*` | values for TLC | |
| `*_proofs` | theorems and proofs | |

### InverterControl

One step of the MODBUS thread (`pc`) is the code between two register
transactions or two accesses to data another thread assigns:

    top -> init -> new -> connect -> top          (reinit on failure)
    top -> sample -> input -> CFG_MODE -> MAX_UTIL_AMPS -> UTIL_END_HOUR
        -> decide -> gate -> Grid -> Batts -> Boost -> window
        -> check -> checkEnd -> checkAmps -> top
    top -> deinit -> top -> done

The four `SwitchTo*` functions are one operator, `SwitchTo(s, next)`: it assigns
`nSystemState` and the time of the write, and leaves in `todo` the registers the
function then writes (mode, then end hour, then in OFF_PEAK and BOOST the amps);
`WriteMode`, `WriteEndHour`, `SetChargeCurrent` and `WriteAmps` write them one at a
time with the values of `Wanted`, and `ret` says where the thread goes on. `Send`
either lands or fails; the code prints the error and goes on, so both have the same
successor.

* `manual` holds the three request flags. A callback assigns them in three steps
  (`handler`); the console sets one.
* `seen` holds `nInverterMode`, `nChargeAmps`, `nEndHour`; a failed read keeps the
  old value, as the code does.
* `age` is `time(NULL) - slModeWriteTime`, saturating just above the timeout; `busy`
  is the time the current pass has taken.
* `nChargeCurrent` is assigned by two threads. The build gives no optimisation
  level, and the C code reads the field again for the write, so a write sends
  either the value just assigned or what the field holds now (`WriteAmps`,
  `WriteManualAmps`).
* `dirty` and `faults` are history: which of the registers a state determines (mode
  and end hour, `Determined`) something went wrong with.
* `lent` is the context `SetManualAmps` was called with. Every `modbus_free` (`Free`) makes
  a pointer that the console still holds `freed`; using it is undefined, so the write
  may fail, reach the inverter through a new context at the same address, or end the
  process (`CrashOnFreedContext`, `crashed`). Without a context the write fails.
  `ConsoleKeepsContext` says where that can happen: only while the thread has not connected.

The inverter's panel can change a register at any time (`DialPanel`). A restart of
the server is `Init`: every register may hold anything in `PanelValues`, and the
state is PEAK, as `memset` leaves it.

`ModeControl` promises only: a request is served at most once, not in OFF_PEAK, and
leads to its state; OFF_PEAK is entered only while the clock says off-peak, and left
only when it no longer does, for PEAK.

### CommsProtocol

`Send` puts the bytes of a message (`Encode`) on the wire, `Recv(n)` gives the first
`n` of them to `Comms_Receive`, and the actions of `Receive` are the cases of its
`switch`, one iteration of the loop each. `Payload` has the code's arithmetic: `BytesLeft`
is cut to `ByteMod` values, `i` is advanced by it and by one more. The receiver stops
after an error, as the server's thread does. `coalesced` records that a `recv()` has
returned the last byte of an object together with bytes after it: the one case in
which the parser gets out of step.

`MessageChannel` says that what is received is a prefix of what was sent, until the
channel breaks (`broken <- coalesced`).

### TcpClient

`pc` follows the receive thread through `socket`, `connect`, the two halves of
`Comms_Initialise` (it clears the structure before it assigns the callbacks),
`PROCESS` and the statements of the error branches. `at` is where the polling
thread and the Qt thread are in `tcpclient_SendCommand`: the call through
`transmit`, the test of `clientState`, the `send`. `view` is what the window shows:
a state, with its buttons, or "Changing Mode...". `sock` includes what the server
does to the connection: after it has closed its end, the first send is refused and
the second raises SIGPIPE. What Comms_Receive makes of bytes is left to `CommsProtocol`:
here a `recv()` brings a part of a status, the whole or the rest of one, or an error.

`StatusFeed` is what the monitor promises its user: a status is received only on the
connection on which it was asked for, nothing asked for outlives its connection, each
status is announced to the window once, and the window shows the latest one or
"Changing Mode...". It is abstract in the server too, which may answer at any time or
give the connection up.

### TcpServer

Three kinds of threads and the remote clients:

* the main thread (`mainAt`): `socket -> bind -> listen -> create` (`tcpserver_init`, with
  a new socket after every failure), `modbus`, `console`, and after a quit
  `wait` (the join of the MODBUS thread, which may last for ever: `quit_lost`), then
  `stop -> close -> cancel -> join` (`tcpserver_deinit`). `lost` is the path on which
  `main` joins a thread that was never created: undefined, so it crashes, never
  returns, or fails, and then `tcpserver_deinit` runs as well;
* the accept loop (`pc`): `top`, `accept`, `done`;
* one thread per client (`at`): `start -> loop -> recv -> reply -> loop`, `close`, `done`.

`table` is the process's table of descriptors: `accept()` and `socket()` take the
lowest free number, and `close()` frees whatever the number stands for by then. `fd`
is a thread's copy of `client_socket`; `file` is what its `recv()` waits on, which may
outlive the descriptor. `client_socket` keeps its value only while some thread has
still to read it. One `recv()` may bring several requests (`due`), each answered by one
`send()`; `peer` is what has become of the client: after it has left, a first `send()`
is accepted and the next raises SIGPIPE. `recv()` fails after 30 seconds of silence
(`silent`). `owed` is history: the requests a client is still waiting for.

`serverThread` is overwritten by every `pthread_create`, so `Cancel` cancels the thread
created last, and `Join` reads the variable again: joining a client's thread fails at
once because it is detached. An ID of no thread, because a creation failed or was
never tried, or of a detached thread that has ended, is void (`Dangling`): cancelling or
joining it is undefined, and may crash.

`PromptThreads` says whether a new thread reads `client_socket` before the accept loop,
which pauses for 10 ms, assigns it again. `server` assumes it, as the code does;
`server_race` does not.

`StatusService` promises that an open session of a client that behaves is closed only
when the server stops, that an answer is to a request of that session, and that a
closed session stays closed.

### RemoteControl

Every component is reduced to what its own module shows of it. The controller takes
exactly the steps of `ModeControl` (`Control!Serve`, `Control!EnterOffPeak`, ...), which
`InverterControl` is proved to implement; a connection delivers in order, as
`CommsProtocol` shows; the monitor drops a command when it has no connection and makes
a new one after losing one, as in `TcpClient`; and each connection has its own thread
on the server, as in `TcpServer`, which goes on with the commands it has received or
will still receive when its connection has been replaced. What is added is their
interplay: a status on its way while a command is obeyed, the callbacks of two
connections at once, the window's queue. A callback's three assignments are three
steps (`Control!Ask`, `Control!Withdraw`). That nothing the user can see was lost in
the reduction of the monitor is checked and proved: `RemoteControl` implements the same
`StatusFeed` as `TcpClient`, with what was asked for counted as the polls on the present
wire (`Polls`) and the replies on their way back.

The monitor starts as the code does: unconnected, "Changing Mode..." shown, every byte of
its status 0, which is the number of PEAK.

History: `newest` is the last request that was sent since off-peak began, and `orderly`
says that nothing has disordered it: when it was sent no other connection's thread had
a request under way, its own connection was not lost with one, and no two requests were
served during one callback (`hurried`: one has been). Each of these three can happen (a
pass of the MODBUS thread takes seconds, a callback three assignments, but nothing
orders them), and each makes an older click win. What the user can count on is the
way out: the disorder lasts only as long as the commands that caused it are under way,
and the next click after that is `orderly` again, whatever happened before it.
`NewestStands` and `NewestDecides` say the same of different times: `NewestStands` that
the newest request is pending or was served last whenever no command is under way,
`NewestDecides` that its state is reached in the end.

## Runs

Passing:

| Run | Question | Bounds | Size |
|---|---|---|---|
| `control` | do registers, state, window and readings stay consistent, is `ModeControl` implemented, and is every failure repaired in the end? | grid and boost typed, 05:29, 05:30, 23:30, 23:31, two failures or panel changes, timeout 1 | 837 000 states |
| `control_users` | is the newest remote request served, is a quit never taken back, and are quits and overrides safe at any moment? | one client (grid, boost), q, a20, at noon, one failure, timeout 0 | 398 000 states |
| `comms` | does any division into chunks deliver the messages? | 3 messages; 3-byte objects that contain the message types; `uint8_t` shrunk to 2 bits | 78 000 states |
| `client` | is reconnecting safe for all three threads, is `StatusFeed` implemented, and does the window recover? | 2 failures, 2 messages in flight | 86 000 states |
| `server` | does every client get its own thread, its answers and one close, and does a quit end the server? | 2 connections, 3 descriptors, 2 unanswered requests each | 227 000 states |
| `remote` | does the newest click stand and decide, once, is `StatusFeed` implemented, and does the window follow? | 2 connections, each button once, 2 messages in flight, 1 change of the window of time | 749 000 states |

Violated on purpose, each a disagreement between the code and what a document, a
message or a test says of it: `quit_lost`, `override_lost`, `requests_lost`,
`comms_desync`, `window_doc`, `server_race` (see [below](#where-the-code-and-what-is-said-of-it-differ)).

Why the bounds are enough:

* *Times*: the program tests only whether the time is in the window. The two pairs
  on either side of its two ends contain both answers at both ends; `PeakIsInterval`
  covers the other 1436 minutes.
* *Failures*: a failure marks one register (or one read) and is repaired by the
  next check; two make one failure hit the repair of another. The safety theorems
  hold for any number.
* *PanelValues*: the modes and end hours the code writes, and a mode and amps it
  does not write by itself.
* *CheckModeTimeout = MaxPassTime = 1* (0 in `control_users`, whose properties do not
  speak of time): `age` is compared with the timeout only, so
  it has two classes of value; that a pass is no longer than the timeout is the
  assumption that `FreshReadback` rests on, and the theorem covers every such pair.
* *Objects of three bytes*: a chunk can end before, inside and after each of header
  and payload. `ByteMod` 4 makes `cBytesLeft` wrap in chunks that reach beyond the
  object, as 256 does for the real object of some 70 bytes: there `TypeOK` and
  `PayloadFits` are what still has to hold.
* *Two failures in the client*: the second meets the reconnection after the first.
* *Requests*: `control_users` has one client; with two, `RequestActedOn` is false
  (`requests_lost`). Grid and boost, since batteries is the state of the start.
* *Two connections, three descriptors*: with the listener's, the table is full when both
  are open, and a number is given out again as soon as one is closed. Two connections
  are what two threads can confuse; a third would repeat the second.
* *Two unanswered requests*: the number that SIGPIPE needs; `SignalNeedsTwoRequests`
  would be violated if one were enough.
* *Two messages in flight*: a poll behind a reply that is on its way, and two updates in
  Qt's queue, so that the window may show a status that is not the latest.
* *One change of the window of time*: off-peak begins (or, in a second one, ends) while
  requests are under way. The runs of `control` have all four times.

`CHECK_DEADLOCK FALSE` is given where the program does stop: after a quit, when all
messages are sent and received, when the process of the client or the server has
ended, and when the monitor's last connection is lost in `remote`.

## Fairness

Each thread that can take a step takes one in the end (weak fairness of
`ModbusThread`, `AssignFlag(c)`, `WriteManualAmps`, `Receive`, `ReceiveThread`,
`SendingThread(s)`, `Poll`, `UpdateStatus`): the threads are scheduled by the kernel,
never wait for a lock, and every wait of theirs (usleep, a MODBUS or connect timeout)
ends. `Recv` is fair because TCP delivers what it has accepted; `ServerReplies` because
the server's thread answers every status request. `Tick` is fair because time goes on.
In `TcpServer` the main thread, the accept loop (unless it waits in `accept()`: nobody
has to connect) and each client's thread are fair; a `recv()` ends because of its
timeout, and `usleep` makes every thread reach a point at which it can be cancelled.
The end of the main thread's join of the MODBUS thread (`JoinModbusThread`), and of the
join of a thread that was never created (`JoinUninitialised`), are not assumed.
In `RemoteControl` the controller is fair because `RequestActedOn` says that it serves
what is pending. Nobody has to type, click, request, send, fail, dial at the panel,
connect, reconnect or close a connection.

## Proofs

Checked by `tlapm` to the last leaf; every theorem holds for every value of the
constants that satisfies the named assumptions (`ConstantsAssumption`,
`TimeoutAssumption`, `CommsAssumption`, `ClientAssumption`, `ServerAssumption`,
`RemoteAssumption`), and under what its own `ASSUME` states.

| Theorem | States |
|---|---|
| `OffPeakWindow_proofs!PeakIsInterval` | the four comparisons are the interval 05:30 to 23:30, both ends included |
| `InverterControl_proofs!TypeCorrectness` | `[]TypeOK` |
| `...!ContextSafety` | `[]ContextWhenUsed` |
| `...!RegisterSafety` | `[]RegistersFollowState` |
| `...!WindowSafety` | `[]StateFollowsWindow` |
| `...!FreshReadbackSafety` | `[]FreshReadback` |
| `...!Refinement` | `Spec => ImplementsModeControl` |
| `...!OneRequestSafety` | `[]OneRequestPending`, if there is at most one client and nobody types a request |
| `...!QuitSafety` | `Spec => QuitStands` |
| `...!ConsoleSafety` | `Spec => ConsoleKeepsContext` |
| `CommsProtocol_proofs!TypeCorrectness`, `!PayloadSafety` | `[]TypeOK`, `[]PayloadFits` |
| `CommsChannel_proofs!NoErrorSafety` | `[]NoErrorUnlessCoalesced` |
| `...!Refinement` | `Spec => ImplementsMessageChannel` |
| `TcpClient_proofs!TypeCorrectness`, `!SocketSafety`, `!PayloadSafety`, `!CommandSafety` | `[]TypeOK`, `[]SocketNotLeaked`, `[]PayloadNotLeaked`, `[]EndsOnlyWhileReconnecting` |
| `...!Refinement` | `Spec => ImplementsStatusFeed` |
| `TcpServer_proofs!TypeCorrectness` | `[]TypeOK` |
| `...!SocketSafety`, `!SignalSafety` | `[]EachSocketHasItsThread`, `[]SignalNeedsTwoRequests`, if `PromptThreads` |
| `...!SharingSafety` | `[]NoConnectionShared`, if `PromptThreads`: what `server_race` refutes without it |
| `...!Refinement` | `Spec => ImplementsStatusService`, if `PromptThreads` |
| `RemoteControl_proofs!TypeCorrectness`, `!ServedOnceSafety` | `[]TypeOK`, `[]ServedAtMostOnce` |
| `...!NewestSafety` | `[]NewestStands` |
| `...!Refinement` | `Spec => ImplementsStatusFeed` |

The arguments:

* **InverterControl.** None of the invariants is inductive. The strengthening says,
  for each point of the thread, what `todo` and `ret` hold and what the context is
  (the context survives every PROCESS point because only the thread itself frees
  it); which register writes are outstanding for the current state; and how the
  readings in `seen` relate to the registers. For `FreshReadback` it adds that a
  reading of the mode taken in this pass equals the register unless the mode was
  written since, in which case `age <= busy`; with `busy <= MaxPassTime <=
  CheckModeTimeout` the check is then not due. This is where `TimeoutAssumption` is
  needed, and the reason for the length of `CHECK_MODE_TIMEOUT`. The refinement maps
  each assignment of a flag to `Ask` or `Withdraw`, `ServeManual` to `Serve`,
  `FollowWindow` to `EnterOffPeak` or `LeaveOffPeak`, `SampleTime` to `LookAtClock`, and
  everything else, repairs included, to a stutter.
  `OneRequestPending` needs to know what a callback has already cleared at each of its
  assignments (`CallbackInv`); with one client nobody else sets a flag meanwhile, and
  the thread only clears them. `QuitStands` rests on `QuitInv`: a context that is
  connected means that INIT is behind the thread, so neither `reinit()` nor the
  assignment of PROCESS, which are what overwrites DEINIT in `quit_lost`, can follow.
  `ConsoleKeepsContext` rests on it too: the only `modbus_free` of a connected context is
  DEINIT's, and after a quit there is no console left to hold it, for `main` reads the
  next command only when `SetManualAmps` has returned.
* **CommsProtocol.** `PayloadFits` with `TypeOK` is inductive together with
  `HalvesInv`: after the first byte of an ID or a length the field holds one byte, so
  that adding 256 times the second stays in 16 bits. The arithmetic is in the lemmas
  `ModBound` (a remainder is no larger than what it is taken of) and `BytesLeftBound`
  (`cBytesLeft` exceeds neither the chunk nor what is still to come).
* **CommsProtocol implements MessageChannel** (`CommsChannel_proofs`). While nothing was
  coalesced, what the state machine holds is a part of the message it is reading
  (`ParserInv`), what it delivered is what was sent first (`ReceivedInv`), and the bytes
  still to be read are the encodings of the other messages without a gap
  (`FramingInv`). The last would be a recursive concatenation of messages of different
  lengths, about which nothing could be proved here; it is stated as the existence of
  offsets instead, one for each message: `Send` adds one, a byte that is read moves them
  all (`Shift`), and a `recv()` moves the border between buffer and wire under them. An
  object's last byte is followed by no other in the buffer, hence `i += cBytesLeft`
  steps over nothing, and `cBytesLeft` is not cut, because the payload is shorter than
  `ByteMod` (`StatusLength < ByteMod`, the only fact about lengths that is used).
* **TcpClient.** The place of the receive thread determines `clientState` and the
  class of the socket (`PlaceInv`), and that no payload is left between two
  connections (`PayloadInv`); `transmit` is missing only in `assign`, or before
  anything that could send has happened (`TransmitInv`). The refinement adds that
  without a connection nothing is on its way (`AskedInv`). A successful `connect()` is
  `Connect`, a poll that is sent `Ask`, a whole status `Receive`, the server's close
  `Leave`, the closing of the socket `Lose`, `updateStatus` `Show`, a click `Hide`; parts of
  objects, errors, the rebuilding of the parser and commands are stutters.
* **TcpServer.** `StartInv` says how far the server's start and end are, `TableInv` and
  `FdInv` who owns a descriptor: while the server runs, the kernel's table and the
  thread's copy of the number name each other, and `client_socket` does for the one
  thread that has not read it yet. Prompt threads are needed exactly there, for two
  such threads would read one variable. Numbers are reused as soon as they are closed;
  that the lowest free one exists (`LowestIsFree`) takes a well-foundedness argument.
  `OweInv` keeps the account: a client waits for at least as many answers as are due
  or have arrived, and for one more once a refusal has come back, so a `send()` that
  raises SIGPIPE needs two. The refinement adds `SessionInv`: a receiving or answering
  thread works on its own client's connection, which has no second descriptor, and a
  thread gives a well-behaved client up only when the server ends. A received command
  is a stutter, an answer is `Answer`, a `close()` of an open connection is `Close`.
* **RemoteControl.** `ServedAtMostOnce` is the visible end of an account (`CountInv`): for
  each request, those served, the one pending and those under way are together no more
  than those clicked. Those under way are counted as a set of places, `Sent(k)`: the
  positions of the command in all wires, and one more for a callback that has not come
  to its flag. A step that takes a command from a wire moves every place up by one, and
  sets are compared by an injection (`NoMore`), so no recursion over the wires is
  needed; the bound on polls (`FlightInv`) is counted in the same way. It holds across
  lost connections because a new wire starts empty (`LinkInv`).
  `NewestStands` needs the order (`OrderInv`): while `orderly`, requests are under way
  on the present connection only (`PresentInv`); the flags its callback has passed are
  cleared but for its own (`ClearedInv`); and the newest request is the last on the
  wire, or the callback's, or stands (`NewestInv`). The difficult step is `Serve` during
  a callback: the controller may serve the newest request before the callback ends, and
  must then serve nothing else, or `orderly` ends, which is what `hurried` is for. A
  click while no other connection has a request under way (`NoOtherUnderWay`)
  establishes all of it anew. In the refinement of `StatusFeed` the server's reply is a
  stutter, for it turns a poll into a reply: the polls of a wire without its first
  command are counted exactly (`PollsTail`), by two injections.

Every safety property that a passing run checks - invariants, action properties and
refinements - is stated by a theorem. Only model-checked are the liveness properties
(`EventuallySettled`, `RequestActedOn`, `QuitFromProcess`, `EventuallyDelivered`,
`WindowRecovers`, `EveryClientServed`, `QuitEnds`, `ViewConverges`, `NewestDecides`), which
TLAPS cannot prove under fairness. The refinements are of the abstract modules' safety:
those state no fairness.

## Where the code and what is said of it differ

* `quit_lost`: a q typed while the MODBUS thread connects is overwritten
  (`main.c:199`, `main.c:343`), and `main` joins a thread that never ends.
* `override_lost`: an `a` override can be undone by the final check of the pass in
  progress, without the change of state the console's note speaks of.
* `requests_lost`: the flag assignments of two clients' callbacks can cancel each other.
* `comms_desync`: a byte after an object is skipped if it arrives in the same
  `recv()` (`comms_protocol.c:117`). With this program's messages only the server sends
  objects, so it takes two status replies in one `recv()` of the monitor.
* `window_doc`: the README's off-peak ends at 04:30, the code's at 05:30.
* `server_race`: a client thread that starts late reads the socket of the next client
  (`tcpserver.c:167`); "a new thread to handle the connection" then handles another.

Seen on the way and not given a run: a `q` is answered by cancelling whichever thread
was created last, usually a client's (`tcpserver.c:238`; the program ends all the same,
`QuitEnds`); a failed start joins a thread that does not exist (`main.c:907`); amps
typed while the MODBUS thread connects are written through a context that `reinit()` may
have freed (`main.c:194`, `main.c:234`; afterwards `ConsoleKeepsContext` excludes it);
the monitor's `send()` on a connection that is gone raises SIGPIPE and ends the monitor,
where `client/tcpclient.c:34` leaves errors to the receive thread
(`EndsOnlyWhileReconnecting` says when); the end of the monitor destroys the window
under the receive thread (`client/main.cpp:82`); `SetManualAmps` compares with a
register's address, so 39 to 80 amps are ignored (`main.c:230`); the condition of
`main.c:511` is never true; `MainWindow::nSystemState` is never assigned, so every
status redraws the window (`UpdateStatus` models that); nothing assigns the client's
DEINIT; the 4.8 kW overload switch of the README is not in the code; `test_utils.c`
expects amps that `utils_GetOffpeakChargingAmps` no longer computes.

## Not modelled, and why

* Telemetry, printing, logging, `nOffPeakChargeKwh`, `slOffPeakChgComplete`: they
  decide nothing.
* The console's s, l, m, d: no effect on control.
* Changes of the wall clock and the year 2038: time is an age.
* A `send()` of the monitor through a number that was closed meanwhile fails. Nothing in
  this program opens another file then; whether Qt does is not visible in it.
* A console write in the middle of the thread's transaction on the serial line is a
  lost or failed transaction; the bytes on the line are not modelled.
* Torn reads of `struct SystemStatus`, on either side: `nSystemState`, the one field
  that decides anything, is a single load and store; the rest is telemetry.
* The static result of `localtime()`, shared by `printft` and the MODBUS thread: what a
  race inside libc leaves there is not visible in this source.
* The end of the monitor (`bQuit`, `workerThread.wait()`, the window's destructor).
* `perftest.c`, the tests, the build files: no control logic.

## Plan

Done, in this order: `OffPeakWindow`, `ModeControl`, `InverterControl` with its proofs;
`MessageChannel`, `CommsProtocol` with type and payload proofs; `TcpClient` with its
proofs; `StatusService` and `TcpServer` with its proofs; `RemoteControl`;
`CommsChannel_proofs`; `StatusFeed`; `RemoteControl_proofs`.

Next:

1. The end of the monitor, as a further thread of `TcpClient`.
2. The order in which the console's own requests are served (`main.c:521`).
