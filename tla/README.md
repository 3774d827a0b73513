# sensor_hub in TLA+

`sensor_hub` is a daemon (a service under Windows) that reads sensors (Xsens,
Ublox, Runwell, NMEA and line-based devices) over serial lines, TCP and USB, keeps
a cache of their samples, computes statistics, and serves the result over HTTP,
Modbus and SignalK.  This directory models it in TLA+: what TLC checks on small
instances, what TLAPS proves for all of them, and what is left out.

All source paths below are relative to `src/`, manual pages to `manual/`.

## The system

One process, one `io_context`, one thread.  Everything that waits is a stackful
coroutine (`asio::spawn` with a `yield_context`) or a completion handler; they
interleave only where they suspend.  The exceptions are the USB event thread
(`usb.cpp`), the two threads of a Windows service besides the worker
(`winservice.cpp`), the hardware, and other processes (a second daemon on the
same pid file).  Components interact by calls; the only messages are bytes on
ports and connections.

| Component | State | Operations | Correct when |
|---|---|---|---|
| Service loop (`loop.cpp`) | device vector, one-second counters, timer | one-second tick; once a minute a walk that connects devices and starts their logs | every enabled device is tried again and again, and no overlap of walks initialises a device twice |
| Device, Port_device, polling mixin (`device.h`) | `connected_`, `port_`, poll loop, log flag | `connect`, `disconnect`, `initialize`, `poll_data`, `setup_device_log` | one poll loop per connected device, no port left open, the loss of hardware is noticed |
| Commands (`Port_device::exec_command`) | timer, pending operation, response buffer | write, read until the response matches, time out | each command ends, and its timeout hits nothing else |
| Serial and TCP ports | handle, pending operation | open, close, cancel, read, write | a cancelled operation leaves nobody waiting |
| USB port (`usb.h`, `usb.cpp`) | handle, deque of transfers, strand, event thread | the same, with completions from another thread and a nested `poll()` in `cancel` | a transfer completes once, is freed once, and its operation ends |
| Drivers (`devices/*`) | options, the step of their initialisation, parser buffer | sequences of commands; wakeup; packets and their conversion | a failed step is reported; parsing does not depend on how bytes are cut; values mean the same whatever packet they come in |
| Sample cache and clock (`device.h`, `datetime.cpp`) | a queue per quantity; offset and last value of the clock | insert, prune; adjust | bounded; stamps never go back |
| Statistics, acceleration history (`processors/*`) | windows, running mean and variance, peaks | `insert_value`, read-out | what has been accumulated equals its definition |
| SignalK (`signalk*.cpp`) | the last sample of each quantity, connections, write buffers | delta, accept, push | a delta is of one measurement; it arrives whole and in order |
| HTTP server (`http.cpp`) | acceptor, connections, parser state | accept, parse, respond, stop | a request means the same however it is cut; no connection is lost |
| Modbus server (`modbus.cpp`) | register map (the protocol is a library outside the tree) | read registers | every register maps to one word of one value |
| Daemon (`daemon.cpp`) | pid file and its lock | start, stop, restart | one daemon; `stop` finds it; a crash does not block the next start |
| Windows service (`winservice.cpp`) | reported status, event, worker, SCM entry | start, control handler, install, uninstall | whoever asks for its end gets it; the reported state never goes back |
| Configuration, logging, watchdog | files, I/O | | read once, or pure output |

The hard behaviours: walks of different minutes overlap inside `initialize()`;
a connected device is watched by a coroutine posted before it was connected;
timers whose handlers are already queued cannot be recalled; ports close under
pending operations; a USB completion crosses threads, and a cancellation runs
other handlers inside a handler; daemons start, stop and crash around one file;
three threads report the state of a service; incremental statistics must not
drift from what they summarise; a position is put together from samples that
came one by one.  `PROJECT.json` lists every such hazard at its line.

## The modules

### The service and its devices

`DeviceService` - the service timer, the walks over the device vector, and
connecting, watching and disconnecting each device.  `pc[c]` and `at[c]` are the
coroutine of one walk: a step inside `"run"` excludes all other handlers, as the
single thread does (`ThreadFree`), and `"init"` is where `initialize()` has
suspended.  `OneMinuteService` is the tick of `loop.cpp:255-284`, which re-arms
the timer before the walk begins, so walks overlap.  `SkipDevice`, `OpenFails`,
`OpenLeaks` and `OpenSucceeds` are the branches of `connect_devices` and
`Port_device::connect` up to `initialize()`; `InitSucceeds`, `InitFails`,
`InitFailsCloseThrows` and `InitHangs` are what follows its return, including
the `close()` that may throw; `PollStarts`, `PollReads`, `PollFails` and
`PollFailsCloseThrows` are the poll loop.  `PlugOrUnplug` is the hardware.  The
constants classify devices by what their port does when opened twice
(`Reopens`), when it refuses a setting (`Rejects`), when closed
(`CloseThrows`), and by whether their driver may wait for ever (`Hangs`).

`DeviceLifeCycle` - the abstract specification: each device is closed, then
initialised by one routine, then connected or closed again.  `DeviceService`
implements it for every device whose port does not reopen, with the phase of a
device computed from `connected` and from the walks (`PhaseOf`).

`ExecCommand` - one `initialize()` on a serial or TCP port against the ready
queue of asio.  The queue is explicit, first in first out, with the reactor as
one of its tasks, because the order in which a late timeout and a completed
read run is the whole question.  `xsens` selects the driver's habits (a pause
before each command, a reset after a failure; an Ublox has neither).  Asio is
modelled as its documented and implemented behaviour: an operation is tried at
once, so any write or read may complete with its handler at the end of the queue
(`StartOperation`); cancelling a timer does not recall a queued handler; `cancel()`
aborts only what waits in the reactor, and throws on a closed port.  `spent` is
history: the timeout of the command ran while its operation had completed and
only the handler was still queued, so that it aborted nothing.

`UsbPort` - the port under the attempts to connect a USB device and the poll loop
that use it.  A coroutine waits for one operation at a time, so a transfer bears
the name of its coroutine.  `strand_` is the queue of the port's strand, `stack`
the nesting of the main thread: `Usb::cancel` calls `io_ctx_.poll()`, so that a
cancellation is a frame of the stack, above which other handlers run until it
goes on (`PollReturns`).  `Completes`, `CompletesEmpty` and `Resubmits` are the
event thread.  `overtaken` says
that an attempt has opened the port while another one used it, which
`libusb_open` does not refuse; `crashed` that a handle or context was used after
its end.

### Packets, answers and values

`PacketFormat`, `PacketParser`, `RegexParser` - bytes, packets and the parsers, as
operators on a buffer.  `PacketsParsed` is `Xsens_parser::parse` and
`Ublox_parser::parse`: both grammars are "junk, preamble, header, as many bytes as
the header says, checksum", and both take a packet whole or leave the buffer
alone.  The Spirit rules for values are reduced to which identifiers and lengths
they accept.  `RegexParsed` is `Regex_parser::parse` round by round; an
expression is the set of texts it matches.

`Packets` puts a parser between a line and the cache: `Receive` is a turn of the
poll loop with `add_and_parse` and `handle_data`, including a conversion that
throws.  `buffer` and `queue` are the parser's and survive a reconnection.

`Responses` - `contains_at` (`tools.h:73`) and the length of an answer
(`device.h:462-480`), as operators; `ExpectedLen` keeps the 16-bit arithmetic.

`Initialisation` - the commands of the Xsens, Ublox and Runwell drivers, one after
the other, against a device that accepts, refuses or ignores each, with answers
cut by the reads in any way.  Where `ExecCommand` has the handlers and timers of
a command and no bytes, this module has the bytes, and one step per read.  `Read`
is a turn of the loop in `exec_command`, with the branches `Refused`, `Answered`
and `ReadsOn`; `UbloxGoesOn`, `XsensGoesOn` and `RunwellGoesOn` are what
`initialize()` does next.  An MTi-G-710 first looks for its wakeup
(`ReadWakeup`, `ReadConfiguration`, `WakeupTimeout`); a Runwell is asked for data by
a timer from its initialisation on (`RequestDue`, `RequestData`), whatever the
initialisation comes to.  `accepted` is what the device has taken since the port
is open, and is compared with what the driver believes.

`Quantities` - the enumeration of quantities and the norming of angles.
`UbloxValues`, `XsensValues` - which samples a packet becomes: the branches of
`ublox_impl.h` on the flags of a packet, the values of `xsens_impl.h` with their
permutation and sign, flipped or not.

### What is made of the samples

`Statistics`, `AccelerationHistory` - the two processors, as operators on their
state: `StatisticWith` and `HistoryWith` are `insert_value`.  Arithmetic is in
integers, in units of 1/`Scale` and 1/`Unit`, which `FiguresAssumption` of `Samples`
makes small enough for all divisions to be exact; that removes rounding, and
only rounding.  `Circle` makes the quantity an angle, with `value_diff` and
`value_norm` as in `quantities.h:418-462`.  `Dropping` is the loop that drops
expired samples, turn by turn.  `Sums` has the sums by which both modules say what
their figures should be.

`Samples` composes them: `Device::insert_value` puts a sample into the cache and
into the processor and prunes the cache.  A packet is one step, since nothing
suspends in `handle_data`.

`SignalKConverter` - from a sample to a delta, with the cache of the last sample of
each quantity.  `ModbusRegisters` - the input registers of a device and the
scaling of a value to one.  `Publishing` composes the drivers' values, the
device's cache, the deltas and connections of SignalK and the registers: one step
is a read with all its packets and what follows within the same handler
(`Read`), the arrival of a client, its reading of what has been sent, or its end.
A register request changes nothing; `RegistersTell` says what it would return in
each state.

### Servers and processes

`RequestParser` - `Request_parser` state by state, the decoding of a path and the
look-up that follows, as operators on symbols for the classes of bytes the code
tells apart.  `HttpServer` puts it between clients and the server: each connection
has one operation, pending in the reactor or ready with a result, and `Stop`
aborts only the pending ones.

`PidFile` - `start`, `stop` and `restart` on one pid file: inodes, the path, the
advisory lock of each inode, and the digits in it, one system call per step.
`Crash` is a kill or power failure after any of them.

`WindowsService` - `ServiceMain`, its worker and the control handler, with each
access to the shared status and to the service as a step, against the service
control manager and an operator who installs, stops and uninstalls.

### Instances and proofs

`MCDeviceService`, `MCUsbPort`, `MCPackets`, `MCInitialisation`, `MCSamples`,
`MCPublishing`, `MCHttpServer`, `MCPidFile` give the constants values for TLC.
`DeviceServiceProofs`, `UsbPortProofs`, `PacketsProofs`, `SamplesProofs`,
`PublishingProofs`, `HttpServerProofs` each extend the module of their name;
`InitialisationProofs` extends `Initialisation` and `ExecCommand` (whose
specification is called `CommandSpec`), `DaemonProofs` extends `PidFile` and
`WindowsService` (`ServiceSpec`).

## What the runs check

| Run | Bounds | What it shows |
|---|---|---|
| `device_service` | 3 walks; one exclusive device whose close may throw, one whose settings may be refused, one that reopens and may hang; 2 poll loops per device | `OneOwner`: one walk initialises a device, with its port open; `WatchedOnce`: one poll loop per connected device; `PortNotLeaked`; the refinement `LifeCycleSpec` |
| `device_service_live` | 2 walks, 2 devices, one of which may hang for ever | `FollowsHardware`: a device that is plugged in is connected, and one that is gone is noticed; `LogStarts` |
| `exec_command` | 3 commands, the first tolerated; Xsens and Ublox | `PollLoopUndisturbed`: the poll loop is never aborted by a left-over timeout; `AbortsOwnCommand`: an Xsens timeout hits only its own command; `CommandsEnd`: an initialisation ends, whatever the device does, unless the timeout of a command was used up |
| `exec_command_crash` | 2 commands | violated: `NeverCrashes` |
| `usb_port` | 2 attempts, each with one command beyond the first (`MaxOps`) and any number of reads; a device with 4 endpoints | `TransfersAccounted`: no transfer is lost, freed under libusb or handled twice, and the endpoints are bulk ones of the device; `OperationsEnd` |
| `packets` | bytes of three bits, a buffer of 16, reads of up to 3; any 3 of 5 to 8 fragments, then 4 Xsens, 4 Ublox packets or 16 lines | the reads make no difference to a binary parser; whole packets all arrive, each once; after any noise the parser recovers |
| `initialisation` | 5 drivers, 2 connections, 1 packet of measurements nobody asked for, with what follows the beginning of an identification in it, 2 requests for data; real preambles and identifiers, short settings | `InitialisedMeansReady`: a device that counts as initialised has accepted what it needs, and a Runwell goes on being asked; `AnswersRight`: where an answer begins is found, a wrong identification is never used |
| `samples` | period 3, times up to 8 in gaps of 0, 1, 2 and 4; 3 values; cache of 4 samples and age 4; runs of up to 4 moments, list of 1 peak | `StatisticTells`: mean, variance and window are those of the samples in it, and the cache is bounded; `PeaksRecorded`: listed peaks are the figures of their runs, of whole moments |
| `publishing` | 2 reads of up to 2 packets, no or one tick apart; 5 Ublox packets, 2 Xsens messages; 2 clients with room for 4 deltas; registers of 4 values, angles in quarters of a turn | `MeasurementsNotMixed`: a position or attitude is of one measurement; `DeltasDelivered`: a client that keeps up gets every delta, whole and in order; `RegistersTell`: one request reads one position to the accuracy of its registers, the words of all numbers in one order, whichever it is; `OrientationTells`: quaternion, Euler angles and acceleration of an Xsens agree |
| `http_server` | 2 connections; a short and a full request, a byte that is none, five paths; the full one with one symbol replaced, left out or inserted at places all along a request; one client byte by byte, the other patient | `VerdictOfGrammar`: what is made of a request depends on its bytes and not on the reads; `EveryConnectionAccounted`; `Served` |
| `pid_file` | 3 invocations with pids of different lengths | one daemon until a pid file is removed, no file left after orderly stops, stale files do not block a start |
| `windows_service` | 3 commands, 2 processes | `RequestsTakeEffect`: a stop stops and an uninstall removes; `StatusNeverGoesBack` |

Why the bounds are enough.  Three walks: two to conflict over a device and one to
pass by; no guard tells more of them apart.  Three classes of ports cover every
guard that depends on a device.  Two poll loops are one more than there should
be; `MaxLoops` only cuts off the reopening port, which can collect more.  A
command can conflict with its predecessor, its successor and the reset that
follows a failure: three commands have all three.  Two attempts on a USB port are
an attempt and one that overtakes it or follows it; one operation each leads
through submission, completion, cancellation and timeout, and the poll loop
brings further ones.  Three fragments are enough
for a false preamble, the packet it swallows and one that follows; the buffer of
16 holds less than the longest packet a preamble can promise (Ublox) and more
than any that is sent, as 4K does.  For packets the recovery counts follow from the
lengths (`RecoveryAssumption`); for lines TLC has found that 14 are not enough.  A second connection meets what the first has
left over; one unasked-for packet can come before, between or inside the reads of
any answer.  Time 8 with period 3 lets a
window fill, lose several samples at once, restart after a gap and fill again;
equal stamps occur because a step may take no time.  `MaxRun` bounds how many
moments one run of accelerations may have, since moments may have equal stamps.
Two packets in one read or in two reads of one stamp are the ways in which
samples of two measurements can meet; the values are chosen so that each limit of
a register is hit and exceeded.  Two connections differ in what can go wrong with
them: one client does anything, the other waits to be served.  Three invocations
are the fewest that can start two daemons around a third.  Three commands are an
install, a stop and an uninstall, and two processes one that is restarted.

## Fairness

* `DeviceService`: asio runs ready handlers in the order in which they became
  ready, so a tick, a posted poll loop, a returning `initialize()` or a failing
  read that waits for a running walk gets its turn although it is disabled in
  between: strong fairness.  A running walk needs weak fairness only.  One
  assumption concerns the hardware: if `initialize()` of a device that is tried
  again and again can succeed, it does at some point.  `Hangs` devices may stop
  a walk for good and get no fairness that would end it.  `FollowsHardware`
  assumes that a read of hardware that is gone fails.  A serial port or socket
  does that; `usb.h:285-288` only logs a transfer it cannot submit, and an NMEA
  device has no poll loop at all (`devices/nmea.h:56`), so for those two the
  result does not hold; both are in the list of hazards.
* `ExecCommand`: the thread runs what is queued, and a timer that runs expires
  (strong, since the reactor is not always at the head).  Nothing is assumed of
  the device.
* `UsbPort`: every transfer has a timeout, so the kernel ends each (strong, since a
  transfer that is resubmitted is a new one; a device that sends nothing but
  empty packets is excluded by this).  The event thread goes on; the main
  thread comes to every handler, and a nested `poll()` finds the queue empty at
  some time.
* `HttpServer`: ready handlers run.  Only `Patient` clients connect, send and
  receive with fairness; the others may do nothing for ever.
* `WindowsService`: the threads are scheduled and the SCM makes the calls it has
  announced.  Nothing makes an operator give a command.
* `PidFile`: an invocation that has something to do does it.  Nothing makes
  anybody give a command, and a daemon need not stop by itself.

## What the violation means

`exec_command_crash`: a timeout queued behind the handler that ends its
command runs after `connect()` has closed the port; `cancel()` throws, and
`enter_loop` aborts the process (`device.h:415`, `loop.cpp:406`).

## Other facts

What the models show or had to set aside, by component.  The properties that
exclude such a case say so in their definition.

Commands and initialisation

* A read may complete at once, with its handler queued behind a timeout that has
  expired: the device sends on its own, or its answer comes in pieces.  The timeout
  then finds nothing to cancel and is used up (`spent`); the command reads on without
  one (`device.h:412-441`), and a device that stops there, even in the middle of an
  answer, holds the initialisation up for ever.  `CommandsEnd` names this as the only
  way in which one does not end; it does not hold without the exception.
* `exec_command` looks for an answer in bytes, not in packets: a payload that spells
  the beginning of the answer is taken for it (`tools.h:73-105`), for example
  `FA FF 01` in measurements of an Xsens, for its identification.  The measurements of
  `Initialisation` have no byte that packets begin with (`InitialisationAssumption`).
* The length of an answer is computed once, when its beginning has been found,
  from bytes that may not have come yet (`device.h:469-478`).  The command then
  succeeds with the first bytes of the answer.  This cannot give a device a
  wrong identification (`AnswersRight`); it can leave it without one.
* In `a && b ? x : ...` of `setup_gnss` (`ublox.h:652-655`) the first two operands
  are one condition.  With galileo or beidou, navigation settings that were
  refused only select another branch, and the initialisation goes on:
  `InitialisedMeansReady` asks for the dynamic model of a GLONASS receiver only.
* An acknowledgement of a Ublox does not say for the driver what it
  acknowledges (`ublox.h:452`): one that comes after its timeout answers the first
  command of the next connection, and all later ones are shifted.
  `initialisation` has devices that answer in time (`Slow = FALSE`).
* A wakeup of an MTi-G-710 that is cut by the reads is not seen; a timeout during
  the write of its acknowledgement throws, and one between the two reads leaves
  the second without any (`xsens.h:383-425`).
* The requests for data of a Runwell go on after a failed initialisation
  (`runwell.h:77`), and a line of data that comes during a later one is taken for
  its MAC address (`strayed`).

USB

* An attempt that opens the port under another one loses the transfers of the
  old handle and can crash (`usb.cpp:475`).  `overtaken` marks these runs, and
  `TransfersAccounted` excuses them from its second part.
* A transfer that comes back empty is submitted again, even if it was cancelled
  meanwhile (`usb.h:224-230`).  One that cannot be submitted is only logged, and
  its coroutine waits for ever (`usb.h:285`); such a transfer, or a lost one, at
  the front of the deque keeps all that are cleared behind it.
* `usb_ctx_` is cleared by one thread while the event thread reads it.
* A device that is silent for two seconds is disconnected: the timeout of a
  transfer is an error like others.

Packets and values

* What a regex device reads does depend on how its text is cut: a round goes on
  behind the last match of any filter, so that earlier ones of other filters are
  lost, and a match at the end of the buffer may be cut short
  (`devices/regex.h:62-126`).  A filter that matches the empty text makes `parse`
  loop for ever; `RegexParserAssumption` excludes it.
* A text that matches but cannot be converted throws from every read until the
  buffer exceeds 4K, each time with a disconnection (`devices/regex.h:93`).
* A Ublox packet longer than 4K can be lost although it is whole (`parser.h:50`);
  the devices send none.
* The comments on the fields of ESF-INS give 1E-3 and 1E-2; the code multiplies
  by 10E-3 and 10E-2, which is ten times that (`ublox_impl.h`).  Raw sensor data
  whose time tag has wrapped are dropped.
* The world axes of an Xsens orientation are always turned, those of its free
  acceleration and velocity only when it is flipped (`xsens_impl.h`).

Samples and publishing

* The mean of an angle moves along the shorter way both when a sample comes and
  when it goes.  If the angles of one period span more than half a circle the
  ways differ, and the error stays until a gap restarts the statistic
  (`processors/statistics.h:132`); `samples` has angles within half a circle.
* Two position packets of one read, or of one stamp, can give a delta the
  latitude of the one and the longitude of the other
  (`signalk_converter.cpp:8`).
* `async_write` is given a buffer that is gone when a slow client takes it, and a
  second send starts while the first is under way (`signalk_server.cpp:5`):
  `DeltasDelivered` is about clients that keep up.  Closed connections stay in the
  list and are counted.
* `manual/modbus.texi:14-18` has the registers from 10000 on "in LE double format";
  the code puts the most significant word first (`modbus.cpp:51`).  `RegistersTell`
  takes no side: it asks for one order, the same in all numbers.  Registers 2000 and 2032 of the
  manual are not there; two requests for one value can tear it.

Servers and processes

* A client that sends half a request keeps its connection for ever
  (`http.cpp:847`).  A handler that was ready when the server stopped still
  runs.  A connection carries one request; what follows it is dropped.
* `~Pid_file` closes the descriptor, and with it gives up the lock, before it
  removes the path.  A daemon that locks the file in between loses its path, and
  the next start makes a second one (`daemon.cpp:66`); hence
  `OneDaemonUntilRemoval`.
* A left-over pid file is overwritten, not truncated (`daemon.cpp:64`), so that
  `stop` may read a pid with digits of two daemons.
* If the worker ends by itself while a stop is under way, `STOP_PENDING` is
  written over `STOPPED`, and the SCM waits for a service that has ended
  (`winservice.cpp:185-220`).  The properties of `windows_service` name this case
  (`Stranded`, `EndedByItself`).  An HTTP port in use is a way for a worker to end
  by itself.  The handler clears the devices while the worker may use them
  (`winservice.cpp:217`).

## What is proved

Each proof holds for every value of the constants that satisfies the assumption
of its module.

| Module | Theorems | Assumption |
|---|---|---|
| `DeviceServiceProofs` | `TypeCorrect`, `SingleOwner`, `ConnectedIsWatched`, `NoPortLeaks`, `Refinement` (`Spec => LifeCycleSpec`) | `DeviceServiceAssumption`: the classes are sets of devices |
| `UsbPortProofs` | `TypeCorrect`, `EveryTransferAccounted` | `UsbPortAssumption`: attempts are numbers, descriptors are sequences of endpoints |
| `PacketsProofs` | `TypeCorrect`, `PacketsArrive`, `ReadsDoNotMatter`, `ParsedInPieces`, `BufferNeverGrows`, `ParserRecovers` | `PacketsAssumption`, `WholePacketsAssumption`; `ParserRecovers` also `RecoveryAssumption`: a good packet has a value and no preamble but its own, two fit the buffer, and the packets counted are together longer than a full buffer, a read and one packet |
| `InitialisationProofs` | `TypeCorrect`, `AnswersAreRight`, `InitialisedIsReady`, `FirstPlaceFound`, `FoundDoesNotMove`; of `ExecCommand`: `CommandTypeCorrect`, `PollLoopIsUndisturbed`, `TimeoutHitsItsOwn` | `InitialisationAssumption`: bytes and preambles are those of the code, bounds are numbers, and what a device sends by itself are packets of measurements of up to 180 bytes, none of which is one that packets begin with; `InitialisedIsReady` also `Slow = FALSE`, a timeout never comes before the answer; `FirstPlaceFound` and `FoundDoesNotMove`: none, they are about `contains_at` on any sequences; `ExecCommandAssumption`: commands are numbered |
| `SamplesProofs` | `TypeCorrect`, `StatisticIsRight`, `PeaksAreRecorded`, `CacheIsBounded` | `StatisticsAssumption`, `AccelerationHistoryAssumption`, `SamplesAssumption`: bounds and values are numbers; `FiguresAssumption`: every span up to `MaxTime` divides the units, which some `Scale` and `Unit` satisfy for any `MaxTime`; readings of an angle are less than half a circle apart, and accelerations have whole lengths |
| `PublishingProofs` | `TypeCorrect`, `ClientsGetEveryDelta`, `PacketsAreNotMixed`, `RegistersAreRight` | `PublishingAssumption`: packets have the fields of their type, bounds are numbers; `ModbusAssumption`: a register has an even number of values; `RegistersAreRight` also `Scaled`: the configuration gives latitude and longitude a factor, or bounds of which the lower is less |
| `HttpServerProofs` | `TypeCorrect`, `ConnectionsAccounted`, `AnsweredOnce`, `ParsedInPieces`, `ReadsDoNotMatter`, `ParserIsGrammar`, `VerdictsAreRight` | `HttpServerAssumption`: requests and replies are of symbols; `EndingsAssumption`: there is an ending for every state in which a request may be left (TLC evaluates it) |
| `DaemonProofs` | `TypeCorrect`, `SingleDaemon`, `NoFileLeft`; of `WindowsService`: `ServiceTypeCorrect`, `NeverGoesBack` | `PidFileAssumption`: finitely many invocations, pids of their own; `WindowsServiceAssumption`: bounds are numbers |

The arguments.

* *Devices.*  `OneInit` alone is not inductive.  What keeps a second walk out of
  `initialize()` is not a lock but the port, which refuses to be opened twice; so
  it matters that the port of a device under initialisation stays open
  (`InitOwnsPort`).  It could be closed by a poll loop, so there must be none
  while the device is disconnected (`OneLoop`).  `IInv` is the conjunction of
  these with `TypeOK`, `Watched` and `PortNotLeaked`.  The refinement shows that
  each step moves the phase of at most one device (`OpenStarts`, `InitEnds`,
  `PollLoses`) and leaves the others alone (`MoveOne`, `StayPut`).
* *Commands.*  What a late timeout can hit is decided by the order of the queue:
  nothing that could touch the poll loop is behind `Posted`, nothing of a command
  behind the end of a pause (`Ordered`).  Together with what may be under way in
  each phase (`PollIsAlone`, `PauseSeparates`) this leaves an Xsens that executes a
  command with its own timeout at most (`TimeoutIsOwn`).
* *USB.*  A transfer is in the deque exactly while its coroutine waits for it
  (`Accounted`), and in the strand exactly once if it is posted (`Queued`);
  a cancellation that is under way belongs to a coroutine without a transfer, and
  there is one such at most (`Held`).  Without an attempt that overtakes another
  one coroutine is under way and the port is open for it (`Alone`), hence nothing
  is lost or freed early.  `EndpointsSet` brings in the descriptors: the last of a
  kind is an endpoint of that kind.
* *Answers.*  `contains_at` stops at the first place that does not disagree, even
  if the container ends there; that is the first occurrence, because a later
  place has even less room (`FirstCandidate`, `OccursAgrees`).
* *Initialisation.*  An answer is told by how it begins, so a wrong identification
  needs bytes that begin like it and are something else.  They could come in the
  payload of a measurement, so these are assumed to be without the first byte of a
  packet, which is more than the code makes sure of.  Then each packet of a device is
  `Clean`: wherever the mark of the identification is in it, so is the whole
  identification, and it begins with a byte that a mark has at its beginning only, so
  that no mark reaches from one packet into the next.  So the stream, which is what was
  read for a command and what is still on the wire, is `Genuine`: wherever the mark is,
  the identification is.  Reading, dropping and sending keep that (`StreamGenuine`).  The answer of a Runwell has no mark; all its
  bytes are the same until a line of data strays in (`RunwellStream`).  The place of
  the answer, which the code finds once and keeps, stays the first in all that has
  been read since (`FoundSoFar`).  The invariant is `StreamInv /\ IdInv`; timeouts
  that come too early (`Slow`) make no difference to it.
* *Readiness.*  What exec_command takes for success is that bytes occur, so
  `InitialisedIsReady` has to say whose bytes they are.  Three bytes tell a reply
  (`ReplyAt`) from whatever a device sends by itself, and a packet brings one at
  most, at its beginning (`AtMostOne`, `Silent`).  The invariant (`ReplyInv`) is that
  the device has to deal with no earlier command (`OnePending`); that the stream has
  one reply at most to the current one, none before the device has dealt with it, and
  none that agrees with what is expected unless the device has accepted it
  (`OneReply`); and that all commands before it have been accepted, as far as they
  are needed (`CommandsDone`).  So a reply that is found is the last one, and
  the next command begins with an empty stream (`GoesOnAlone`).  The answers of a
  Runwell are told by nothing: `RunwellDone` counts their bytes.  With a timeout that
  comes too early `OnePending` is lost, and an acknowledgement of a Ublox is taken for
  that of a later command: `Slow = FALSE` cannot be left out.
* *Packets.*  The parsers' recursion is on the length of the buffer, and each
  theorem takes the shortest buffer for which it would be wrong.  A packet ends
  where its own bytes say, so that more bytes behind it change nothing; hence what
  is parsed at once is parsed in pieces (`ParsedInPieces`).  `PacketsArrive` adds
  that what is in the buffer and on its way is always the rest of the packets
  sent (`OnItsWay`); a fragment that is called a packet is one by its own bytes
  and fits the buffer (`WholePacketsAssumption`).
* *Recovery.*  The invariant (`Recovering`) is that, until there is a value, the
  stream is known as far as it matters: all bytes the parser has not passed, and
  marks where the good packets in them meet (`GoodFrom`).  Either the parser has not
  passed the beginning of the good line, which can only be as long as a full buffer
  and a read last; or it waits for the packet at one of the first marks, with nothing
  before that mark that it could take for a packet (`Waiting`).  Clearing the buffer
  or swallowing packets with a false length brings it from the first to the second
  at once (`MarkIsNext`, `ParsedAhead`), and then the buffer is not cleared any more,
  so that the whole packet gives its values (`MarkReached`).
* *Publishing.*  In all values of a read a latitude is directly followed by the
  longitude of the same packet (`Paired`, `Stamped`).  Joining and flattening keep
  this, and each kind of packet has it, because only LatLon of an Xsens and the
  position of a u-blox give either.  What the recursive functions of `Publishing`
  compute from these values is shown from one value to the next: between a latitude
  and its longitude the cache is ahead of what was told, otherwise the last
  position told is the device's (`PositionIsTold`).  The stamps of the cache are
  not of the future and, before the first read, of no read (`CachePast`), so that
  only packets with a shared stamp can meet.  A client that keeps up has nothing
  that waits (`Delivered`).
* *Registers.*  The two registers of a quantity are quotient and remainder of the
  scaled value (`TwoWords`), the four of a double those of repeated division
  (`FourWords`).  Scaling is one division between two clamps and the inversion of
  the top bit, which undoes itself (`TopBit`): within the bounds the value that the
  registers encode is less than one step off (`BetweenBounds`, `ScaleEncodes`).
  What is left is that the values of a device are numbers (`NumbersKept`), and for
  that each kind of packet is gone through once more; that latitude and longitude
  come together is from `PacketsAreNotMixed`.
* *Statistics.*  Mean and variance are sums over the intervals of the window,
  divided by its span, and one sample more or less changes both sum and span.  The
  mean moves so that mean times span is the longer, or shorter, sum (`MeanAdded`,
  `MeanRemoved`).  The variance is about a mean that has moved; with the mean known,
  the squares about the old one are those about the new one and the shift, which is
  what the code adds and takes away (`VarianceAdded`, `VarianceRemoved`).  The
  readings being within half a circle, no difference wraps, and the mean stays
  between the readings.  The loop is followed from turn to turn (`TurnLeaves`,
  `DroppingLeaves`): what is left is the window less its first samples, all of which
  have expired.  That the window has what is recent in the cache needs that both are
  in the order of the stamps and pruned from the front; the invariant is
  `StatisticPart`.
* *Cache.*  Pruning drops all before the first sample that is young enough; that
  the rest is young as well needs the order of the stamps, which the clock gives.
* *Peaks.*  The current peak has the figures of the moments of its run so far, whose
  stamps do not go back, and is none if there is no run (`HistoryPart`).  Each
  moment makes duration, peak, mean and mean square those of the longer run
  (`MeanGoesOn`), and a moment below the threshold ends the run with what is known
  of it (`Recorded`).  Components wait with the stamp of their packet; one of another
  packet finds none waiting unless a packet had only one.
* *HTTP.*  A connection that has replied has an operation that ends it
  (`AnsweredIsDone`), and one that still arrives has none (`ArrivingIsNew`).  For the parser, `Shape`
  says of each of its states which lines have been read and what the current one
  may yet become.  With it, what is accepted is a request of the grammar, since the
  last byte finds the shape of one; and a request of the grammar is accepted, since
  each byte of it finds its move.  A verdict is never early or late, because a text
  without one can still be ended to a request (`CanEnd`), and a text that is refused
  cannot (`NoWay`).
* *Pid file.*  Until somebody removes the path every descriptor is that of the
  inode at the path (`OneInode`), and a daemon holds the lock of its descriptor
  (`DaemonsHold`): two would hold the same lock.  No invocation runs out of inodes
  (`InodesLeft`).  For `TidyExit` the invariant is that whoever has a lock runs
  (`HoldersRun`) and that a path leads to an inode somebody has open, unless
  somebody is about to remove it or has died (`PathIsOwned`): who fails to lock
  the inode leaves the path to the holder of the lock.
* *Windows service.*  While the worker has not ended by itself, the place of
  `ServiceMain` fixes the status and what has been reported, up to a handler that
  is under way, which is the only writer then (`BeforeStart`, `StartPending`,
  `UntilWorkerEnds`, `WorkerEnds`).

Only model-checked: everything about liveness and `ENABLED`, which the prover has
no backend for (`FollowsHardware`, `LogStarts`, `CommandsEnd`, `OperationsEnd`,
`Served`, `StartSucceeds`, `RequestsTakeEffect`).  The library's induction takes an
operator, which no backend can instantiate; where a recursive function is proved
about, a set of naturals has a least one instead (`UpTo`, `LeastExists`).  Not
proved are `OrientationTells`, whose table of packets, each with an orientation told
twice, is that of the instance; and of the text parser `EachMatchOnce` and when it
recovers, which depend on the regular expressions chosen.

## What is not modelled

* The rate at which the clock is adjusted, and the choice of a device as source of
  the time (`datetime.cpp`, `use_as_time_source`): floating-point arithmetic.  That
  the clock does not go back is part of `Samples`.
* What a failed connection leaves of a TCP port: asio's socket stays open
  (`socket.h:61`) and is used again by the next attempt; `OpenFails` leaves the
  port closed.
* The five-minute and hourly services, the Boost.Log back ends, the watchdog and
  the event log of Windows: output only.
* The configuration, parsed once at start, and the options of devices and ports
  parsed from it.
* The dummy device, the fusion processor and the TCP push processor: a test
  signal and two stubs.
* The JSON of devices, processors and deltas, HTTP headers, names of units and
  the geodesy formulas (`quantities.h`, `functions.h`): wording, tables and
  floating-point arithmetic.  Hazards say where rounding bites.
* The parents of the double fork, the driver installer, and the vendored
  libraries except as far as the modules use them.

Worth adding later: one model of `UsbPort` under the walks of `DeviceService`
(each is composed with the other's abstraction now); the timer of `ExecCommand`
under the bytes of `Initialisation`.
