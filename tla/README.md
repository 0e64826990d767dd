# TLA+ verification of dh_ag95_driver

This directory holds TLA+ models of the driver for the DH-Robotics AG-95
gripper, the TLC configurations that check them on small instances, and TLAPS
proofs of theorems about them for every value of their constants. Source paths
are relative to the repository, which the models are translated from.

Contents: [the system](#1-the-system) ·
[hard behaviours](#2-what-is-hard-about-it) ·
[modules](#3-modules) · [runs](#4-runs) · [proofs](#5-proofs) ·
[disagreements](#6-where-documents-and-code-disagree) ·
[not modelled](#7-what-is-not-modelled) · [plan](#8-plan)

## 1. The system

An application calls `Ag95Gripper`; the driver exchanges frames (id, function,
sub-function, read/write flag, 32-bit value) with the gripper over a serial
adapter or a CAN bus. The gripper answers a read with the register's value,
echoes a write, and sends frames of its own (object dropped, initialization
complete). There is a C++ and a Python implementation.

| Component | State | Operations | Correct when |
|---|---|---|---|
| Transaction engine and receive thread (`src/ag95_gripper.cpp`, `ag95_gripper.hpp`) | `transport_`, `receive_thread_`, `receive_running_`, `pending_transaction_` (pointer to a `PendingTransaction`: expected, response, completed), `event_queue_` | `connect`, `disconnect`, `transact`, `send_write_immediate`, `receive_event`; `receive_loop` in its thread | a call ends in a frame that matches it or in an exception; unsolicited frames become events, once and in order; every call returns; sessions do not mix |
| Write cache (same files) | `write_cache_`: per register id, last value sent and when, pending value and since when | `write_register`, `flush_pending_writes`, `flush`; `read_register` and `disconnect` flush first | no accepted write is forgotten whatever fails; a read sees the last write; a skipped duplicate really is one; only the latest value is sent |
| Command interface (same files) | the gripper's id; inside a call, `Ag95State` and the deadline of `initialize` | `initialize`, `set_*`, `get_*`, `get_all_state`, the I/O and CAN settings, `set_local_gripper_id` | the gripper is sent legal values only; what `initialize` and `get_all_state` report is true |
| Object life cycle (same files) | the object, its thread, its transport | constructors, `make_transport`, `connect`, `disconnect`, destructor | what is left by an exception can be used again, or destroyed |
| Frame codec (`src/protocol.cpp`, `protocol.hpp`) | none | CAN and serial forms of a frame | decoding inverts encoding |
| Official serial transport (`src/official_serial_transport.cpp`) | the serial port; inside one `receive`, `buf` and `pos` | `open`, `close`, `send`, `receive` | finds every frame after noise, returns only frames that were sent, in time |
| Serial port (`src/serial_port.cpp`) | `fd_` or `handle_` | `open`, `close`, `write_all`, `read_some`, `drain_write`, on POSIX and Windows | frames go out whole; a failed `open` leaves nothing |
| SocketCAN, PCAN-Basic (`src/socketcan_transport.cpp`, `src/pcanbasic_transport.cpp`) | the socket; the library, its symbols and the channel | `open`, `close`, `send`, `receive` | frames are returned as they were sent; handles and libraries are given back |
| Modbus (`src/modbus_transport.cpp`) | none | every operation throws | - |
| Configuration, gripper model | constants; unit conversions | - | - |
| Python gripper (`python/dh_ag95/gripper.py`) | `transport`, `_recv_thread`, `_recv_running`, `_pending_frame`, `_pending_response`, `_pending_done`, `_event_queue` | as in C++ | as in C++, and events outlive a session |
| Python transports, codec, configuration (`python/dh_ag95`) | the port or bus of pyserial or python-can | as in C++ | as in C++ |
| Example (`examples/cpp_example.cpp`) | none | commands, and loops that wait for a motion | a loop ends when the motion has |
| Gripper and bus (external) | registers, jaws, frames on their way | apply, answer, report, calibrate, move, lose power | - |

**Interactions.** The application's thread calls into the engine; commands go
through the cache, and the cache calls the engine once per register it flushes.
The receive thread calls the transport's `receive` in a loop with a 100 ms
deadline and hands each frame either to the `PendingTransaction` it matches or
to the event queue. The two threads share `pending_transaction_` under
`transact_mutex_`, the object it points at under its own `mtx`, the queue under
`event_mutex_`, the atomic `receive_running_`, and the transport without a
lock. `transact` takes `transact_mutex_` while it holds `mtx`; the receive
thread takes the same two one after the other.

## 2. What is hard about it

`PROJECT.json` lists the hazards at their lines. In groups:

- *Two threads and time*: a wait times out while the answer is on its way; the
  receive thread has matched a frame and not delivered it yet; `disconnect`
  meets the receive thread anywhere in its loop; a notification and a timeout
  of `receive_event` coincide; the clock is read twice and moves in between.
- *Matching*: an answer is recognised by id, function, sub-function and the
  read/write flag only, so a late one looks like the answer to a later call of
  the same register.
- *Failures halfway*: `send` throws inside `transact`, inside a flush of
  several registers, or inside the flush of `disconnect` or of the destructor;
  `open` throws between two calls of the system; `::write` takes a part of a
  frame.
- *Returned is not applied*: without `wait_write_echo` a write returns when its
  frame was sent; with it, when an echo of the same register came, be it that of
  an earlier write, since values are not compared.
- *Stale data*: the cache remembers a value as sent across failures, ids,
  sessions and power losses, and begins by remembering a 0 that was never sent;
  `initialize` and `get_all_state` are many reads of a gripper that moves on
  between them.
- *Framing and foreign frames*: bytes are lost, or a deadline passes in the
  middle of a frame; the CAN bus carries frames of other stations.
- *Limits*: the event queue is full; the window of a deferred write is over; a
  value lies beyond its register's range or wraps in its parameter's type.

## 3. Modules

| Module | What it is |
|---|---|
| `TransactEngine` | the engine with both threads, the bus and the gripper |
| `RequestPort` | abstract: what a caller of `transact` is promised |
| `WriteCoalescing` | the write cache |
| `RegisterLine` | the registers of the grippers and the line to them (external) |
| `RegisterBuffer` | abstract: what a write buffer promises, on the same line |
| `CommandInterface` | the commands, through the cache, against a gripper that calibrates and moves |
| `Transports` | `open` and `close` of every transport, as sets of outcomes |
| `Lifecycle` | constructor to destructor: transport, thread and cache together |
| `SerialFraming` | `receive` of the serial transport over a stream of bytes |
| `SerialLine` | the serial port under time: pacing, partial writes, deadlines |
| `FrameCodec` | values and frames in both encodings |
| `CanLink` | `send` and `receive` of SocketCAN and PCAN-Basic, with the codec |
| `PyTransact` | the Python engine with its threads, against the same `RequestPort` |
| `LossyLink` | abstract: a link that loses frames and does nothing else to them |
| `MC...` | the instances TLC checks |
| `...Proofs` | theorems and their proofs |

The models fit together as layers. `RequestPort` is what `TransactEngine` shows
of a transaction to its caller: how often a request is sent, and how it ends. It
does not say that a write that returned was applied, and no module above it
assumes so. `WriteCoalescing` therefore keeps requests and answers on a line
(`RegisterLine`), where either may be lost or late, and takes of a transaction
what `RequestPort` has: sends, an answer that matches, or an exception.
`CommandInterface` and `Lifecycle` take a transaction as one step; what they
assume of it is in their sections below. `TransactEngine` takes the bus for
a FIFO of whole frames that may be lost or late, which is what `LossyLink` says
of both `SerialFraming` and `CanLink`; and it takes `receive` and `send` for
calls that end, which is what `SerialLine` is about. `Lifecycle` composes
`Transports`, the receive thread and a cache of one register.
Definitions whose name ends in `Bug` are deliberate errors; each of them
replaces the definition that follows it in a mutation run that shows that the
property named in `PROJECT.json` can tell the difference.

### TransactEngine

A step is what one thread does under one mutex, or one call of the transport.
`callerPc` says where the application's thread is, `rxPc` where the receive
thread is.

| State | Code |
|---|---|
| `callerPc`, `attempt` | the control point in `connect` ("drain"), `disconnect` ("join"), `transact` ("send", "wait", "finish", "timedout"), `receive_event` ("waitevent"); "idle" is outside the library |
| `rxPc`, `rxFrame`, `rxPt` | the control point in `receive_loop`, its `frame`, and which call's `PendingTransaction` its `pt` points at |
| `open`, `running` | `transport_->is_open()`, `receive_running_` |
| `pending`, `pt` | whether `pending_transaction_` is set, and the newest `PendingTransaction`; older ones can only be written to by a late delivery, which nobody reads |
| `events` | `event_queue_` |
| `toDev`, `toHost`, `regs` | external: the two directions of the bus and the gripper's registers |
| `result`, `calls`, `sent`, `late`, `written`, `taken`, `unsolicited`, `overflow`, `emitted`, `used` | history, for properties and bounds; no action reads it but for the bounds and the serial numbers |

Actions follow the code one to one: `Transact`, `Send`/`SendFault`,
`WaitReturn`, `Finish`, `WaitTimeout`, `Retry`, `GiveUp` are `transact`;
`RxCheck`, `RxReceive`, `RxTimeout`, `RxFault`, `RxMatch`, `RxDeliver`,
`RxEnqueue` are `receive_loop`. `mtx` is held from `WaitReturn` to `Finish`,
which is why `RxDeliver` waits there. Time is abstract: `WaitTimeout` may
happen at any moment at which there is no answer yet, so the models cover
every ratio of delays to timeouts. A retry sends whatever arrived during the
50 ms pause, as the code does. The catch of `ProtocolError` around `send`
(ag95_gripper.cpp:180) is left out, since no transport in the repository throws
it there.

### WriteCoalescing

Only one thread touches the cache, but a flush is a sequence of transactions,
and a transaction a sequence of sends and waits. `FlushSend` puts the frame of
one register on the line; with `waitEcho` off that is all, with it on the call
waits (`pc` = "wait") until an answer of this register and direction comes,
whatever its value (`Answers`, `WriteConfirmed`), sends again (`Resend`), or
throws (`FlushFails`) with its frames still on their way. An answer nobody waits
for is ignored (`IgnoreAnswer`: the receive thread queues it). Reads go the same
way (`ReadSend`, `ReadReturns`, `ReadFails`). `todo` and `call` say which flush
is under way and what its caller does next; `write_register` continues after
the flush with the time it read before (`WriteResumed`). The branches of
`write_register` are the actions `WriteSkipped`, `WriteRefreshed`,
`WriteReplaced`, `WriteExpired` and `WriteDeferred`. Time is a counter, since
the code compares time stamps with the window. The order of a flush is any
order, as that of an `unordered_map` is. With coalescing off the cache is not
used: that case is `SendWriteImmediate` of `TransactEngine`.

`RegisterLine` is a queue of requests and one of answers for each register: the
gripper serves the first request (`Serve`), a request is lost (`LoseRequest`),
an answer leaves (`Leave`). `newest` and `lost` are history: the value of the
last write put on the line, and whether the bus lost that one. `stale` is
history too: the registers and directions whose answer may be that of an
earlier transaction, because a frame of one was on its way when this one began.
`RegisterBuffer` has the line, `wanted` and `last`, and neither cache, window
nor flush.

### SerialFraming

One step reads one byte (`Scan` in the header, `Collect` after it, `Accept` or
`Refuse` on the last one) or is the deadline. `line` is the stream, `buf` the
buffer of the call under way. The size of a payload is a constant, as are the
header and the footer. Two histories say what the code cannot see: each byte
carries its frame and its place in it (`frame`, `at`), and `gap` counts the
bytes lost since the last byte of the header in `buf` was read, at most
`MaxGap`. The Python transport has the same algorithm
(`python/dh_ag95/transports.py:47`).

### SerialLine

What `SerialFraming` leaves out: time, and the way out. `Command`,
`EnforceInterval`, `WriteSome`/`WriteFile`/`ShortWrite`/`WriteFault` and
`DrainWrite` are `enforce_interval` and `OfficialSerialTransport::send` with
`write_all` and `drain_write`; `Call`, `CheckDeadline`, `Remain`, `ReadByte`,
`ReadNothing` and `ReadFault` are `receive` with `read_some`. `platform` says
which branch of the `#ifdef` is compiled; the two differ in partial writes and
in how `read_some` waits. `Tick` may come between any two steps, so also
between the check of a deadline and the computation of the time that remains. A
byte that arrives may be noise: within the header it leads back to the
beginning, or behind the first byte, or on (`NextPos`), so a call may read any
number of bytes and only the deadline, which no byte moves (`LeftAfterByte`),
ends it. `out` holds the indices of the bytes that were handed over, which is
all that the order of a partial write needs. Durations are counted since or
until, and stop counting where they no longer matter (`Cap`, `MaxLate`).

### FrameCodec and CanLink

`FrameCodec` has the conversions of `protocol.cpp` on bytes and 32-bit two's
complement, as operators: `value_to_bytes` and `bytes_to_value`, `to_can` and
`from_can`, `to_official_serial` and `from_official_serial`. `CanLink` sends and
receives through them. `kind` is the transport: SocketCAN polls and reads
(`PollReady`, `Take`), PCAN-Basic looks and sleeps (`LoopEmpty`, `LoopAgain`,
`Take`). The queue between bus and `receive` belongs to the kernel or the
vendor's driver and has a size; other stations send frames of any id and
length, which the code refuses only for their length.

### Transports and Lifecycle

`open` is a row of system calls, each of which may fail. `Transports` gives for
each transport and platform the set of outcomes: the state left behind (handle
opened or set up, library loaded and how often, channel claimed) and whether
the call returned. `Lifecycle` is the object: `Construct` is the constructor
with `make_transport`; `ConnectOpen`, `Drain`, `StartThread`, `AutoInitialize`
are `connect`; the flush, `StopThread`, `JoinThread`, `CloseTransport` are
`disconnect`; the destructor is the same, with its exceptions swallowed, and
then destroys the members (`DestroyMembers`), which terminates the process if
the thread is joinable. Any of these may throw, and the application may then
call anything. The cache has one register, since what `Lifecycle` asks of it is
whether a write survives: `wanted` is the value accepted last and `sent` that of
the last frame, each a set that is empty before the first. Nothing is assumed of
what the register held before, nor of what the gripper does with a frame; that
is `WriteCoalescing`'s.

### CommandInterface

The setters are one action `Set(r, v)`: the conversion to the parameter's type
(`Converted`), the checks (`InRange`), then `WriteRegister`, which defers,
skips or sends as the cache does. `Initialize`, `InitFeedback`, `InitCommand`,
`CheckDeadline` and the reads are `initialize`; `GetAllState` and the reads are
`get_all_state`; `WaitForMotion` is the loop of the example
(`examples/cpp_example.cpp:25`). All reads go through one set of actions:
`FlushSend`/`FlushThrows` for each pending register, then
`ReadReturns`/`ReadThrows`, where `Delivered` and `Caught` say what each caller
does with a value and with an exception. The gripper calibrates (`Calibrated`),
moves (`Arrive`, at its target or at an object), loses its power
(`PowerCycle`), keeps what it is sent, and answers to its id and to 0. At first
it is as an earlier program left it (`Before`): uninitialized, initialized, at
rest anywhere after a motion that reached its target or an object, or still
moving. `confirming` is `wait_write_echo`: a write that returns was carried out
if it is on (`Written`), and may have been lost if it is off. That rests on the
one assumption of this module: no answer outlives the transaction that waits for
it. `TransactEngine` and `WriteCoalescing` are without it. A field of
`Ag95State` that was not read has the default the struct gives it (`NoneRead`);
that of `initialized` is `false`, the same as an answer of 0. The
registers that the code treats alike are represented by one: those of the I/O
mode by the classes `set_io_parameter` distinguishes.

### PyTransact

The Python engine as `TransactEngine` has the C++ one: a step is what one
thread does under one lock, or one call of the transport or of `_pending_done`.
`callerPc` is the application's thread; `rx[t]` says for every receive thread
where it is and which frame it holds, since there may be more than one. `mine`
is the thread `disconnect` will join. `pending`, `response` and `done` are the
three fields both sides share; in C++ they belong to one transaction each, here
to all of them, so the order in which `Clear`, `Arm`, `RxMatch`, `Take` and
`Expire` touch them is what the module is about. `DisconnectFinish` follows a
join that returned (`Joined`) or that gave up (`JoinGivenUp`, possible when
`recv_thread_timeout_ms` is longer than the two seconds: `SlowReceive`). The
event queue and the outstanding commands survive a session, what the transport
buffered does not. Two threads that read one serial port by turns tear a frame
(`RxTear`). `send` of a closed transport raises `TransportError`, which is
tried again (`SendRefused`); what pyserial or python-can raise is no
`RuntimeError` and ends the call (`SendRaises`), with the frame sent or not, as
`flush` may raise after `write` (`MaybeSent`). A frame is reduced to what
`_frame_matches` compares, its key. `owed`, `leftover`, `stray`, `session` and
the counters are history.

## 4. Runs

Each run is `tlc -config <run>.cfg <module>`.

| Run | Question | Properties |
|---|---|---|
| `MCTE_Answers` | does every call get its own answer, a read the last write, and does every other frame become an event, with posted writes, a loss, an event and a failing send? | `TypeOK`, `AnswerMatchesRequest`, `NoEventLost`, `OwnAnswer`, `ReadsLastWrite`, `ArrivalOrder`, `AnswerIsNoEvent` |
| `MCTE_Fair` | do sessions stay apart, do calls return, are frames handled, is the port implemented? | `SessionsSeparate`, `EveryCallReturns`, `ArrivalsHandled`, `ImplementsPort` |
| `MCWC_Cache` | is the cache a write buffer, whatever is lost or late, with echoes and without, and do reads see the last write? | `TypeOK`, `NoWriteForgotten`, `ReadsLatestState`, `ImplementsBuffer` |
| `MCCI_Commands` | does the gripper hold legal values only, and is what the compound calls report true? | `TypeOK`, `RegistersLegal`, `SnapshotTrue`, `InitializeHonest`, `WaitMeansDone`, `CallsEnd` |
| `MCLC_Sessions` | what do exceptions in `connect`, `disconnect` and the destructor leave behind? | `TypeOK`, `OpenIsReady`, `NothingLeaks`, `CleanShutdown`, `AcceptedWritesKept`, `TerminatesOnlyThen` |
| `MCSF_Resync` | does the receiver recover from damage and invent nothing? | `TypeOK`, `HeaderNeverMissed`, `DamageBounded`, `ImplementsLink` |
| `MCSL_Line` | do frames go out whole and paced, and do calls of the port end? | `TypeOK`, `FramesWhole`, `FramesSpaced`, `CallsEnd` |
| `MCCL_Frames` | do the CAN transports return what was sent, once and in order? | `ImplementsLink` |
| `MCPY_Engine` | does the Python engine keep calls, events and sessions apart, also with a thread that outlives `disconnect`? | `TypeOK`, `EventsKept`, `WokenWithAnswer`, `ImplementsPort` |

Three more runs end in a violation of what the documents say:
`MCLC_Destructor`, `MCCI_SkippedInit` and `MCSL_Hang`; they are in section 6.

**What the properties say.**

- `AnswerMatchesRequest`: a frame matched against one call is never handed to a
  later one, however late the receive thread delivers it. The shared pointer
  the thread copies is what makes this true.
- `OwnAnswer`, `ReadsLastWrite`: as long as no wait has timed out, an answer is
  the call's own and a read returns the last value written, also while writes
  that nobody waits for are still on the bus. Section 6 shows that the
  condition is needed.
- `NoEventLost`, `ArrivalOrder`, `AnswerIsNoEvent`: an unsolicited frame is on
  its way or taken, unless the queue was full; the order of arrival is kept
  through queue, thread and buffer; no frame is both answer and event. They
  assume that the gripper's own frames cannot be taken for answers
  (`UnsolicitedDistinct`).
- `SessionsSeparate`: the receive thread never uses a closed transport, and
  `disconnect` leaves nothing behind.
- `ImplementsPort`: a request is sent at most `MaxRetries + 1` times, and ends
  in a matching answer after at least one send, in `TimeoutError` after all of
  them, or in `TransportError`.
- `NoWriteForgotten`: the value accepted last for a register is pending, or was
  delivered. `Delivered` says what the code can give and no more: it is the last
  value put on the line for the register; the register holds it at once if
  writes are confirmed and no echo of an earlier write could be taken for its
  own; and in any case once no write is on its way, unless the bus lost the last
  one. So neither a failed flush, nor a retry, nor a late frame ever puts an
  older value in the place of a newer one.
- `ReadsLatestState`: a read returns the value accepted last, though it may
  have been in the cache when the read was called, unless the bus lost its write
  or an earlier read of the register was left without its answer (then that
  answer may come now).
- `ImplementsBuffer`: what is put on the line for a register is the value
  accepted last, and a read request leaves only when the last value of every
  register has been sent. The order in which registers are sent is left open.
- `CacheCoherent` (by hand and proved): with nothing pending, `last_sent_value`
  was delivered to the gripper with the entry's id, so that skipping a duplicate
  of it is sound; with several grippers too.
- `RegistersLegal`: whatever the application passes and the cache keeps, the
  gripper holds values of its manual's ranges only.
- `SnapshotTrue`: each field `get_all_state` returns was true at some moment of
  this call, or is the default of `Ag95State`; never a value of an earlier call.
  The fields need not have been true together. For `initialized` the default is
  an answer too: `true` can be relied on, `false` may mean that it was not read.
- `InitializeHonest`: `initialize(true)` returns only of a gripper that is
  initialized; without coalescing and with confirmed writes, only after this
  call's command reached it.
- `WaitMeansDone`: the example's loop ends only when the jaws are at rest and,
  with confirmed writes, were sent where the application asked, wherever an
  earlier program had sent them and though the write may have waited in the
  cache. The one exception is named in it (`ZeroSkipped`): a first
  `set_position(0)`, which the cache skips. `WaitReachesTarget` is the property
  without the exception, and `MCCI_FirstZero` violates it.
- `OpenIsReady`, `NothingLeaks`: what `open` leaves when it throws between two
  system calls is neither taken for an open transport later nor leaked; the two
  exceptions are in section 6.
- `CleanShutdown`, `TerminatesOnlyThen`: after `disconnect` nothing runs and
  nothing is open; the process is only terminated by a second `connect` or by a
  destructor whose flush fails.
- `AcceptedWritesKept`: with coalescing the value accepted last is pending or
  that of the last frame sent, through failing flushes, failing disconnects and
  sessions; but a first write of 0 is accepted without a frame.
- `HeaderNeverMissed`: `pos` is the longest beginning of a header that ends
  what was read.
- `DamageBounded`: a lost byte costs two frames, a deadline in a frame one, for
  payloads that do not hold the last two bytes of a header side by side
  (`PayloadsClean`).
- `FramesWhole`, `FramesSpaced`: each byte of a frame is handed over once and in
  order; two frames are a command interval apart, less the delay of the earlier
  one between its time stamp and its first byte.
- `EventsKept` (Python): a frame the gripper sent of its own accord is in the
  buffer, a thread's hand or the queue until it is taken, across the end of the
  session. It is lost only to a full queue, with the buffer of a closed
  transport, or to two threads on one port.
- `WokenWithAnswer` (Python): a wait that was signalled finds an answer, though
  the signal is cleared outside the lock and shared by all attempts, unless a
  failed `send` left its frame pending; and the answer arrived in this session,
  unless there was a thread that `disconnect` did not wait for.
- `ImplementsPort` of `PyTransact`: the Python caller sees the same endings,
  with the same number of sends. It also says that whatever was left behind by
  another session, a reply matches its own request.
- `ImplementsLink` (twice): frames are returned whole, once and in order. On
  CAN this includes the round trip of every byte and negative value through the
  codec. On the serial line it holds while no more bytes are lost within one
  frame (`MaxGap`) than the header has, three in the instance and four in the
  code, and any number between frames. That is sharp: with one more, a frame
  whose header is lost and whose id is FB gives the frame before it, itself a
  byte short, a footer, and TLC finds that behaviour. The payloads need
  `HeaderUnique(MaxGap)`: the last two bytes of the header are next to each
  other nowhere but there, not even with `MaxGap` bytes missing between them.
  Real frames have this with four, as five bytes stand between the header and
  the low byte of the data, where position 252 is an FC, and only the id among
  them can be large; the exceptions would be grippers with the ids FC and FD.
- `EveryCallReturns`, `ArrivalsHandled`, `CallsEnd` (of `SerialLine` and of
  `CommandInterface`): liveness, see below.

**Bounds, and why they are enough.**

- `MCTE_*`: one gripper suffices in the engine, which keeps no state per id.
  Two calls are needed for a late answer to meet another call, three for a
  write, a read and something in between. `MCTE_Answers` has three calls
  without retries and with fire-and-forget writes, and a queue of two;
  `MCTE_Fair` two calls with a retry each in two sessions, which show the first
  and the last attempt and what a session leaves to the next. One loss, one
  fault and one event each meet every point of a call, as TLC places them
  everywhere.
- `MCWC_Cache`: two registers, so that a flush can fail halfway; two values,
  so that a new one may be the one sent before a pending one; three calls
  besides any number of `flush` calls, which leave a write behind, overtake it
  and read it; one retry and two faults, so that an answer can be late to an
  attempt and to a transaction, or both a request and its answer be lost; echoes
  on and off. The window is one tick and there are three, so it opens and ends
  twice, and a flush can take longer than it. About 912,000 states.
- `MCCI_Commands`: three calls (a write, an operation between, and a compound
  call), with inputs on both sides of each limit, one that wraps in its type,
  and an id nobody has; one fault and one power loss at any point; with and
  without coalescing and echoes; a gripper that an earlier program left
  uninitialized, initialized, at rest or moving, at a position (40) that is
  neither of those asked for. About 542,000 states.
- `MCLC_Sessions`: every transport on both platforms with settings accepted and
  not; three calls of `connect`, of which the second may follow an exception
  and the third a session. Exceptions are not bounded.
- `MCSF_Resync`: a header of three bytes and payloads of four, with a footer,
  half headers and the last byte of a header in them; three frames are the
  damaged one, the one it damages and one that must be received again; as many
  losses within a frame as the header is long, and one more in all.
- `MCSL_Line`: a frame of three bytes, two of them header, with room for two,
  so that a write is partial and noise can reset `pos` from either place; bytes
  arrive without end, one waiting at a time; an interval and a timeout of two
  ticks, so that time passes within each; the adapter may be unplugged
  anywhere.
- `MCCL_Frames`: values of either sign whose four bytes differ, and foreign
  frames that are short, have an id of eleven bits, or an extended id; four
  frames in a queue of two, so that it overflows and drains.
- `MCPY_Engine`: two calls with a retry each, so that an answer can come late to
  an attempt, to a call and to the next session; two threads, one of which was
  left by the first session; a queue of one, so that it overflows; one event
  anywhere, and faults and losses without a bound.

Counters for faults, losses, calls and frames are named `Max...` in every module
and occur only in guards of what they bound. Deadlock is checked where there is
always a step. `MCSF_Resync` has none after the bounded number of deadlines and
frames, as a receiver then waits for ever; in `MCLC_*` a destroyed or terminated
object does nothing more; in `MCCI_*` an application that has made its calls
stops.

**Fairness** (`FairSpec` of each module). A thread inside a call of the library
is scheduled again, and its waits have deadlines: that is `WF_vars(CallerStep)`
and `WF_vars(Rx)` in `TransactEngine` (`wait_until`, `wait_for`, the end of the
drain, the join of a thread that reads the flag after at most 100 ms),
`WF_vars(InCall)` in `PyTransact`, `WF_vars(Proceed)` in `CommandInterface`,
and `WF_vars(Send)`, `WF_vars(Receive)` in `SerialLine`. Time passes:
`WF_vars(DeadlinePasses)`, `WF_vars(Tick)`. Of what is outside, `SerialLine`
assumes that the adapter transmits what it was given (the port is set up
without flow control), unless it is unplugged, and `CommandInterface` that a
calibration and a motion end. Nothing is assumed of the application, and no
frame ever has to arrive. `TransactEngine` assumes that `receive` has a
deadline; `SerialLine` shows in which case that fails (`MCSL_Hang`).

**Further instances.** These configurations are kept beside the runs, for cases
that a reader can repeat by hand.

| Configuration | Module | Outcome |
|---|---|---|
| `MCTE_StaleRead` | `MCTransactEngine` | violates `ReadsLatestState` |
| `MCTE_Swallowed` | `MCTransactEngine` | violates `UnmatchedFramesQueued` |
| `MCTE_Reconnect` | `MCTransactEngine` | violates `NeverTerminates` |
| `MCWC_FirstZero` | `MCWriteCoalescing` | violates `ReadsLatestState`, with a register that starts as 1 |
| `MCWC_Held` | `MCWriteCoalescing` | violates `HeldForWindow` |
| `MCWC_NoSkip` | `MCWriteCoalescing` | `CacheCoherent` holds with two grippers behind the cache |
| `MCCI_FirstZero` | `MCCommandInterface` | violates `WaitReachesTarget` |
| `MCSF_Split` | `MCSerialFraming` | violates `NoFrameLost` |
| `MCPY_Reconnect` | `MCPyTransact` | the properties of `MCPY_Engine` hold with a second `connect` while connected |
| `MCPY_FalseTimeout` | `MCPyTransact` | violates `TimeoutMeansWaited` |
| `MCPY_Echo` | `MCPyTransact` | violates `EchoesDiscarded` |

## 5. Proofs

TLAPS checks these for every value of the constants that satisfies the
`ASSUME`s of the module: any sets of ids, registers and values, any number of
calls, retries, losses and faults, any frames and queue lengths.

| Module | Theorem | Statement |
|---|---|---|
| `TransactEngineProofs` | `TypeCorrect`, `AnswersMatch`, `PendingInCall`, `SessionsAreSeparate` | `Spec => []` of `TypeOK`, `AnswerMatchesRequest`, `PendingOnlyInCall`, `SessionsSeparate` |
| | `EngineImplementsPort` | `Spec => Port!Spec` |
| | `EventsInOrder`, `EventsAreKept`, `AnswersAreNoEvents` | `Spec => []` of `ArrivalOrder`, `NoEventLost`, `AnswerIsNoEvent` |
| | `AnswersAreOwn`, `ReadsAreFresh` | `Spec => []` of `OwnAnswer`, `ReadsLastWrite` |
| `PyTransactProofs` | `TypeCorrect`, `EventsAreKept`, `WakesWithAnswer` | `Spec => []` of `TypeOK`, `EventsKept`, `WokenWithAnswer` |
| | `EngineImplementsPort` | `Spec => Port!Spec` |
| `WriteCoalescingProofs` | `TypeCorrect`, `CacheIsCoherent`, `NoWriteIsForgotten` | `Spec => []` of `TypeOK`, `CacheCoherent`, `NoWriteForgotten` |
| | `ReadsAreLatest` | registers that start at 0: `Spec => []ReadsLatestState` |
| | `CacheImplementsBuffer` | one gripper and registers that start at 0: `Spec => ImplementsBuffer` |
| `CommandInterfaceProofs` | `TypeCorrect`, `OnlyLegalValues`, `SnapshotsAreTrue` | `Spec => []` of `TypeOK`, `RegistersLegal`, `SnapshotTrue` |
| | `InitializeIsHonest`, `WaitingMeansDone` | `Spec => InitializeHonest`, `Spec => WaitMeansDone` |
| `LifecycleProofs` | `TypeCorrect`, `OpenMeansReady`, `NoLeak`, `DisconnectCleans`, `WritesAreKept`, `OnlyThen` | `Spec => []` of `TypeOK`, `OpenIsReady`, `NothingLeaks`, `CleanShutdown`, `AcceptedWritesKept`, `TerminatesOnlyThen` |
| `SerialFramingProofs` | `TypeCorrect`, `NoHeaderIsMissed`, `DamageIsBounded` | `Spec => []` of `TypeOK`, `HeaderNeverMissed`, `DamageBounded` |
| | `StreamImplementsLink` | `HeaderUnique(MaxGap)`, `MaxGap =< Len(Header)`: `Spec => ImplementsLink` |
| `SerialLineProofs` | `TypeCorrect`, `FramesAreWhole`, `SpacingKept` | `Spec => []` of `TypeOK`, `FramesWhole`; `Spec => FramesSpaced` |
| `CanLinkProofs` | `ValueRoundTrip`, `CanRoundTrip`, `SerialRoundTrip` | decoding inverts encoding, for every 32-bit value and every frame |
| | `NothingElseIsLost`, `CanImplementsLink` | `Spec => []NothingElseLost`, `Spec => ImplementsLink` |

**Inductive invariants.**

- `AnswerMatchesRequest` speaks only of what `transact` returned. `MatchInv`
  adds that a completed `PendingTransaction` holds a matching frame, and that
  the frame in the receive thread's hand matches the transaction it holds if
  that is still the newest one; transactions are numbered, so a held one can be
  told from a later one.
- `SessionsSeparate` needs `ClosedInv`: where the receive thread can be for each
  point of the caller, and that a closed transport has an empty buffer.
  `EngineImplementsPort` needs `TriesInv`: how `sent` depends on `attempt` at
  each point of `transact`.
- The frames in `TransactEngine` are numbered as they arrive. `FlowInv`: the
  numbers ascend from what was taken through the queue and the thread's hand to
  the receive buffer; the answer of the newest transaction has left this way;
  the number of an unsolicited frame is on an unsolicited frame; and each of
  these numbers is somewhere on the way. The three theorems about events are
  parts of it.
- `OwnAnswer` needs `OwnInv`: until a wait times out, at most one frame that a
  call waits for is on the bus, in the buffer or in the hand, and that call is
  the one in progress, so what it takes must be its own. What breaks this is
  exactly a timeout, which leaves a request on the way that nobody waits for.
- `ReadsLastWrite` needs `ValueInv`, on top of it: what each register will hold
  when all that is on the bus has been carried out is a value the application
  may expect, and the request waited for is the last on the bus, so its answer
  is read after all writes before it.
- `WriteCoalescing`: `CoherenceInv` says that a flush under way has still to
  send exactly what is pending and waits for the echo of the newest value of a
  pending key (`FlowInv`), that the last write on the line for a register is
  `newest` and, with none on the line, the register holds it unless it was lost
  (`LineAgrees`), and that a register that is not `stale` has only writes of
  the newest value on its line, so that the first echo proves it arrived
  (`EchoAgrees`). `CacheCoherent` follows. `NoWriteForgotten` and
  `ImplementsBuffer` need `BufferInv` on top: with nothing pending not only the
  line but also `last_sent_value` has the value accepted last, otherwise
  skipping a duplicate would break it. `ReadsLatestState` needs `ReadInv`:
  behind a read request that is waited for there is no write, and its answer
  carries the newest value.
- `CommandInterface`: `AllLegal` (also the pending values in the cache, the
  target and the id to come are legal, so a flush and a power loss keep
  `RegistersLegal`), `Snapped` (what was read so far in this call is among what
  was seen), `Commanded` (where `initialize` polls, its command was sent unless
  it is in the cache) and `Directed` (jaws that move have the status 0) with
  `Aimed` (the target is what the application may expect, or what the cache
  holds for it is, or no position was ever sent and only 0 was asked for).
- `Lifecycle`: `Handles` (which of handle, channel and library go together for
  each transport, so that `Close` frees what `Open` took), `Sequence` (where
  the two threads can be), `Cached` (with nothing pending the cached value is
  that of the last frame, or the 0 of before the first).
- `SerialLine`: `Pieces` (the bytes handed over are the first ones of the
  frame, and all of them before `drain_write`), `Paced` (the age of the time
  stamp is at most that of the last frame and its lag together, and these have
  reached the interval when the next frame begins).
- `CanLink`: the queue holds, in the order of their numbers, encodings of what
  is on the bus; with the round trips of the codec each step is one of
  `LossyLink`.
- `NoHeaderIsMissed` is inductive with the fact that a call that is over holds
  nothing; the step where a byte does not fit uses that the bytes of the header
  differ, so that a header in progress can only restart at its first byte.
- `DamageBounded` needs `LineInv` (the line holds the rest of a frame and then
  whole frames, in the order they were sent) and `SyncInv`: what `receive` holds
  is in step with the line, or the frame under way, and where needed the next
  one, is allowed for by `Credit`, which counts a frame for each one received
  and each deadline and two for each lost byte.
- `ImplementsLink` needs `LinkInv`: what is held and what the line has next are
  `gap` bytes apart, in one frame or over the end of one (`SeekInv`,
  `CollectInv`), and the frame under way is later than those received
  (`OrderInv`). A footer in the right place with bytes
  missing before it would be in the next frame, no further from its beginning
  than there are bytes missing, that is, in its header, and no byte of a header
  is a footer.
- `PyTransact`: `KeptInv` (an event has a kind of its own, so no pending request
  takes it, and no owed one is among what a drain throws away); `SignalInv`
  (outside an attempt nothing is pending, so `_pending_done` stays cleared until
  a request is armed, and whoever sets it afterwards has stored a response) with
  `SessionInv` (without a thread left over, what is in the buffer, in hand or
  stored arrived in the session that is on); `TriesInv` as for the C++ engine.

**Assumptions on constants.** Besides types: in `SerialFraming` the bytes of
the header differ, are more than one, and the footer is none of them (FF FE FD
FC and FB in the code); in `SerialLine` the header is shorter than the frame;
in `WriteCoalescing` the window is not empty (ag95_gripper.cpp:221); in
`PyTransact` there is a kind of request at all.

**Only model-checked.** Liveness under fairness (`EveryCallReturns`,
`ArrivalsHandled`, `CallsEnd` of both modules, and the fairness part of
`ImplementsPort` of both engines, whose safety part `EngineImplementsPort`
proves), which the prover does not do, as it does not do `ENABLED`. Every other
property of a run that passes is a theorem.
Nothing recursive is defined in the modules, so there is nothing that would
need induction over data.

## 6. Where documents and code disagree

Each of these runs checks one sentence of the documents, and TLC finds how the
code breaks it.

| Run | What happens | What is said |
|---|---|---|
| `MCLC_Destructor` | the flush in the destructor's `disconnect` throws, the exception is swallowed, and a joinable thread is destroyed: `std::terminate` (ag95_gripper.cpp:35) | ag95_gripper.hpp:57, the thread is joined by `disconnect` |
| `MCCI_SkippedInit` | with coalescing, the cache skips the command of `initialize` as a duplicate of the 0 it never sent (ag95_gripper.cpp:304, ag95_gripper.hpp:264); on a gripper that an earlier program initialized, `initialize(true)` returns at once | ag95_gripper.cpp:303, "Send the initialization command" |
| `MCSL_Hang` | the deadline passes between its check and the computation of the time that remains; `poll` gets a negative timeout and waits for a byte (official_serial_transport.cpp:30, serial_port.cpp:194) | config.hpp:85, "Poll timeout for the background receive thread" |

Nine disagreements have a configuration of their own (section 4, further
instances) and no run:

| Configuration | What happens | What is said |
|---|---|---|
| `MCTE_StaleRead` | the late answer of a read that timed out is returned by a later read, after a confirmed write (ag95_gripper.cpp:117) | README.md:238, "reads always reflect the latest state" |
| `MCTE_Swallowed` | `send` threw and left its transaction pending: a frame the gripper sends later goes to it instead of the queue | README.md:246 |
| `MCTE_Reconnect` | a second `connect` assigns to a joinable thread: `std::terminate` | ag95_gripper.hpp:57, safe to call from a single thread |
| `MCWC_FirstZero` | the first write of 0 is skipped: `last_sent_value` starts as 0 | README.md:238 |
| `MCCI_FirstZero` | so a first `set_position(0)` on jaws that an earlier program left elsewhere is not sent, and the loop ends on the status of that program's motion (ag95_gripper.cpp:237, ag95_gripper.hpp:264) | ag95_gripper.cpp:236, "safe optimization" |
| `MCWC_Held` | nothing sends a deferred write when its window is over | config.hpp:77, README.md:73 |
| `MCSF_Split` | a deadline in the middle of a frame loses it | README.md:19, "never lost" |
| `MCPY_Echo` | the echo of a fire-and-forget write goes into the event queue (gripper.py:177) | gripper.py:253, "the receive thread discards the echo" |
| `MCPY_FalseTimeout` | a failed `send` left its frame pending; its late answer sets `_pending_done` after the next attempt cleared it, and that attempt ends at once as a timeout, its own answer becoming an event (gripper.py:210) | gripper.py:226, "timeout waiting for matching CAN frame" |

Seen while modelling, in the same lines of code:

- *Opening.* A baud rate that termios does not have makes `open` throw after
  the descriptor was stored (serial_port.cpp:108). `is_open` is then true, and
  the next `open` returns at once with a port that was never set up: the case
  that `OpenIsReady` names. In `PcanBasicTransport::open` four steps may throw
  between `LoadLibrary` and `CAN_Initialize`; the next `open` loads the library
  again and the first reference is never given back: the one `NothingLeaks`
  counts.
- *Connecting.* The drain of `connect` catches `TimeoutError` only: garbage on
  the line (`ProtocolError`) leaves `connect` with an open transport and no
  thread (ag95_gripper.cpp:59). A failing flush leaves `disconnect` before
  anything was stopped; calling it again works.
- *Cache.* A write to a second id shares the cache entry of the first
  (ag95_gripper.cpp:225), and after `set_local_gripper_id` an entry that has
  been sent once keeps the old id (ag95_gripper.cpp:230). With coalescing off
  duplicates are not skipped, although config.hpp:81 calls the optimization
  always-on. If the gripper loses its power, the driver does not know: a write
  equal to the last one sent is skipped although the gripper has forgotten it,
  in the same session or the next, and no property here promises otherwise.
  Registers are sent in the order of an `unordered_map`: a force written before
  a position may follow it. A first write of 0 is taken for a duplicate; that is
  `CacheStartsTrue` in `WriteCoalescing`, the set that stays empty in
  `AcceptedWritesKept`, and `ZeroSkipped` in `CommandInterface`.
- *Echoes.* `frame_matches` does not compare values, so the late echo of a write
  that timed out confirms a later write of the same register, also one that is
  lost (README.md:72): the `stale` of `Delivered`. Without `wait_write_echo`
  nothing confirms a write.
- *Commands.* `set_can_id(256)` wraps to 0 in its `uint8_t` and is refused;
  257 becomes 1. When the status cannot be read, `get_all_state` leaves
  `moving` false, as for a gripper at rest, with `status` `Unknown`. When the
  initialization cannot be read it leaves `initialized` false
  (ag95_gripper.hpp:34, ag95_gripper.cpp:351), and nothing in the result tells
  that from an answer. The loop of
  the example (cpp_example.cpp:25) waits for a status other than 0, which is
  also that of a gripper that was given no motion to end: the case `CallsEnd`
  names. `initialize` writes 0 to 08 01 to turn feedback off; the protocol
  document's example of the same frame (section 6.1.1) is the one that turns it
  on.
- *Queue.* It drops the newest frame, not older ones (README.md:208), and has 64
  places whatever `max_event_queue_size` says (ag95_gripper.hpp:253). The echo
  of a fire-and-forget write becomes an event (ag95_gripper.hpp:100).
- *CAN.* The id is cut to eight bits and nothing filters the bus: a station with
  the id 257 is read as gripper 1.

## 7. What is not modelled

- The gripper model (`src/gripper_model.cpp`): floating-point unit conversions
  without state, which TLA+'s integers do not have.
- Of the Python implementation, the write cache and the commands
  (`gripper.py:258` and on), which follow the C++ ones but for a
  `last_sent_value` that starts as `None` and a flush in the order of the first
  writes. Its serial `receive` is the algorithm of `SerialFraming` and its
  codec that of `FrameCodec`; neither is mapped to the Python lines. An `open`
  that raises changes nothing there. That a torn serial frame may be joined to
  the rest of another is not modelled either.
- Corrupted bytes: the format has no checksum, so any frame can become another
  one; only loss is modelled.
- The order in which mutexes are taken. A step stands for all that a thread does
  under one of them, so a deadlock between `transact_mutex_` and a transaction's
  `mtx` would not be seen, neither by the check for deadlocks nor by
  `EveryCallReturns`. In the code the receive thread has given back the first
  before it takes the second.
- Two application threads in the library at once: ag95_gripper.hpp:57 excludes
  them.
- `flush_io` (it throws the system's buffers away when a port is opened) and
  `read_byte` (which nothing calls); the names of ports, channels and bit rates,
  which are accepted or not; a negative `max_retries`, which config.hpp:66 does
  not provide for.
- The build files and the Python example.

## 8. Plan

1. `TransactEngine` with `RequestPort`: done, with the proofs about the order
   and the values of frames.
2. `WriteCoalescing` with `RegisterBuffer`: done.
3. `SerialFraming` with `LossyLink`: done, with the proof that it
   resynchronizes.
4. `Lifecycle` with `Transports`: done.
5. `CommandInterface`: done, with initialization and the waiting loop.
6. `SerialLine`, `FrameCodec`, `CanLink`: done.
7. `PyTransact`: done for the engine, with its proofs. Left: the Python write
   cache as another instance of `RegisterBuffer`.
8. A step of `CommandInterface` as a step of `WriteCoalescing`: a refinement
   mapping between the two caches, once the former has a clock and a line.
