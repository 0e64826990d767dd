----------------------------- MODULE Lifecycle ------------------------------
(***************************************************************************)
(* The life of an Ag95Gripper object (C++): constructor, connect,          *)
(* disconnect, destructor, and between them writes that go through the     *)
(* write cache or to the bus.  It composes what the other modules look at  *)
(* one by one: the transport (Transports), the receive thread              *)
(* (TransactEngine), the cache (WriteCoalescing).                          *)
(*                                                                         *)
(* Each of these operations may be left by an exception in the middle, and *)
(* the application may go on with any other: the question is what it then  *)
(* finds, and what the destructor does about it.                           *)
(*                                                                         *)
(* The cache has one register and no clock: a write whose window is over   *)
(* flushes first, which is a Flush before the Write.  A transaction is one *)
(* step that returns, its frame sent, or throws, with the frame sent or    *)
(* not.  Whether a frame that was sent reaches the gripper is not seen     *)
(* here but in WriteCoalescing.                                            *)
(***************************************************************************)
EXTENDS Transports, Integers

CONSTANTS
    Settings,      \* the transports to consider
    Values,        \* what is written
    MaxConnects    \* model bound: calls of connect()

ASSUME SettingAssumption == Settings \subseteq Setting

ASSUME DataAssumption == Values \subseteq Int /\ 0 \in Values

ASSUME BoundAssumption == MaxConnects \in Nat

VARIABLES
    setting,    \* which transport, on which platform
    coalescing, \* coalesce_writes with a window, and skip_duplicate_writes
    autoInit,   \* config_.auto_initialize
    object,     \* "unborn", "alive", "gone", or std::terminate was called
    transport,  \* *transport_
    thread,     \* receive_thread_: "none", "running", "ended" and not joined
    running,    \* receive_running_
    pending,    \* write_cache_[k].pending
    pendingValue,
    lastSent,   \* write_cache_[k].last_sent_value
    pc,         \* where the application's thread is
    call,       \* the call that flushes: "flush", "disconnect", "destructor"
    \* history
    wanted,     \* the value accepted last: a set of it, empty at first
    sent,       \* the value of the last frame that was sent: likewise
    ending,     \* how the last call ended
    reconnected,\* connect() was called with a thread that was not joined
    spoilt,     \* calls of open() that threw with the library loaded
    connects

config     == <<setting, coalescing, autoInit>>
cacheVars  == <<pending, pendingValue, lastSent>>
threadVars == <<thread, running>>
writes     == <<wanted, sent>>
counts     == <<reconnected, spoilt, connects>>
vars == <<config, object, transport, threadVars, cacheVars, pc, call,
          writes, ending, counts>>

Init ==
    /\ setting \in Settings
    /\ coalescing \in BOOLEAN /\ autoInit \in BOOLEAN
    /\ object = "unborn" /\ transport = Fresh
    /\ thread = "none" /\ running = FALSE
    /\ pending = FALSE /\ pendingValue = 0 /\ lastSent = 0
    /\ pc = "idle" /\ call = "flush"
    /\ wanted = {} /\ sent = {}
    /\ ending = "none"
    /\ reconnected = FALSE /\ spoilt = 0 /\ connects = 0

Calling == object = "alive" /\ pc = "idle"

Open_ == IsOpen(setting, transport)

-----------------------------------------------------------------------------
(* Construction and connect().  Definitions named ...Bug are deliberate    *)
(* errors that stand in for the one below them in the mutation runs.       *)

\* make_transport throws where there is no such transport.
Construct ==
    /\ object = "unborn" /\ Makeable(setting)
    /\ object' = "alive"
    /\ UNCHANGED <<config, transport, threadVars, cacheVars, pc, call,
                   writes, ending, counts>>

\* connect() calls open().
ConnectOpen ==
    /\ Calling /\ connects < MaxConnects
    /\ connects' = connects + 1
    /\ \E o \in Open(setting, transport) :
        /\ transport' = o.to
        /\ pc' = IF o.ok THEN "drain" ELSE "idle"
        /\ ending' = IF o.ok THEN "none" ELSE "threw"
        /\ spoilt' = IF ~ o.ok /\ o.to.library THEN spoilt + 1 ELSE spoilt
    /\ UNCHANGED <<config, object, threadVars, cacheVars, call, writes,
                   reconnected>>

\* The line is drained until its time is over; garbage on it, or a fault of
\* the transport, leaves connect() with an open transport.
Drain ==
    /\ pc = "drain"
    /\ \/ pc' = "start" /\ UNCHANGED ending
       \/ pc' = "idle" /\ ending' = "threw"
    /\ UNCHANGED <<config, object, transport, threadVars, cacheVars, call,
                   writes, counts>>

\* receive_thread_ = std::thread(...): std::terminate if it is joinable.
StartThread ==
    /\ pc = "start" /\ object = "alive"
    /\ running' = TRUE
    /\ IF thread = "none"
       THEN /\ thread' = "running"
            /\ pc' = IF autoInit THEN "initialize" ELSE "idle"
            /\ ending' = IF autoInit THEN "none" ELSE "returned"
            /\ UNCHANGED <<object, reconnected>>
       ELSE /\ object' = "terminated" /\ reconnected' = TRUE
            /\ UNCHANGED <<thread, pc, ending>>
    /\ UNCHANGED <<config, transport, cacheVars, call, writes, spoilt,
                   connects>>

\* auto_initialize: initialize(true) returns or throws (CommandInterface).
AutoInitialize ==
    /\ pc = "initialize"
    /\ pc' = "idle" /\ ending' \in {"returned", "threw"}
    /\ UNCHANGED <<config, object, transport, threadVars, cacheVars, call,
                   writes, counts>>

-----------------------------------------------------------------------------
(* Writes and the flush                                                    *)

\* A transaction, or a send(), returns.
Works == Open_

\* A write without coalescing.
WriteImmediately(v) ==
    /\ Calling /\ ~ coalescing
    /\ \/ Works /\ sent' = {v} /\ wanted' = {v} /\ ending' = "returned"
       \/ /\ ending' = "threw" /\ UNCHANGED wanted
          /\ UNCHANGED sent \/ (Works /\ sent' = {v})
    /\ UNCHANGED <<config, object, transport, threadVars, cacheVars, pc,
                   call, counts>>

\* The value was sent last and nothing is pending.
Skipped(v) == lastSent = v /\ ~ pending

\* A write with coalescing: skipped or deferred.
WriteCoalesced(v) ==
    /\ Calling /\ coalescing
    /\ wanted' = {v} /\ ending' = "returned"
    /\ IF Skipped(v)
       THEN UNCHANGED cacheVars
       ELSE /\ pending' = TRUE /\ pendingValue' = v
            /\ UNCHANGED lastSent
    /\ UNCHANGED <<config, object, transport, threadVars, pc, call, sent,
                   counts>>

\* flush_pending_writes begins.
StartFlush(why) ==
    /\ Calling
    /\ pc' = "flush" /\ call' = why /\ ending' = "none"
    /\ UNCHANGED <<config, object, transport, threadVars, cacheVars,
                   writes, counts>>

Flush == StartFlush("flush")

\* disconnect(), and the destructor, which calls it.
Disconnect == StartFlush("disconnect")
Destroy    == StartFlush("destructor")

\* The flush is over: flush() returns, disconnect() goes on.
Flushed ==
    IF call = "flush" THEN pc' = "idle" /\ ending' = "returned"
                      ELSE pc' = "stop" /\ UNCHANGED ending

FlushNothing ==
    /\ pc = "flush" /\ ~ pending
    /\ Flushed
    /\ UNCHANGED <<config, object, transport, threadVars, cacheVars, call,
                   writes, counts>>

FlushSend ==
    /\ pc = "flush" /\ pending /\ Works
    /\ sent' = {pendingValue} /\ UNCHANGED wanted
    /\ lastSent' = pendingValue /\ pending' = FALSE
    /\ Flushed
    /\ UNCHANGED <<config, object, transport, threadVars, pendingValue,
                   call, counts>>

-----------------------------------------------------------------------------
(* The end                                                                 *)

\* The members of the object are destroyed; std::terminate if
\* receive_thread_ is joinable.
DestroyMembers(t) ==
    IF thread = "none"
    THEN object' = "gone" /\ transport' = Close(setting, t)
    ELSE object' = "terminated" /\ transport' = t

\* A pending write is not pending any more when its send has thrown.
AfterThrowBug == pending' = FALSE

\* The exception leaves flush_pending_writes before it clears pending.
AfterThrow == UNCHANGED pending

\* The flush throws: out of flush() or disconnect(), or into the catch of the
\* destructor, which goes on with a thread that nobody stopped.
FlushThrows ==
    /\ pc = "flush" /\ pending
    /\ AfterThrow
    /\ UNCHANGED sent \/ (Works /\ sent' = {pendingValue})
    /\ pc' = "idle"
    /\ IF call = "destructor"
       THEN DestroyMembers(transport) /\ ending' = "none"
       ELSE UNCHANGED <<object, transport>> /\ ending' = "threw"
    /\ UNCHANGED <<config, threadVars, pendingValue, lastSent, call, wanted,
                   counts>>

\* receive_running_.store(false).
Stop == FALSE

StopThread ==
    /\ pc = "stop"
    /\ running' = Stop
    /\ pc' = "join"
    /\ UNCHANGED <<config, object, transport, thread, cacheVars, call,
                   writes, ending, counts>>

\* receive_loop finds receive_running_ false.
ThreadEnds ==
    /\ thread = "running" /\ ~ running /\ object = "alive"
    /\ thread' = "ended"
    /\ UNCHANGED <<config, object, transport, running, cacheVars, pc, call,
                   writes, ending, counts>>

\* The thread is not joined.
JoinedBug == UNCHANGED thread

Joined == thread' = "none"

\* joinable() and join(); then the transport is closed.
JoinThread ==
    /\ pc = "join" /\ thread # "running" /\ Joined
    /\ pc' = "close"
    /\ UNCHANGED <<config, object, transport, running, cacheVars, call,
                   writes, ending, counts>>

CloseTransport ==
    /\ pc = "close"
    /\ pc' = "idle"
    /\ IF call = "destructor"
       THEN DestroyMembers(Close(setting, transport)) /\ ending' = "none"
       ELSE /\ transport' = Close(setting, transport)
            /\ ending' = "disconnected"
            /\ UNCHANGED object
    /\ UNCHANGED <<config, threadVars, cacheVars, call, writes, counts>>

-----------------------------------------------------------------------------
Write(v) == WriteImmediately(v) \/ WriteCoalesced(v)

\* What the application's thread does inside the library.
Proceed ==
    \/ Drain \/ StartThread \/ AutoInitialize
    \/ FlushNothing \/ FlushSend \/ FlushThrows
    \/ StopThread \/ JoinThread \/ CloseTransport

Next ==
    \/ Construct \/ ConnectOpen
    \/ \E v \in Values : Write(v)
    \/ Flush \/ Disconnect \/ Destroy
    \/ Proceed \/ ThreadEnds

Spec == Init /\ [][Next]_vars

-----------------------------------------------------------------------------
(* What must hold                                                          *)

TypeOK ==
    /\ setting \in Settings
    /\ coalescing \in BOOLEAN /\ autoInit \in BOOLEAN
    /\ object \in {"unborn", "alive", "gone", "terminated"}
    /\ transport \in Transport
    /\ thread \in {"none", "running", "ended"} /\ running \in BOOLEAN
    /\ pending \in BOOLEAN /\ pendingValue \in Values /\ lastSent \in Values
    /\ pc \in {"idle", "drain", "start", "initialize", "flush", "stop",
               "join", "close"}
    /\ call \in {"flush", "disconnect", "destructor"}
    /\ wanted \subseteq Values /\ sent \subseteq Values
    /\ ending \in {"none", "returned", "threw", "disconnected"}
    /\ reconnected \in BOOLEAN /\ spoilt \in Nat /\ connects \in Nat

\* A transport that says it is open is set up, whatever failed before; but
\* for a serial port whose baud rate termios does not have (section 6 of the
\* README).
OpenIsReady ==
    Open_ => \/ transport.fd = "ready" \/ transport.claimed
             \/ /\ setting.kind = "official_serial"
                /\ setting.platform = "posix" /\ ~ setting.accepted

\* Whatever the order of failures and retries, a destroyed object holds no
\* handle and no channel, and no more references to PCANBasic.dll than there
\* were calls of open() that threw between LoadLibrary and CAN_Initialize.
NothingLeaks ==
    object = "gone" =>
        /\ transport.fd = "none" /\ ~ transport.claimed
        /\ transport.refs =< spoilt

\* When disconnect() has returned, whatever went before it, there is no
\* thread, and nothing is open.
CleanShutdown ==
    ending = "disconnected" =>
        /\ thread = "none" /\ ~ running
        /\ ~ Open_ /\ ~ transport.claimed

\* With coalescing the value accepted last is pending, or no frame of another
\* value was sent after its own, through failing flushes, failing disconnects
\* and sessions; but a first write of 0 is skipped without a frame, as equal
\* to the last_sent_value of a register that was never written.
AcceptedWritesKept ==
    coalescing =>
        IF pending THEN wanted = {pendingValue}
                   ELSE wanted = sent \/ (wanted = {0} /\ sent = {})

\* The process is terminated only by a second connect() or by a destructor
\* whose flush fails: without coalescing, a program that connects once per
\* session may destroy the object in any state, after any exception.
TerminatesOnlyThen == object = "terminated" => coalescing \/ reconnected

-----------------------------------------------------------------------------
(* What the documents say and the code does not do                         *)

\* ag95_gripper.hpp:57, "The internal receive thread is started by connect()
\* and joined by disconnect()", which the destructor calls: an object can be
\* destroyed.
DestructorSafe == object # "terminated"
=============================================================================
