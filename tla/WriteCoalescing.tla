--------------------------- MODULE WriteCoalescing --------------------------
(***************************************************************************)
(* The write cache of class Ag95Gripper (C++): write_register,             *)
(* flush_pending_writes, read_register, flush and disconnect as far as the *)
(* cache is concerned.                                                     *)
(*                                                                         *)
(* Only the application's thread touches the cache.  What makes it hard is *)
(* that a flush is several transactions, each of which takes time and may  *)
(* fail with the rest still to be sent, and that a transaction which       *)
(* returned shows little: with wait_write_echo off only that the frame was *)
(* sent, with it on that an echo of the same register came, of this write  *)
(* or of an earlier one, for frame_matches does not look at the value.  So *)
(* requests and answers travel here (RegisterLine), where they may be lost *)
(* or late.  The locks and threads inside a transaction are                *)
(* TransactEngine's.                                                       *)
(*                                                                         *)
(* Coalescing is on: with it off write_register is TransactEngine's        *)
(* SendWriteImmediate and the cache is never looked at.                    *)
(*                                                                         *)
(* write_cache_ is a function per field of WriteCacheEntry; a field of a   *)
(* key that was never written has the value operator[] gives it.           *)
(***************************************************************************)
EXTENDS RegisterLine

CONSTANTS
    DefaultId,       \* the id of a default-constructed WriteCacheEntry
    Window,          \* config_.coalesce_window, in ticks
    SkipDuplicates,  \* config_.skip_duplicate_writes
    EchoSettings,    \* the values of config_.wait_write_echo looked at
    MaxRetries,      \* config_.max_retries
    MaxTime, MaxCalls, MaxFaults  \* model bounds

ASSUME DataAssumption ==
    /\ Values \subseteq Int /\ 0 \in Values /\ InitValue \in Values
    /\ DefaultId \in Ids /\ Keys # {}

ASSUME ConfigAssumption ==
    /\ SkipDuplicates \in BOOLEAN /\ EchoSettings \subseteq BOOLEAN
    /\ Window \in Nat \ {0} /\ MaxRetries \in Nat
    /\ MaxTime \in Nat /\ MaxCalls \in Nat /\ MaxFaults \in Nat

SomeAddress == CHOOSE a \in Addresses : TRUE

VARIABLES
    connected,     \* is_connected()
    waitEcho,      \* config_.wait_write_echo, never changed
    id,            \* write_cache_[k].id
    lastSent,      \* write_cache_[k].last_sent_value
    sentAt,        \* write_cache_[k].last_send_time; 0: never sent
    pending,       \* the keys with write_cache_[k].pending
    pendingValue,  \* write_cache_[k].pending_value
    since,         \* write_cache_[k].pending_since
    now,           \* steady_clock::now(), later than any window after boot
    pc,            \* "idle", "flush", "wait" or, the flush done, "resume"
    todo,          \* flush_pending_writes: the keys still to be sent
    call,          \* the call that flushes
    request,       \* transact: the frame whose answer is waited for
    attempt,       \* transact: the attempt
    wanted,        \* history: the last value accepted for each address
    stale,         \* history: see Begun
    last,          \* history: how the last call ended
    calls, faults  \* counters for the model bounds

linkVars == <<connected, waitEcho>>
cacheVars == <<id, lastSent, sentAt, pending, pendingValue, since>>
transactVars == <<request, attempt, stale>>
flushVars == <<pc, todo, call>>
vars == <<lineVars, linkVars, cacheVars, transactVars, flushVars, now,
          wanted, last, calls, faults>>

Call == [kind : {"none", "write", "read", "flush", "disconnect"},
         address : Addresses, value : Values, at : Nat]
Request == [address : Addresses, rw : Directions, value : Values]
Ending == [kind : {"none", "write", "read", "failed"},
           address : Addresses, value : Values, fresh : BOOLEAN]

NoCall == [kind |-> "none", address |-> SomeAddress, value |-> 0, at |-> 0]
NoRequest == [address |-> SomeAddress, rw |-> "read", value |-> 0]
Ended(kind) ==
    [kind |-> kind, address |-> SomeAddress, value |-> 0, fresh |-> FALSE]

Init ==
    /\ LineInit
    /\ connected = TRUE /\ waitEcho \in EchoSettings
    /\ id = [k \in Keys |-> DefaultId]
    /\ lastSent = [k \in Keys |-> 0]
    /\ sentAt = [k \in Keys |-> 0]
    /\ pending = {}
    /\ pendingValue = [k \in Keys |-> 0]
    /\ since = [k \in Keys |-> 0]
    /\ now = Window
    /\ pc = "idle" /\ todo = {}
    /\ call = NoCall
    /\ request = NoRequest /\ attempt = 0
    /\ wanted = [a \in Addresses |-> InitValue]
    /\ stale = {}
    /\ last = Ended("none")
    /\ calls = 0 /\ faults = 0

-----------------------------------------------------------------------------
(* How calls begin and end                                                 *)
(* Definitions named ...Bug are deliberate errors that stand in for the    *)
(* one below them in the mutation runs; nothing else uses them.            *)

Begin ==
    /\ pc = "idle" /\ calls < MaxCalls
    /\ calls' = calls + 1

\* A write returns its value: the application may count on it from now on.
Accept(i, k, v) ==
    /\ wanted' = [wanted EXCEPT ![<<i, k>>] = v]
    /\ last' = Ended("write")

\* The call is over.
Over == pc' = "idle" /\ call' = NoCall /\ todo' = {}

\* An exception leaves the call; nothing of what it asked for is promised.
Fails ==
    /\ Over
    /\ last' = Ended("failed")
    /\ UNCHANGED wanted

\* The bus or a deadline fails.
Fault == faults < MaxFaults /\ faults' = faults + 1

\* flush_pending_writes: collect the keys with a pending write.
StartFlush(kind, a, v, at) ==
    /\ pc' = "flush" /\ todo' = pending
    /\ call' = [kind |-> kind, address |-> a, value |-> v, at |-> at]
    /\ UNCHANGED <<lineVars, linkVars, transactVars, now, wanted, last,
                   faults>>

-----------------------------------------------------------------------------
(* write_register                                                          *)

\* Every call overwrites the id.
InitEntryBug(i, k) == id' = [id EXCEPT ![k] = i]

\* The id of an entry is taken over from the call until its first send.
InitEntry(i, k) ==
    id' = IF sentAt[k] = 0 THEN [id EXCEPT ![k] = i] ELSE id

Quick ==
    UNCHANGED <<lineVars, linkVars, transactVars, flushVars, now, faults>>

\* Skipped although another value is pending.
WriteSkippedBug(i, k, v) ==
    /\ Begin
    /\ SkipDuplicates /\ lastSent[k] = v
    /\ InitEntry(i, k)
    /\ Accept(i, k, v)
    /\ Quick
    /\ UNCHANGED <<lastSent, sentAt, pending, pendingValue, since>>

\* Nothing pending and the value equals last_sent_value: skipped.
WriteSkipped(i, k, v) ==
    /\ Begin
    /\ SkipDuplicates /\ k \notin pending /\ lastSent[k] = v
    /\ InitEntry(i, k)
    /\ Accept(i, k, v)
    /\ Quick
    /\ UNCHANGED <<lastSent, sentAt, pending, pendingValue, since>>

\* The same value is pending: its time stamp is refreshed.
WriteRefreshed(i, k, v) ==
    /\ Begin
    /\ k \in pending /\ pendingValue[k] = v
    /\ InitEntry(i, k)
    /\ since' = [since EXCEPT ![k] = now]
    /\ Accept(i, k, v)
    /\ Quick
    /\ UNCHANGED <<lastSent, sentAt, pending, pendingValue>>

\* Another value is pending and its window still open: it is replaced.
WriteReplaced(i, k, v) ==
    /\ Begin
    /\ k \in pending /\ pendingValue[k] # v /\ now - since[k] < Window
    /\ InitEntry(i, k)
    /\ pendingValue' = [pendingValue EXCEPT ![k] = v]
    /\ since' = [since EXCEPT ![k] = now]
    /\ Accept(i, k, v)
    /\ Quick
    /\ UNCHANGED <<lastSent, sentAt, pending>>

\* Another value is pending and its window over: all keys are flushed first.
WriteExpired(i, k, v) ==
    /\ Begin
    /\ k \in pending /\ pendingValue[k] # v /\ now - since[k] >= Window
    /\ InitEntry(i, k)
    /\ StartFlush("write", <<i, k>>, v, now)
    /\ UNCHANGED <<lastSent, sentAt, pending, pendingValue, since>>

RecentlySent(k, v, at) == lastSent[k] = v /\ at - sentAt[k] < Window

\* The end of the window is stored where its beginning should be.
DeferBug(k, v, at) ==
    /\ pending' = pending \cup {k}
    /\ pendingValue' = [pendingValue EXCEPT ![k] = v]
    /\ since' = [since EXCEPT ![k] = at + Window]
    /\ UNCHANGED <<lastSent, sentAt>>

Defer(k, v, at) ==
    /\ pending' = pending \cup {k}
    /\ pendingValue' = [pendingValue EXCEPT ![k] = v]
    /\ since' = [since EXCEPT ![k] = at]
    /\ UNCHANGED <<lastSent, sentAt>>

\* What is left of write_register when nothing is pending for the key.
SkipOrDefer(k, v, at) ==
    IF RecentlySent(k, v, at)
    THEN UNCHANGED <<lastSent, sentAt, pending, pendingValue, since>>
    ELSE Defer(k, v, at)

WriteDeferred(i, k, v) ==
    /\ Begin
    /\ k \notin pending /\ ~ (SkipDuplicates /\ lastSent[k] = v)
    /\ InitEntry(i, k)
    /\ SkipOrDefer(k, v, now)
    /\ Accept(i, k, v)
    /\ Quick

\* write_register goes on after the flush of WriteExpired, with the time it
\* had read before it.
WriteResumed ==
    /\ pc = "resume" /\ call.kind = "write"
    /\ SkipOrDefer(call.address[2], call.value, call.at)
    /\ Accept(call.address[1], call.address[2], call.value)
    /\ Over
    /\ UNCHANGED <<lineVars, linkVars, id, transactVars, now, calls, faults>>

-----------------------------------------------------------------------------
(* transact and send_write_immediate                                       *)

OnTheWay(a, rw) == Holds(line[a], rw) \/ Holds(answers[a], rw)

\* A frame is sent for the first time.  From now on an answer may be taken
\* for that of an earlier transaction of the same register and direction if
\* a frame of one is still on its way there or back.
Begun(a, rw, v) ==
    /\ Transmit(a, rw, v)
    /\ stale' = IF OnTheWay(a, rw)
                THEN stale \cup {<<a, rw>>} ELSE stale \ {<<a, rw>>}

Await(a, rw, v) ==
    /\ request' = [address |-> a, rw |-> rw, value |-> v] /\ attempt' = 0
    /\ pc' = "wait"

\* A wait is over before its answer came; the fault is that the answer is
\* late, or it was that a frame got lost.
TimesOut ==
    /\ pc = "wait"
    /\ IF OnTheWay(request.address, request.rw)
       THEN Fault ELSE UNCHANGED faults

\* The frame is sent again.
Resend ==
    /\ TimesOut /\ attempt < MaxRetries
    /\ attempt' = attempt + 1
    /\ Transmit(request.address, request.rw, request.value)
    /\ UNCHANGED <<linkVars, cacheVars, request, stale, flushVars, now,
                   wanted, last, calls>>

\* An answer of the register and direction waited for, whatever its value.
Answers(a) ==
    /\ pc = "wait" /\ a = request.address
    /\ answers[a] # <<>> /\ Head(answers[a]).rw = request.rw

\* The transaction is over.
Settled == request' = NoRequest /\ attempt' = 0 /\ UNCHANGED stale

\* It returns.
Answered ==
    Answers(request.address) /\ Leave(request.address) /\ Settled

\* Nobody waits for the answer that comes first: the receive thread takes it
\* for an event.
IgnoreAnswer ==
    \E a \in Addresses :
        /\ ~ Answers(a) /\ Leave(a)
        /\ UNCHANGED <<linkVars, cacheVars, transactVars, flushVars, now,
                       wanted, last, calls, faults>>

ServeRequest ==
    \E a \in Addresses :
        /\ Serve(a)
        /\ UNCHANGED <<linkVars, cacheVars, transactVars, flushVars, now,
                       wanted, last, calls, faults>>

\* The bus loses a frame, or the receive thread overwrites the answer with
\* the next one before the waiting thread runs.
LoseFrame ==
    \E a \in Addresses :
        /\ LoseRequest(a) \/ (Answers(a) /\ Leave(a))
        /\ Fault
        /\ UNCHANGED <<linkVars, cacheVars, transactVars, flushVars, now,
                       wanted, last, calls>>

-----------------------------------------------------------------------------
(* flush_pending_writes                                                    *)

\* pending is cleared before the value is sent.
KeptPendingBug(k) == pending \ {k}

KeptPending(k) == pending

\* What the loop body does once send_write_immediate returned.
Sent(k) ==
    /\ lastSent' = [lastSent EXCEPT ![k] = pendingValue[k]]
    /\ sentAt' = [sentAt EXCEPT ![k] = now]
    /\ pending' = pending \ {k} /\ todo' = todo \ {k}
    /\ UNCHANGED <<id, pendingValue, since>>

\* The write of the next key.  The order of the keys is that of an
\* unordered_map.  Without wait_write_echo the loop goes on once it is sent.
FlushSend ==
    \E k \in todo :
        LET a == <<id[k], k>> IN
        /\ pc = "flush" /\ connected
        /\ Begun(a, "write", pendingValue[k])
        /\ IF waitEcho
           THEN Await(a, "write", pendingValue[k]) /\ UNCHANGED <<cacheVars, todo>>
           ELSE Sent(k) /\ UNCHANGED <<pc, request, attempt>>
        /\ UNCHANGED <<linkVars, call, now, wanted, last, calls, faults>>

\* An echo came.
WriteConfirmed ==
    /\ request.rw = "write" /\ Answered
    /\ Sent(request.address[2])
    /\ pc' = "flush"
    /\ UNCHANGED <<linkVars, call, now, wanted, last, calls, faults>>

\* Nothing can be sent, or a wait timed out and was the last one or the send
\* that repeats it throws: the exception ends the call, this write and the
\* rest stay pending.
FlushFails ==
    \E k \in todo :
        /\ \/ pc = "flush" /\ ~ connected /\ UNCHANGED faults
           \/ pc = "flush" /\ connected /\ Fault
           \/ k = request.address[2] /\ request.rw = "write" /\ TimesOut
        /\ pending' = KeptPending(k)
        /\ Fails /\ Settled
        /\ UNCHANGED <<lineVars, linkVars, id, lastSent, sentAt, pendingValue,
                       since, now, calls>>

FlushDone ==
    /\ pc = "flush" /\ todo = {}
    /\ IF call.kind = "flush" THEN Over
       ELSE pc' = "resume" /\ UNCHANGED <<todo, call>>
    /\ UNCHANGED <<lineVars, linkVars, cacheVars, transactVars, now, wanted,
                   last, calls, faults>>

-----------------------------------------------------------------------------
(* The calls that flush                                                    *)

\* The read does not flush.
ReadRegisterBug(i, k) ==
    /\ Begin
    /\ pc' = "resume" /\ todo' = {}
    /\ call' = [kind |-> "read", address |-> <<i, k>>, value |-> 0, at |-> 0]
    /\ UNCHANGED <<lineVars, linkVars, cacheVars, transactVars, now, wanted,
                   last, faults>>

ReadRegister(i, k) ==
    /\ Begin
    /\ StartFlush("read", <<i, k>>, 0, 0)
    /\ UNCHANGED cacheVars

\* The transaction of the read itself.
ReadSend ==
    /\ pc = "resume" /\ call.kind = "read" /\ connected
    /\ Begun(call.address, "read", 0)
    /\ Await(call.address, "read", 0)
    /\ UNCHANGED <<linkVars, cacheVars, todo, call, now, wanted, last, calls,
                   faults>>

ReadReturns ==
    /\ request.rw = "read" /\ Answered
    /\ last' = [kind |-> "read", address |-> request.address,
                value |-> Head(answers[request.address]).value,
                fresh |-> /\ request.address \notin lost
                          /\ <<request.address, "read">> \notin stale]
    /\ Over
    /\ UNCHANGED <<linkVars, cacheVars, now, wanted, calls, faults>>

ReadFails ==
    /\ \/ /\ pc = "resume" /\ call.kind = "read"
          /\ (~ connected /\ UNCHANGED faults) \/ (connected /\ Fault)
       \/ request.rw = "read" /\ TimesOut
    /\ Fails /\ Settled
    /\ UNCHANGED <<lineVars, linkVars, cacheVars, now, calls>>

\* flush(), at any time: it is not counted as one of the MaxCalls calls.
Flush ==
    /\ pc = "idle"
    /\ StartFlush("flush", SomeAddress, 0, 0)
    /\ UNCHANGED <<cacheVars, calls>>

\* disconnect() flushes first; the cache outlives the connection.
Disconnect ==
    /\ Begin
    /\ StartFlush("disconnect", SomeAddress, 0, 0)
    /\ UNCHANGED cacheVars

DisconnectResumed ==
    /\ pc = "resume" /\ call.kind = "disconnect"
    /\ connected' = FALSE /\ UNCHANGED waitEcho
    /\ Over
    /\ UNCHANGED <<lineVars, cacheVars, transactVars, now, wanted, last, calls,
                   faults>>

Connect ==
    /\ Begin /\ ~ connected
    /\ connected' = TRUE /\ UNCHANGED waitEcho
    /\ UNCHANGED <<lineVars, cacheVars, transactVars, flushVars, now, wanted,
                   last, faults>>

Tick ==
    /\ now < MaxTime
    /\ now' = now + 1
    /\ UNCHANGED <<lineVars, linkVars, cacheVars, transactVars, flushVars,
                   wanted, last, calls, faults>>

-----------------------------------------------------------------------------
WriteRegister ==
    \E i \in Ids, k \in Keys, v \in Values :
        \/ WriteSkipped(i, k, v) \/ WriteRefreshed(i, k, v)
        \/ WriteReplaced(i, k, v) \/ WriteExpired(i, k, v)
        \/ WriteDeferred(i, k, v)

ReadAnyRegister == \E i \in Ids, k \in Keys : ReadRegister(i, k)

Next ==
    \/ WriteRegister \/ WriteResumed
    \/ FlushSend \/ WriteConfirmed \/ FlushFails \/ FlushDone
    \/ ReadAnyRegister \/ ReadSend \/ ReadReturns \/ ReadFails
    \/ Flush \/ Disconnect \/ DisconnectResumed \/ Connect
    \/ Resend \/ IgnoreAnswer \/ ServeRequest \/ LoseFrame
    \/ Tick

Spec == Init /\ [][Next]_vars

-----------------------------------------------------------------------------
(* What must hold                                                          *)

\* Every variable has its type, and no time stamp lies in the future.
TypeOK ==
    /\ LineTypeOK
    /\ connected \in BOOLEAN /\ waitEcho \in EchoSettings
    /\ id \in [Keys -> Ids]
    /\ lastSent \in [Keys -> Values]
    /\ sentAt \in [Keys -> 0 .. now]
    /\ pending \subseteq Keys
    /\ pendingValue \in [Keys -> Values]
    /\ since \in [Keys -> 0 .. now]
    /\ now \in Nat /\ now >= Window
    /\ pc \in {"idle", "flush", "wait", "resume"} /\ todo \subseteq pending
    /\ call \in Call /\ call.at =< now
    /\ request \in Request /\ attempt \in 0 .. MaxRetries
    /\ wanted \in [Addresses -> Values]
    /\ stale \subseteq Addresses \X Directions
    /\ last \in Ending
    /\ calls \in Nat /\ faults \in Nat

OneGripper == \A i, j \in Ids : i = j

\* last_sent_value starts as 0: that is the truth only of such a register.
CacheStartsTrue == InitValue = 0

\* The gripper has it: v is the last value that was sent to the register, the
\* register holds it if it was sent with echoes on and no earlier write's
\* echo could have been taken for its own, and holds it once no write is on
\* its way any more, unless the bus lost that one.
Delivered(a, v) ==
    /\ newest[a] = v
    /\ waitEcho /\ <<a, "write">> \notin stale => device[a] = v
    /\ a \notin lost /\ ~ Holds(line[a], "write") => device[a] = v

\* No accepted write is forgotten, whichever transaction of whichever flush
\* fails, is repeated or is answered late: the last value accepted for a
\* register is pending or was delivered.
NoWriteForgotten ==
    OneGripper =>
        \A i \in Ids, k \in Keys :
            IF k \in pending
            THEN pendingValue[k] = wanted[<<i, k>>]
            ELSE sentAt[k] # 0 \/ CacheStartsTrue
                     => Delivered(<<i, k>>, wanted[<<i, k>>])

\* README.md:238, "reads always reflect the latest state": a read returns
\* the value accepted last, unless the bus lost the write of that value or
\* an earlier read of the register was left without its answer.
ReadsLatestState ==
    OneGripper /\ last.kind = "read" /\ last.fresh
        => last.value = wanted[last.address]

\* With nothing pending for a register that was sent before, the cached
\* last_sent_value was delivered to the gripper it was sent to, however many
\* ids are in use: skipping a duplicate of it is sound.
CacheCoherent ==
    \A k \in Keys \ pending :
        sentAt[k] # 0 => Delivered(<<id[k], k>>, lastSent[k])

-----------------------------------------------------------------------------
(* What the application is promised, in RegisterBuffer                     *)

Buffer == INSTANCE RegisterBuffer

\* With one gripper and registers that start as the cache thinks they do,
\* the cache is a write buffer: only the value accepted last is ever put on
\* the line, and no read request while another value is still held back.
ImplementsBuffer == Buffer!Spec

-----------------------------------------------------------------------------
(* What the documents say and the code does not do                         *)

\* config.hpp:77, "A pending write is held for this long": no longer than
\* that, whether the application makes another call or not.
HeldForWindow ==
    pc = "idle" => \A k \in pending : now - since[k] =< Window
=============================================================================
