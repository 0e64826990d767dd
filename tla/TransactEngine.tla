--------------------------- MODULE TransactEngine ---------------------------
(***************************************************************************)
(* The request/answer engine of class Ag95Gripper (C++): the application's *)
(* thread inside connect, transact, send_write_immediate, receive_event    *)
(* and disconnect, the background thread running receive_loop, the bus and *)
(* the gripper behind it.                                                  *)
(*                                                                         *)
(* Two threads share pending_transaction_ (under transact_mutex_), the     *)
(* PendingTransaction it points at (under its own mtx), event_queue_       *)
(* (under event_mutex_) and receive_running_ (atomic).  A step of the      *)
(* model is what one thread does under one mutex.  Of all the              *)
(* PendingTransaction objects only the newest one is kept: pt.no says      *)
(* which call it belongs to, rxPt which one the receive thread holds.      *)
(*                                                                         *)
(* Time is abstract: a deadline may pass at any moment at which the code   *)
(* can observe it.  Write coalescing is off in this module.  The bus and   *)
(* the gripper are external: frames arrive in order, may be lost or late;  *)
(* the gripper applies a command and answers with a frame of the same      *)
(* address, and sends unsolicited frames of its own.                       *)
(***************************************************************************)
EXTENDS Integers, Sequences

CONSTANTS
    Ids,            \* CAN ids
    Regs,           \* registers: (function, sub_function) pairs
    Values,         \* register values
    InitValue,      \* what every register of the gripper holds at first
    DefaultFrame,   \* a default-constructed Ag95Frame
    Requests,       \* frames the application may ask to be transacted
    Unsolicited,    \* frames the gripper may send of its own accord
    MaxRetries,     \* config_.max_retries
    MaxQueue,       \* max_event_queue_size_
    WaitWriteEcho,  \* config_.wait_write_echo
    ConnectAnyTime, \* whether the application calls connect() when connected
    MaxCalls, MaxSessions, MaxLosses, MaxEvents, MaxFaults  \* model bounds

kRead  == 0
kWrite == 1

Frame == [id : Ids, reg : Regs, rw : {kRead, kWrite}, value : Values]
Addresses == Ids \X Regs
Address(f) == <<f.id, f.reg>>

ASSUME DataAssumption ==
    /\ InitValue \in Values
    /\ DefaultFrame \in Frame
    /\ Requests \subseteq Frame
    /\ Unsolicited \subseteq Frame

ASSUME ConfigAssumption ==
    /\ MaxRetries \in Nat
    /\ MaxQueue \in Nat \ {0}
    /\ WaitWriteEcho \in BOOLEAN
    /\ ConnectAnyTime \in BOOLEAN

ASSUME BoundsAssumption ==
    {MaxCalls, MaxSessions, MaxLosses, MaxEvents, MaxFaults} \subseteq Nat

\* A frame on the wire.  History: tag is the call it was sent for or answers
\* (0 for an unsolicited frame), uid its serial number among the frames that
\* reached the host (0 on the way to the gripper).
Wire == [frame : Frame, tag : Nat, uid : Nat]
DefaultWire == [frame |-> DefaultFrame, tag |-> 0, uid |-> 0]

VARIABLES
    callerPc,  \* where the application's thread is
    rxPc,      \* where receive_thread_ is; "none": no thread to join
    open,      \* transport_->is_open()
    running,   \* receive_running_
    pending,   \* pending_transaction_ is set (it then points at pt)
    pt,        \* the newest PendingTransaction
    attempt,   \* attempt, in transact
    rxFrame,   \* frame, in receive_loop
    rxPt,      \* the call whose PendingTransaction receive_loop holds, or 0
    events,    \* event_queue_
    toDev,     \* frames on their way to the gripper
    toHost,    \* frames in the host's receive buffer
    regs,      \* the gripper's registers
    result,    \* how the last request of the application ended
    \* history, and the counters the model's bounds are about
    calls,       \* requests made so far
    sent,        \* transmissions of the request transacted last
    late,        \* a wait of transact() has timed out
    written,     \* per address, what the application may expect to read
    taken,       \* uids receive_event() returned in this session
    unsolicited, \* uids of the gripper's own frames in this session
    overflow,    \* a frame was dropped in this session, the queue being full
    emitted,     \* frames that reached the host so far
    used         \* sessions, losses, faults and events so far

callerVars == <<callerPc, attempt, result>>
rxVars     == <<rxPc, rxFrame, rxPt>>
ptVars     == <<pending, pt>>
lineVars   == <<open, running>>
busVars    == <<toDev, toHost, regs>>
callHist   == <<calls, sent, late, written>>
eventHist  == <<taken, unsolicited, overflow>>
hist       == <<callHist, eventHist, emitted, used>>
vars == <<callerVars, rxVars, ptVars, lineVars, busVars, events, hist>>

Outcomes == {"none", "ok", "posted", "timeout", "transport"}
InTransact == {"send", "wait", "finish", "timedout"}

-----------------------------------------------------------------------------
\* Definitions named ...Bug are deliberate errors that stand in for the one
\* below them in the mutation runs; nothing else uses them.

\* The read/write flag is forgotten.
FrameMatchesBug(expected, received) ==
    received.id = expected.id /\ received.reg = expected.reg

\* frame_matches: id, function, sub_function and rw, but not the value.
FrameMatches(expected, received) ==
    /\ received.id = expected.id
    /\ received.reg = expected.reg
    /\ received.rw = expected.rw

\* The frame cannot be mistaken for an answer to any request.
UnsolicitedDistinct ==
    \A u \in Unsolicited, r \in Requests : ~ FrameMatches(r, u)

Init ==
    /\ callerPc = "idle" /\ rxPc = "none"
    /\ open = FALSE /\ running = FALSE
    /\ pending = FALSE
    /\ pt = [no |-> 0, expected |-> DefaultFrame,
             response |-> DefaultWire, completed |-> FALSE]
    /\ attempt = 0
    /\ rxFrame = DefaultWire /\ rxPt = 0
    /\ events = <<>> /\ toDev = <<>> /\ toHost = <<>>
    /\ regs = [a \in Addresses |-> InitValue]
    /\ result = [outcome |-> "none", request |-> DefaultFrame,
                 reply |-> DefaultWire]
    /\ calls = 0 /\ sent = 0 /\ late = FALSE
    /\ written = [a \in Addresses |-> {InitValue}]
    /\ taken = {} /\ unsolicited = {} /\ overflow = FALSE
    /\ emitted = 0
    /\ used = [sessions |-> 0, losses |-> 0, faults |-> 0, events |-> 0]

\* One more of what the model bounds: sessions, losses, faults, events.
Limit == [sessions |-> MaxSessions, losses |-> MaxLosses,
          faults |-> MaxFaults, events |-> MaxEvents]
Spend(kind) ==
    /\ used[kind] < Limit[kind]
    /\ used' = [used EXCEPT ![kind] = @ + 1]

-----------------------------------------------------------------------------
(* connect() and disconnect()                                              *)

\* connect: transport_->open(), which returns at once if it is open already.
ConnectOpen ==
    /\ callerPc = "idle"
    /\ rxPc = "none" \/ ConnectAnyTime
    /\ callerPc' = "drain"
    /\ open' = TRUE
    /\ taken' = {} /\ unsolicited' = {} /\ overflow' = FALSE
    /\ Spend("sessions")
    /\ UNCHANGED <<attempt, result, rxVars, ptVars, running, busVars, events,
                   callHist, emitted>>

\* connect: one frame read and thrown away while draining.
DrainFrame ==
    /\ callerPc = "drain" /\ toHost # <<>>
    /\ toHost' = Tail(toHost)
    /\ UNCHANGED <<callerVars, rxVars, ptVars, lineVars, toDev, regs, events,
                   hist>>

\* connect: the drain loop catches TimeoutError only; any other exception of
\* receive() leaves connect() with the transport open and no receive thread.
DrainFault ==
    /\ callerPc = "drain"
    /\ callerPc' = "idle"
    /\ Spend("faults")
    /\ UNCHANGED <<attempt, result, rxVars, ptVars, lineVars, busVars, events,
                   callHist, eventHist, emitted>>

\* connect: drain_end has passed; assigning to a std::thread that is still
\* joinable calls std::terminate.
StartThread ==
    /\ callerPc = "drain"
    /\ callerPc' = IF rxPc = "none" THEN "idle" ELSE "terminated"
    /\ rxPc' = "check"
    /\ running' = TRUE
    /\ UNCHANGED <<attempt, result, rxFrame, rxPt, ptVars, open, busVars,
                   events, hist>>

\* The transport is closed before the thread is joined.
DisconnectStopBug ==
    /\ callerPc = "idle" /\ callerPc' = "join"
    /\ running' = FALSE /\ open' = FALSE
    /\ UNCHANGED <<attempt, result, rxVars, ptVars, busVars, events, hist>>

\* disconnect: receive_running_.store(false).
DisconnectStop ==
    /\ callerPc = "idle"
    /\ callerPc' = "join"
    /\ running' = FALSE
    /\ UNCHANGED <<attempt, result, rxVars, ptVars, open, busVars, events,
                   hist>>

\* disconnect: the thread is joined (if there is one), the pending
\* transaction reset, the event queue emptied and the transport closed.
DisconnectFinish ==
    /\ callerPc = "join" /\ rxPc \in {"none", "stopped"}
    /\ callerPc' = "idle"
    /\ rxPc' = "none"
    /\ pending' = FALSE
    /\ events' = <<>>
    /\ open' = FALSE
    /\ toHost' = <<>>
    /\ unsolicited' = {}
    /\ UNCHANGED <<attempt, result, rxFrame, rxPt, pt, running, toDev, regs,
                   callHist, taken, overflow, emitted, used>>

-----------------------------------------------------------------------------
(* Requests of the application                                             *)

\* What a read of the address may return if every call so far was answered
\* in time: a write that failed may or may not have reached the gripper.
NoteAttempt(f) ==
    IF f.rw = kWrite
    THEN [written EXCEPT ![Address(f)] = @ \cup {f.value}]
    ELSE written

NoteSuccess(f) ==
    IF f.rw = kWrite
    THEN [written EXCEPT ![Address(f)] = {f.value}]
    ELSE written

\* transact: a new PendingTransaction is made the pending one.
Transact(f) ==
    /\ callerPc = "idle" /\ open /\ calls < MaxCalls
    /\ callerPc' = "send"
    /\ attempt' = 0
    /\ pending' = TRUE
    /\ pt' = [no |-> calls + 1, expected |-> f,
              response |-> DefaultWire, completed |-> FALSE]
    /\ calls' = calls + 1 /\ sent' = 0 /\ written' = NoteAttempt(f)
    /\ UNCHANGED <<result, rxVars, lineVars, busVars, events, late, eventHist,
                   emitted, used>>

\* send_write_immediate without wait_write_echo: sent and forgotten.
Post(f) ==
    /\ callerPc = "idle" /\ open /\ calls < MaxCalls
    /\ toDev' = Append(toDev, [frame |-> f, tag |-> calls + 1, uid |-> 0])
    /\ result' = [outcome |-> "posted", request |-> f, reply |-> DefaultWire]
    /\ calls' = calls + 1 /\ written' = NoteSuccess(f)
    /\ UNCHANGED <<callerPc, attempt, rxVars, ptVars, lineVars, toHost, regs,
                   events, sent, late, eventHist, emitted, used>>

\* transact throws when not connected, and so does send() of a closed or
\* failing transport in the fire-and-forget path.
Refused(f) ==
    /\ callerPc = "idle" /\ calls < MaxCalls
    /\ ~ open
    /\ result' = [outcome |-> "transport", request |-> f,
                  reply |-> DefaultWire]
    /\ calls' = calls + 1
    /\ UNCHANGED <<callerPc, attempt, rxVars, ptVars, lineVars, busVars,
                   events, sent, late, written, eventHist, emitted, used>>

PostFault(f) ==
    /\ callerPc = "idle" /\ open
    /\ calls < MaxCalls
    /\ result' = [outcome |-> "transport", request |-> f,
                  reply |-> DefaultWire]
    /\ calls' = calls + 1 /\ Spend("faults")
    /\ UNCHANGED <<callerPc, attempt, rxVars, ptVars, lineVars, busVars,
                   events, sent, late, written, eventHist, emitted>>

\* read_register (coalescing off: nothing to flush).
ReadRegister ==
    \E f \in Requests :
        /\ f.rw = kRead
        /\ Transact(f) \/ Refused(f)

\* write_register with coalescing off is send_write_immediate.
SendWriteImmediate ==
    \E f \in Requests :
        /\ f.rw = kWrite
        /\ \/ WaitWriteEcho /\ Transact(f)
           \/ ~ WaitWriteEcho /\ (Post(f) \/ PostFault(f))
           \/ Refused(f)
-----------------------------------------------------------------------------
(* transact(), after the transaction was made pending                      *)

\* enforce_interval and transport_->send; the wait starts.
Send ==
    /\ callerPc = "send"
    /\ callerPc' = "wait"
    /\ toDev' = Append(toDev, [frame |-> pt.expected, tag |-> pt.no,
                               uid |-> 0])
    /\ sent' = sent + 1
    /\ UNCHANGED <<attempt, result, rxVars, ptVars, lineVars, toHost, regs,
                   events, calls, late, written, eventHist, emitted, used>>

\* send() throws TransportError: only ProtocolError is caught, so the call
\* ends here and pending_transaction_ stays set.
SendFault ==
    /\ callerPc = "send"
    /\ callerPc' = "idle"
    /\ result' = [outcome |-> "transport", request |-> pt.expected,
                  reply |-> DefaultWire]
    /\ Spend("faults")
    /\ UNCHANGED <<attempt, rxVars, ptVars, lineVars, busVars, events,
                   callHist, eventHist, emitted>>

\* pt->completed is seen with pt->mtx held, and mtx stays held until Finish.
WaitReturn ==
    /\ callerPc = "wait" /\ pt.completed
    /\ callerPc' = "finish"
    /\ UNCHANGED <<attempt, result, rxVars, ptVars, lineVars, busVars, events,
                   hist>>

\* pending_transaction_.reset() and return pt->response.
Finish ==
    /\ callerPc = "finish"
    /\ callerPc' = "idle"
    /\ pending' = FALSE
    /\ result' = [outcome |-> "ok", request |-> pt.expected,
                  reply |-> pt.response]
    /\ written' = NoteSuccess(pt.expected)
    /\ UNCHANGED <<attempt, rxVars, pt, lineVars, busVars, events, calls, sent,
                   late, eventHist, emitted, used>>

\* The deadline passed and, with mtx held again, there is still no answer.
WaitTimeout ==
    /\ callerPc = "wait" /\ ~ pt.completed
    /\ callerPc' = "timedout"
    /\ late' = TRUE
    /\ UNCHANGED <<attempt, result, rxVars, ptVars, lineVars, busVars, events,
                   calls, sent, written, eventHist, emitted, used>>

\* One attempt too many.
AttemptsLeftBug == attempt =< MaxRetries

AttemptsLeft == attempt < MaxRetries

\* After 50 ms the frame is sent again, whatever arrived in the meantime.
Retry ==
    /\ callerPc = "timedout" /\ AttemptsLeft
    /\ callerPc' = "send"
    /\ attempt' = attempt + 1
    /\ UNCHANGED <<result, rxVars, ptVars, lineVars, busVars, events, hist>>

\* The last attempt failed: pending_transaction_.reset(), TimeoutError.
GiveUp ==
    /\ callerPc = "timedout" /\ ~ AttemptsLeft
    /\ callerPc' = "idle"
    /\ pending' = FALSE
    /\ result' = [outcome |-> "timeout", request |-> pt.expected,
                  reply |-> DefaultWire]
    /\ UNCHANGED <<attempt, rxVars, pt, lineVars, busVars, events, hist>>
-----------------------------------------------------------------------------
(* receive_event()                                                         *)

PopEvent ==
    /\ events # <<>>
    /\ events' = Tail(events)
    /\ taken' = taken \cup {Head(events).uid}
    /\ UNCHANGED <<unsolicited, overflow, callHist, emitted, used>>

\* The queue is not empty: its front is returned at once.
TakeEvent ==
    /\ callerPc = "idle" /\ open
    /\ PopEvent
    /\ UNCHANGED <<callerVars, rxVars, ptVars, lineVars, busVars>>

\* The queue is empty: event_cv_.wait_for, without a predicate.
WaitForEvent ==
    /\ callerPc = "idle" /\ open /\ events = <<>>
    /\ callerPc' = "waitevent"
    /\ UNCHANGED <<attempt, result, rxVars, ptVars, lineVars, busVars, events,
                   hist>>

\* Notified: the front is returned.
WakeWithEvent ==
    /\ callerPc = "waitevent"
    /\ PopEvent
    /\ callerPc' = "idle"
    /\ UNCHANGED <<attempt, result, rxVars, ptVars, lineVars, busVars>>

\* The front is popped before the wait's status is looked at.
WakeWithoutBug ==
    /\ callerPc = "waitevent" /\ callerPc' = "idle"
    /\ events' = IF events = <<>> THEN <<>> ELSE Tail(events)
    /\ UNCHANGED <<attempt, result, rxVars, ptVars, lineVars, busVars, hist>>

\* Timed out, or woken with nothing in the queue: std::nullopt.
WakeWithout ==
    /\ callerPc = "waitevent"
    /\ callerPc' = "idle"
    /\ UNCHANGED <<attempt, result, rxVars, ptVars, lineVars, busVars, events,
                   hist>>

-----------------------------------------------------------------------------
(* receive_loop()                                                          *)

\* A plain bool, read once: the loop does not see disconnect() clear it.
RxCheckBug ==
    /\ rxPc = "check" /\ rxPc' = "receive"
    /\ UNCHANGED <<callerVars, rxFrame, rxPt, ptVars, lineVars, busVars,
                   events, hist>>

\* The loop condition.
RxCheck ==
    /\ rxPc = "check"
    /\ rxPc' = IF running THEN "receive" ELSE "stopped"
    /\ UNCHANGED <<callerVars, rxFrame, rxPt, ptVars, lineVars, busVars,
                   events, hist>>

\* transport_->receive returns the next frame of the receive buffer.
RxReceive ==
    /\ rxPc = "receive" /\ toHost # <<>>
    /\ rxPc' = "match"
    /\ rxFrame' = Head(toHost)
    /\ toHost' = Tail(toHost)
    /\ UNCHANGED <<callerVars, rxPt, ptVars, lineVars, toDev, regs, events,
                   hist>>

\* recv_thread_timeout passed with nothing in the buffer: TimeoutError.
RxTimeout ==
    /\ rxPc = "receive" /\ toHost = <<>>
    /\ rxPc' = "check"
    /\ UNCHANGED <<callerVars, rxFrame, rxPt, ptVars, lineVars, busVars,
                   events, hist>>

\* Nothing but TimeoutError is caught inside the loop.
AfterErrorBug == "stopped"

AfterError == "check"

\* receive() throws anything else: swallowed, the loop goes on after 10 ms.
RxFault ==
    /\ rxPc = "receive"
    /\ rxPc' = AfterError
    /\ Spend("faults")
    /\ UNCHANGED <<callerVars, rxFrame, rxPt, ptVars, lineVars, busVars,
                   events, callHist, eventHist, emitted>>

\* Under transact_mutex_: a match copies the shared_ptr.
RxMatch ==
    /\ rxPc = "match"
    /\ IF pending /\ FrameMatches(pt.expected, rxFrame.frame)
         THEN rxPc' = "deliver" /\ rxPt' = pt.no
         ELSE rxPc' = "enqueue" /\ rxPt' = 0
    /\ UNCHANGED <<callerVars, rxFrame, ptVars, lineVars, busVars, events,
                   hist>>

\* pending_transaction_ is read again instead of the captured pointer.
HoldsNewestBug == TRUE

\* The PendingTransaction receive_loop holds is the newest one.
HoldsNewest == rxPt = pt.no

\* The continue after the delivery is missing.
AfterDeliveryBug == "enqueue"

AfterDelivery == "check"

\* Under the mtx of the captured PendingTransaction, which transact() holds
\* in "finish".  The answer to a transaction that is over is dropped.
RxDeliver ==
    /\ rxPc = "deliver"
    /\ ~ (callerPc = "finish" /\ HoldsNewest)
    /\ rxPc' = AfterDelivery
    /\ rxPt' = 0
    /\ pt' = IF HoldsNewest
               THEN [pt EXCEPT !.response = rxFrame, !.completed = TRUE]
               ELSE pt
    /\ UNCHANGED <<callerVars, rxFrame, pending, lineVars, busVars, events,
                   hist>>

\* A stack instead of a queue.
PushedBug == <<rxFrame>> \o events

Pushed == Append(events, rxFrame)

\* Under event_mutex_: pushed, unless the queue is full.
RxEnqueue ==
    /\ rxPc = "enqueue"
    /\ rxPc' = "check"
    /\ IF Len(events) < MaxQueue
         THEN events' = Pushed /\ UNCHANGED overflow
         ELSE UNCHANGED events /\ overflow' = TRUE
    /\ UNCHANGED <<callerVars, rxFrame, rxPt, ptVars, lineVars, busVars, taken,
                   unsolicited, callHist, emitted, used>>

-----------------------------------------------------------------------------
(* The bus and the gripper (external)                                      *)

\* A frame reaches the host; with the transport closed nobody buffers it.
Arrive(f, tag) ==
    toHost' = IF open
                THEN Append(toHost, [frame |-> f, tag |-> tag,
                                     uid |-> emitted + 1])
                ELSE toHost

\* The gripper applies a command and echoes a write, or answers a read.
DeviceServe ==
    /\ toDev # <<>>
    /\ LET f == Head(toDev).frame
           served == IF f.rw = kWrite
                       THEN [regs EXCEPT ![Address(f)] = f.value]
                       ELSE regs
       IN  /\ regs' = served
           /\ Arrive([f EXCEPT !.value = served[Address(f)]], Head(toDev).tag)
    /\ toDev' = Tail(toDev)
    /\ emitted' = emitted + 1
    /\ UNCHANGED <<callerVars, rxVars, ptVars, lineVars, events, callHist,
                   eventHist, used>>

\* A command is lost, or refused by the gripper without an answer.
LoseCommand ==
    /\ toDev # <<>>
    /\ toDev' = Tail(toDev)
    /\ Spend("losses")
    /\ UNCHANGED <<callerVars, rxVars, ptVars, lineVars, toHost, regs, events,
                   callHist, eventHist, emitted>>

\* A command is applied and its answer lost.
LoseAnswer ==
    /\ toDev # <<>>
    /\ LET f == Head(toDev).frame
       IN  regs' = IF f.rw = kWrite
                     THEN [regs EXCEPT ![Address(f)] = f.value]
                     ELSE regs
    /\ toDev' = Tail(toDev)
    /\ Spend("losses")
    /\ UNCHANGED <<callerVars, rxVars, ptVars, lineVars, toHost, events,
                   callHist, eventHist, emitted>>

\* The gripper reports an event (object dropped, initialization complete).
DeviceEvent ==
    /\ Spend("events")
    /\ \E u \in Unsolicited : Arrive(u, 0)
    /\ emitted' = emitted + 1
    /\ unsolicited' = IF open /\ callerPc # "drain"
                        THEN unsolicited \cup {emitted + 1}
                        ELSE unsolicited
    /\ UNCHANGED <<callerVars, rxVars, ptVars, lineVars, toDev, regs, events,
                   callHist, taken, overflow>>

-----------------------------------------------------------------------------
InCall == Send \/ SendFault \/ WaitReturn \/ Finish \/ WaitTimeout
          \/ Retry \/ GiveUp

Events == TakeEvent \/ WaitForEvent \/ WakeWithEvent \/ WakeWithout

Session == ConnectOpen \/ DrainFrame \/ DrainFault \/ StartThread
           \/ DisconnectStop \/ DisconnectFinish

Rx == RxCheck \/ RxReceive \/ RxTimeout \/ RxFault \/ RxMatch \/ RxDeliver
      \/ RxEnqueue

Bus == DeviceServe \/ LoseCommand \/ LoseAnswer \/ DeviceEvent

\* std::terminate ends the process: nothing happens after it.
Next ==
    /\ callerPc # "terminated"
    /\ \/ ReadRegister \/ SendWriteImmediate
       \/ InCall \/ Events \/ Session \/ Rx \/ Bus

Spec == Init /\ [][Next]_vars

\* A thread that can take a step inside a call of the library is scheduled
\* again, and every wait of the code has a deadline.  Nothing is assumed of
\* the application, the bus or the gripper.
CallerStep == InCall \/ WakeWithEvent \/ WakeWithout \/ StartThread
              \/ DisconnectFinish

FairSpec ==
    /\ Spec
    /\ WF_vars(callerPc # "terminated" /\ CallerStep)
    /\ WF_vars(callerPc # "terminated" /\ Rx)

-----------------------------------------------------------------------------
(* What must hold                                                          *)

Transaction == [no : Nat, expected : Frame, response : Wire,
                completed : BOOLEAN]
Result == [outcome : Outcomes, request : Frame, reply : Wire]
Counters == [DOMAIN Limit -> Nat]

\* Every variable has its type.
TypeOK ==
    /\ callerPc \in {"idle", "drain", "waitevent", "join", "terminated"}
                    \cup InTransact
    /\ rxPc \in {"none", "check", "receive", "match", "deliver", "enqueue",
                 "stopped"}
    /\ open \in BOOLEAN /\ running \in BOOLEAN /\ pending \in BOOLEAN
    /\ pt \in Transaction
    /\ attempt \in 0 .. MaxRetries
    /\ rxFrame \in Wire /\ rxPt \in Nat
    /\ events \in Seq(Wire) /\ toDev \in Seq(Wire) /\ toHost \in Seq(Wire)
    /\ regs \in [Addresses -> Values]
    /\ result \in Result
    /\ calls \in Nat /\ sent \in Nat /\ emitted \in Nat
    /\ late \in BOOLEAN /\ overflow \in BOOLEAN
    /\ written \in [Addresses -> SUBSET Values]
    /\ taken \subseteq Nat /\ unsolicited \subseteq Nat
    /\ used \in Counters

\* transact() returns only a frame that matches the request it was called
\* with: a frame matched against one call is never handed to a later one,
\* however late the receive thread delivers it.
AnswerMatchesRequest ==
    result.outcome = "ok" => FrameMatches(result.request, result.reply.frame)

\* As long as no wait has timed out, the answer transact() returns is the one
\* the gripper gave to this very call, not to an earlier one.
OwnAnswer ==
    callerPc = "finish" /\ ~ late /\ UnsolicitedDistinct
        => pt.response.tag = pt.no

\* As long as no wait has timed out and nothing was lost, a read returns what
\* the last write of the register left there, also when writes are
\* fire-and-forget and still on the bus when the read is sent.
ReadsLastWrite ==
    callerPc = "finish" /\ pt.expected.rw = kRead /\ UnsolicitedDistinct
    /\ ~ late /\ used.losses = 0
        => pt.response.frame.value \in written[Address(pt.expected)]

\* The frames the receive thread has read and not finished with.
InHand == IF rxPc \in {"match", "deliver", "enqueue"} THEN <<rxFrame>>
                                                      ELSE <<>>
Pipeline == events \o InHand \o toHost
Uids(s) == {s[i].uid : i \in DOMAIN s}

\* Frames reach receive_event() in the order in which they arrived: the event
\* queue, the frame in hand and the receive buffer are in arrival order, and
\* behind everything the application has taken.
ArrivalOrder ==
    /\ \A i, j \in DOMAIN Pipeline :
           i < j => Pipeline[i].uid < Pipeline[j].uid
    /\ \A u \in taken, v \in Uids(Pipeline) : u < v

\* The answer a transaction got is not in the event queue as well, and was
\* not taken from there.
AnswerIsNoEvent ==
    pt.completed => pt.response.uid \notin Uids(events) \cup taken

\* A frame the gripper sent of its own accord while the driver was connected
\* is still on its way to the application or was taken by it, unless the
\* event queue was full; no poll, wait or call of the application loses it.
NoEventLost ==
    UnsolicitedDistinct /\ ~ overflow
        => unsolicited \subseteq taken \cup Uids(Pipeline)

\* Unless send() failed, pending_transaction_ is set exactly while transact()
\* runs: the receive thread can always tell an answer from an event.
PendingOnlyInCall ==
    used.faults = 0 => (pending <=> callerPc \in InTransact)

\* The receive thread never uses a closed transport, and disconnect() leaves
\* no thread, event or pending transaction to the next session.
SessionsSeparate ==
    /\ rxPc \notin {"none", "stopped"} => open
    /\ ~ open /\ callerPc = "idle"
           => rxPc = "none" /\ events = <<>> /\ toHost = <<>> /\ ~ pending

\* Every call of the library returns: no wait without a deadline, and the two
\* threads never wait for each other's mutex.
EveryCallReturns == (callerPc # "idle") ~> (callerPc = "idle")

\* While there is a receive thread, what arrives is handled: no error of
\* receive() ends the loop.
ArrivalsHandled == (rxPc # "none" /\ toHost # <<>>) ~> (toHost = <<>>)

-----------------------------------------------------------------------------
(* What a caller is promised, in RequestPort                               *)

Port == INSTANCE RequestPort WITH
    phase   <- IF callerPc \in InTransact THEN "busy"
               ELSE IF open THEN "ready" ELSE "closed",
    request <- IF callerPc \in InTransact THEN pt.expected
                                          ELSE result.request,
    tries   <- sent,
    outcome <- result.outcome,
    reply   <- result.reply.frame

\* The engine implements the port: whatever the threads, the bus and the
\* timers do, a caller of transact() sees one of the endings it promises.
ImplementsPort == Port!FairSpec

-----------------------------------------------------------------------------
(* What the documents say and the code does not do                         *)

\* README.md:238, "reads always reflect the latest state": a read that
\* follows a confirmed write, with nothing lost, returns what was written.
ReadsLatestState ==
    callerPc = "finish" /\ pt.expected.rw = kRead /\ used.losses = 0
        => pt.response.frame.value \in written[Address(pt.expected)]

\* README.md:246: a frame that does not match a pending transact() request
\* goes into the queue; with no transact() running there is none.
UnmatchedFramesQueued ==
    [][rxPc = "match" /\ callerPc \notin InTransact => rxPc' # "deliver"]_vars

\* ag95_gripper.hpp:57, "safe to call from a single thread".
NeverTerminates == callerPc # "terminated"
=============================================================================
