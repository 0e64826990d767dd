----------------------------- MODULE PyTransact -----------------------------
(***************************************************************************)
(* The request/answer engine of the Python class Ag95Gripper: the          *)
(* application's thread inside connect, transact, _send_write_immediate,   *)
(* receive_event and disconnect, and the threads that run _receive_loop.   *)
(*                                                                         *)
(* It differs from the C++ engine where it matters here: the answer and    *)
(* the flag that announces it (_pending_done, a threading.Event) are       *)
(* shared by all calls instead of belonging to one; disconnect() joins its *)
(* thread for two seconds and goes on, and connect() starts a thread       *)
(* without looking for another, so that there may be several; the event    *)
(* queue outlives a session; and transact() does not look whether the      *)
(* driver is connected, but has send() raise.                              *)
(*                                                                         *)
(* A step is what one thread does under one lock, or one call of the       *)
(* transport or of _pending_done.  A frame is what _frame_matches compares *)
(* of it (id, function, sub-function, rw): its key.  Write coalescing is   *)
(* off.  Time is abstract: a deadline may pass whenever it is looked at.   *)
(* The bus and the gripper are external: frames come in order and may be   *)
(* lost or late.                                                           *)
(***************************************************************************)
EXTENDS Integers, Sequences

CONSTANTS
    Keys,           \* frames, up to the value they carry
    Reads,          \* keys of the frames read_register transacts
    Writes,         \* keys of the frames _send_write_immediate sends
    Unsolicited,    \* keys of the frames the gripper sends of its own accord
    Threads,        \* receive threads the process may have at once
    NoThread,       \* _recv_thread is None
    MaxRetries,     \* config.max_retries
    MaxQueue,       \* config.max_event_queue_size
    WaitWriteEcho,  \* config.wait_write_echo
    SlowReceive,    \* recv_thread_timeout_ms may exceed the two seconds
    ConnectAnyTime, \* whether the application calls connect() when connected
    MaxCalls, MaxSessions, MaxEvents  \* model bounds

ASSUME KeyAssumption ==
    /\ Keys # {} /\ Reads \cup Writes \cup Unsolicited \subseteq Keys
    /\ NoThread \notin Threads

ASSUME ConfigAssumption ==
    /\ MaxRetries \in Nat
    /\ MaxQueue \in Nat \ {0}
    /\ {WaitWriteEcho, SlowReceive, ConnectAnyTime} \subseteq BOOLEAN

ASSUME BoundsAssumption ==
    {MaxCalls, MaxSessions, MaxEvents} \subseteq Nat

\* A frame at the host.  History: uid numbers the gripper's own frames (0 for
\* an answer), session the sessions of the transport in which it arrived.
Wire == [key : Keys, uid : Nat, session : Nat]
NoFrame == [key |-> CHOOSE k \in Keys : TRUE, uid |-> 0, session |-> 0]

VARIABLES
    callerPc,  \* where the application's thread is
    rx,        \* per receive thread: where it is, and its frame
    mine,      \* _recv_thread
    isOpen,    \* transport.ser, transport.bus: not None
    running,   \* _recv_running
    pending,   \* the key of _pending_frame as a set, {} for None
    response,  \* _pending_response as a set, {} for None
    done,      \* _pending_done
    attempt,   \* attempt, in transact (0 outside)
    request,   \* frame, in transact
    events,    \* _event_queue
    toDev,     \* keys of the frames on their way to the gripper
    toHost,    \* frames in the host's receive buffer
    result,    \* how the last request of the application ended
    \* history, and the counters the model's bounds are about
    calls,     \* requests made so far
    sent,      \* sends that returned, of the request transacted last
    session,   \* sessions of the transport closed so far
    owed,      \* uids of the gripper's frames the application may expect
    leftover,  \* a send raised and left _pending_frame set, since it was reset
    stray,     \* there has been a thread that disconnect() does not join
    used       \* sessions and events so far

callerVars == <<callerPc, attempt, request, result>>
rxVars     == <<rx, mine, running>>
pendVars   == <<pending, response, done>>
busVars    == <<isOpen, toDev, toHost>>
counters   == <<calls, sent, session, used>>
flags      == <<leftover, stray>>
vars == <<callerVars, rxVars, pendVars, busVars, events, counters, owed, flags>>

Limit == [sessions |-> MaxSessions, events |-> MaxEvents]
Spend(kind) ==
    /\ used[kind] < Limit[kind]
    /\ used' = [used EXCEPT ![kind] = @ + 1]

Alive == {t \in Threads : rx[t].pc # "none"}
Uids(s) == {s[i].uid : i \in DOMAIN s} \ {0}
InTransact == {"clear", "arm", "send", "wait", "take", "expire"}

Init ==
    /\ callerPc = "idle"
    /\ rx = [t \in Threads |-> [pc |-> "none", frame |-> NoFrame]]
    /\ mine = NoThread
    /\ isOpen = FALSE /\ running = FALSE
    /\ pending = {} /\ response = {} /\ done = FALSE
    /\ attempt = 0 /\ request = NoFrame.key
    /\ events = <<>> /\ toDev = <<>> /\ toHost = <<>>
    /\ result = [outcome |-> "none", request |-> NoFrame.key,
                 reply |-> NoFrame.key]
    /\ calls = 0 /\ sent = 0 /\ session = 0 /\ owed = {}
    /\ leftover = FALSE /\ stray = FALSE
    /\ used = [sessions |-> 0, events |-> 0]

-----------------------------------------------------------------------------
(* connect() and disconnect()                                              *)

\* transport.open(): a new port or bus, even if there is one already; what
\* the old one had buffered is gone with it.
ConnectOpen ==
    /\ callerPc = "idle" /\ (~ isOpen \/ ConnectAnyTime)
    /\ callerPc' = "drain"
    /\ isOpen' = TRUE
    /\ toHost' = <<>>
    /\ owed' = owed \ Uids(toHost)
    /\ Spend("sessions")
    /\ UNCHANGED <<attempt, request, result, rxVars, pendVars, toDev, events,
                   calls, sent, session, flags>>

\* A frame read and thrown away while draining.
DrainFrame ==
    /\ callerPc = "drain" /\ toHost # <<>>
    /\ toHost' = Tail(toHost)
    /\ UNCHANGED <<callerVars, rxVars, pendVars, isOpen, toDev, events,
                   counters, owed, flags>>

\* Only TimeoutError ends the drain quietly: anything else leaves connect()
\* with the transport open and no thread.
DrainFault ==
    /\ callerPc = "drain"
    /\ callerPc' = "idle"
    /\ UNCHANGED <<attempt, request, result, rxVars, pendVars, busVars, events,
                   counters, owed, flags>>

\* Nothing came for 10 ms: _recv_running is set and a thread started.  The
\* thread of an earlier connect() that still runs goes on running.
StartThread ==
    /\ callerPc = "drain" /\ toHost = <<>>
    /\ callerPc' = "idle"
    /\ running' = TRUE
    /\ \E t \in Threads \ Alive :
           /\ rx' = [rx EXCEPT ![t].pc = "check"]
           /\ mine' = t
    /\ stray' = (stray \/ Alive # {})
    /\ UNCHANGED <<attempt, request, result, pendVars, busVars, events,
                   counters, owed, leftover>>

\* disconnect (coalescing off: nothing to flush): _recv_running.clear().
DisconnectStop ==
    /\ callerPc = "idle"
    /\ callerPc' = "join"
    /\ running' = FALSE
    /\ UNCHANGED <<attempt, request, result, rx, mine, pendVars, busVars,
                   events, counters, owed, flags>>

\* The thread is not waited for.
JoinedBug == TRUE

\* join() returns: there is no thread or it has ended ...
Joined == mine \notin Alive

\* ... or the two seconds are over before a receive of the thread is.
JoinGivenUp == SlowReceive /\ mine \in Alive

\* The pending transaction is aborted and the transport closed, with what it
\* has buffered; the event queue stays.
DisconnectFinish ==
    /\ callerPc = "join"
    /\ \/ Joined /\ UNCHANGED stray
       \/ JoinGivenUp /\ stray' = TRUE
    /\ callerPc' = "idle"
    /\ mine' = NoThread
    /\ pending' = {} /\ leftover' = FALSE
    /\ isOpen' = FALSE /\ toHost' = <<>>
    /\ owed' = owed \ Uids(toHost)
    /\ session' = IF isOpen THEN session + 1 ELSE session
    /\ UNCHANGED <<attempt, request, result, rx, running, response, done,
                   toDev, events, calls, sent, used>>

-----------------------------------------------------------------------------
(* Requests of the application                                             *)

\* transact() is entered, connected or not.
Transact(k) ==
    /\ callerPc' = "clear"
    /\ request' = k /\ attempt' = 0
    /\ sent' = IF isOpen THEN 0 ELSE sent
    /\ UNCHANGED <<result, rxVars, pendVars, busVars, events, session, used,
                   owed, flags>>

Ended(outcome, k, reply) ==
    result' = [outcome |-> outcome, request |-> k, reply |-> reply]

\* _send_write_immediate without wait_write_echo: sent and forgotten ...
Post(k) ==
    /\ isOpen
    /\ toDev' = Append(toDev, k)
    /\ Ended("posted", k, NoFrame.key)
    /\ UNCHANGED <<callerPc, attempt, request, rxVars, pendVars, isOpen,
                   toHost, events, sent, session, used, owed, flags>>

\* A send() that raises has sent nothing, or all: the serial flush() raises
\* after the write().
MaybeSent(k) == toDev' = toDev \/ (isOpen /\ toDev' = Append(toDev, k))

\* ... unless send() raises, as it does when the transport is not open.
PostRaises(k) ==
    /\ MaybeSent(k)
    /\ Ended("transport", k, NoFrame.key)
    /\ UNCHANGED <<callerPc, attempt, request, rxVars, pendVars, isOpen,
                   toHost, events, sent, session, used, owed, flags>>

ReadRegister ==
    /\ callerPc = "idle" /\ calls < MaxCalls /\ calls' = calls + 1
    /\ \E k \in Reads : Transact(k)

SendWriteImmediate ==
    /\ callerPc = "idle" /\ calls < MaxCalls /\ calls' = calls + 1
    /\ \E k \in Writes :
           \/ WaitWriteEcho /\ Transact(k)
           \/ ~ WaitWriteEcho /\ (Post(k) \/ PostRaises(k))

-----------------------------------------------------------------------------
(* transact()                                                              *)

\* The flag of an earlier attempt is left as it is.
ClearBug ==
    /\ callerPc = "clear" /\ callerPc' = "arm"
    /\ UNCHANGED <<attempt, request, result, rxVars, pendVars, busVars, events,
                   counters, owed, flags>>

\* _interval() and _pending_done.clear(), without the lock.
Clear ==
    /\ callerPc = "clear"
    /\ callerPc' = "arm"
    /\ done' = FALSE
    /\ UNCHANGED <<attempt, request, result, rxVars, pending, response, busVars,
                   events, counters, owed, flags>>

\* Under _transact_lock: the request is pending and has no response.
Arm ==
    /\ callerPc = "arm"
    /\ callerPc' = "send"
    /\ pending' = {request}
    /\ response' = {}
    /\ UNCHANGED <<attempt, request, result, rxVars, done, busVars, events,
                   counters, owed, flags>>

\* transport.send(frame); the wait starts.
Send ==
    /\ callerPc = "send" /\ isOpen
    /\ callerPc' = "wait"
    /\ toDev' = Append(toDev, request)
    /\ sent' = sent + 1
    /\ UNCHANGED <<attempt, request, result, rxVars, pendVars, isOpen, toHost,
                   events, calls, session, used, owed, flags>>

\* One attempt too many.
AttemptsLeftBug == attempt =< MaxRetries

AttemptsLeft == attempt < MaxRetries

\* An attempt ended in TimeoutError or TransportError: after 50 ms the next
\* one, or the error is raised.
AttemptFails(outcome) ==
    IF AttemptsLeft
    THEN /\ callerPc' = "clear"
         /\ attempt' = attempt + 1
         /\ UNCHANGED result
    ELSE /\ callerPc' = "idle"
         /\ Ended(outcome, request, NoFrame.key)
         /\ attempt' = 0

\* send() raises TransportError, the transport being closed: it is caught and
\* tried again; _pending_frame stays set.
SendRefused ==
    /\ callerPc = "send" /\ ~ isOpen
    /\ AttemptFails("transport")
    /\ leftover' = TRUE
    /\ UNCHANGED <<request, rxVars, pendVars, busVars, events, counters, owed,
                   stray>>

\* send() of an open transport raises what pyserial or python-can do, which is
\* no RuntimeError: the call ends at once and _pending_frame stays set.
SendRaises ==
    /\ callerPc = "send" /\ isOpen
    /\ callerPc' = "idle" /\ attempt' = 0
    /\ MaybeSent(request)
    /\ Ended("transport", request, NoFrame.key)
    /\ leftover' = TRUE
    /\ UNCHANGED <<request, rxVars, pendVars, isOpen, toHost, events,
                   counters, owed, stray>>

\* _pending_done.wait() returns True, or False when its time is over.
Wait ==
    /\ callerPc = "wait"
    /\ callerPc' = IF done THEN "take" ELSE "expire"
    /\ UNCHANGED <<attempt, request, result, rxVars, pendVars, busVars, events,
                   counters, owed, flags>>

\* Under _transact_lock: the response is read and the pending frame reset.
Take ==
    /\ callerPc = "take" /\ response # {}
    /\ callerPc' = "idle" /\ attempt' = 0
    /\ pending' = {} /\ leftover' = FALSE
    /\ \E r \in response : Ended("ok", request, r.key)
    /\ UNCHANGED <<request, rxVars, response, done, busVars, events,
                   counters, owed, stray>>

\* The wait timed out, or there is no response although it did not.
Expire ==
    /\ callerPc = "expire" \/ (callerPc = "take" /\ response = {})
    /\ pending' = {} /\ leftover' = FALSE
    /\ AttemptFails("timeout")
    /\ UNCHANGED <<request, rxVars, response, done, busVars, events, counters,
                   owed, stray>>

-----------------------------------------------------------------------------
(* receive_event()                                                         *)

PopLeft ==
    /\ events # <<>>
    /\ events' = Tail(events)
    /\ owed' = owed \ {Head(events).uid}

\* The queue is not empty, or _event_cv was notified in time.  There is no
\* look at the transport: events of an earlier session may still be taken.
TakeEvent ==
    /\ callerPc \in {"idle", "waitevent"}
    /\ callerPc' = "idle"
    /\ PopLeft
    /\ UNCHANGED <<attempt, request, result, rxVars, pendVars, busVars,
                   counters, flags>>

\* The queue is empty: _event_cv.wait().
WaitForEvent ==
    /\ callerPc = "idle" /\ events = <<>>
    /\ callerPc' = "waitevent"
    /\ UNCHANGED <<attempt, request, result, rxVars, pendVars, busVars, events,
                   counters, owed, flags>>

\* The front is popped before the result of the wait is looked at.
WakeWithoutBug ==
    /\ callerPc = "waitevent" /\ callerPc' = "idle"
    /\ events' = IF events = <<>> THEN <<>> ELSE Tail(events)
    /\ UNCHANGED <<attempt, request, result, rxVars, pendVars, busVars,
                   counters, owed, flags>>

\* The wait timed out: None, also if a frame came just now, which stays.
WakeWithout ==
    /\ callerPc = "waitevent"
    /\ callerPc' = "idle"
    /\ UNCHANGED <<attempt, request, result, rxVars, pendVars, busVars, events,
                   counters, owed, flags>>

-----------------------------------------------------------------------------
(* _receive_loop(), in thread t                                            *)

RxCheck(t) ==
    /\ rx[t].pc = "check"
    /\ rx' = [rx EXCEPT ![t] =
                  IF running THEN [@ EXCEPT !.pc = "receive"]
                             ELSE [pc |-> "none", frame |-> NoFrame]]
    /\ UNCHANGED <<callerVars, mine, running, pendVars, busVars, events,
                   counters, owed, flags>>

RxReceive(t) ==
    /\ rx[t].pc = "receive" /\ toHost # <<>>
    /\ rx' = [rx EXCEPT ![t] = [pc |-> "match", frame |-> Head(toHost)]]
    /\ toHost' = Tail(toHost)
    /\ UNCHANGED <<callerVars, mine, running, pendVars, isOpen, toDev, events,
                   counters, owed, flags>>

\* Two threads read the bytes of one serial port by turns: the frame is torn
\* and neither of them finds it.
RxTear(t) ==
    /\ rx[t].pc = "receive" /\ toHost # <<>>
    /\ \E other \in Threads \ {t} : rx[other].pc = "receive"
    /\ toHost' = Tail(toHost)
    /\ owed' = owed \ {Head(toHost).uid}
    /\ UNCHANGED <<callerVars, rxVars, pendVars, isOpen, toDev, events,
                   counters, flags>>

\* receive() raises TimeoutError, or anything else (a closed transport is one
\* reason), which is swallowed after 10 ms.  The loop goes on.
RxRaises(t) ==
    /\ rx[t].pc = "receive"
    /\ rx' = [rx EXCEPT ![t].pc = "check"]
    /\ UNCHANGED <<callerVars, mine, running, pendVars, busVars, events,
                   counters, owed, flags>>

\* Any frame is taken for the answer.
MatchesBug(k) == pending # {}

\* _pending_frame is not None and _frame_matches.
Matches(k) == k \in pending

\* Under _transact_lock: a match becomes the response and sets the flag.
RxMatch(t) ==
    /\ rx[t].pc = "match"
    /\ IF Matches(rx[t].frame.key)
         THEN /\ response' = {rx[t].frame} /\ done' = TRUE
              /\ rx' = [rx EXCEPT ![t] = [pc |-> "check", frame |-> NoFrame]]
         ELSE /\ rx' = [rx EXCEPT ![t].pc = "enqueue"]
              /\ UNCHANGED <<response, done>>
    /\ UNCHANGED <<callerVars, mine, running, pending, busVars, events,
                   counters, owed, flags>>

\* Under _event_lock: appended, unless the queue is full.
RxEnqueue(t) ==
    /\ rx[t].pc = "enqueue"
    /\ rx' = [rx EXCEPT ![t] = [pc |-> "check", frame |-> NoFrame]]
    /\ IF Len(events) < MaxQueue
         THEN events' = Append(events, rx[t].frame) /\ UNCHANGED owed
         ELSE UNCHANGED events /\ owed' = owed \ {rx[t].frame.uid}
    /\ UNCHANGED <<callerVars, mine, running, pendVars, busVars, counters,
                   flags>>

-----------------------------------------------------------------------------
(* The bus and the gripper (external)                                      *)

Arrive(k, uid) ==
    toHost' = IF isOpen
                THEN Append(toHost, [key |-> k, uid |-> uid,
                                     session |-> session])
                ELSE toHost

\* The gripper carries out a command and answers it.
DeviceServe ==
    /\ toDev # <<>>
    /\ toDev' = Tail(toDev)
    /\ Arrive(Head(toDev), 0)
    /\ UNCHANGED <<callerVars, rxVars, pendVars, isOpen, events, counters,
                   owed, flags>>

\* A command or its answer is lost.
Lose ==
    /\ toDev # <<>>
    /\ toDev' = Tail(toDev)
    /\ UNCHANGED <<callerVars, rxVars, pendVars, isOpen, toHost, events,
                   counters, owed, flags>>

\* The gripper reports an event; what comes while draining is thrown away.
DeviceEvent ==
    /\ Spend("events")
    /\ \E k \in Unsolicited : Arrive(k, used'.events)
    /\ owed' = IF isOpen /\ callerPc # "drain"
                 THEN owed \cup {used'.events} ELSE owed
    /\ UNCHANGED <<callerVars, rxVars, pendVars, isOpen, toDev, events, calls,
                   sent, session, flags>>

-----------------------------------------------------------------------------
InCall == Clear \/ Arm \/ Send \/ SendRefused \/ SendRaises \/ Wait \/ Take
          \/ Expire

Session == ConnectOpen \/ DrainFrame \/ DrainFault \/ StartThread
           \/ DisconnectStop \/ DisconnectFinish

Events == TakeEvent \/ WaitForEvent \/ WakeWithout

Rx(t) == RxCheck(t) \/ RxReceive(t) \/ RxTear(t) \/ RxRaises(t) \/ RxMatch(t)
         \/ RxEnqueue(t)

Bus == DeviceServe \/ Lose \/ DeviceEvent

Next ==
    \/ ReadRegister \/ SendWriteImmediate
    \/ InCall \/ Session \/ Events \/ Bus
    \/ \E t \in Threads : Rx(t)

Spec == Init /\ [][Next]_vars

\* A call of transact() goes on: every wait of it has a deadline.  Nothing is
\* assumed of the receive threads, the bus or the gripper.
FairSpec == Spec /\ WF_vars(InCall)

-----------------------------------------------------------------------------
(* What must hold                                                          *)

\* Every variable has its type, and the queue its limit.
TypeOK ==
    /\ callerPc \in {"idle", "drain", "join", "waitevent"} \cup InTransact
    /\ rx \in [Threads -> [pc : {"none", "check", "receive", "match",
                                 "enqueue"}, frame : Wire]]
    /\ mine \in Threads \cup {NoThread}
    /\ {isOpen, running, done, leftover, stray} \subseteq BOOLEAN
    /\ pending \subseteq Keys /\ response \subseteq Wire
    /\ attempt \in 0 .. MaxRetries /\ request \in Keys
    /\ events \in Seq(Wire) /\ Len(events) =< MaxQueue
    /\ toDev \in Seq(Keys) /\ toHost \in Seq(Wire)
    /\ result \in [outcome : {"none", "ok", "posted", "timeout", "transport"},
                   request : Keys, reply : Keys]
    /\ {calls, sent, session} \subseteq Nat /\ owed \subseteq Nat
    /\ used \in [DOMAIN Limit -> Nat]

\* A frame the gripper sent of its own accord in a session is in the buffer,
\* in the hand of a thread or in the queue until receive_event() returns it,
\* also after the session ended and in the next one; only a full queue, the
\* buffer of a closed transport or two threads on one port lose it.
EventsKept ==
    Unsolicited \cap (Reads \cup Writes) = {}
        => owed \subseteq Uids(events) \cup Uids(toHost)
                          \cup {rx[t].frame.uid : t \in Threads}

\* A wait of transact() that was signalled finds an answer, unless the send
\* before raised and left its frame pending; and the answer has arrived in this
\* session, unless a thread was left that disconnect() did not wait for.
WokenWithAnswer ==
    callerPc = "take"
        => /\ ~ leftover => response # {}
           /\ ~ stray => \A r \in response : r.session = session

\* What TransactEngine promises as well: a caller of transact() sees one of
\* the endings of RequestPort, and sees it in the end.
Port == INSTANCE RequestPort WITH
    Frame   <- Keys,
    FrameMatches <- LAMBDA expected, received : expected = received,
    phase   <- IF ~ isOpen THEN "closed"
               ELSE IF callerPc \in InTransact THEN "busy" ELSE "ready",
    request <- IF isOpen /\ callerPc \in InTransact THEN request
                                                    ELSE result.request,
    tries   <- sent,
    outcome <- result.outcome,
    reply   <- result.reply

ImplementsPort == Port!FairSpec

-----------------------------------------------------------------------------
(* What the documents say and the code does not do                         *)

\* gripper.py:226, "timeout waiting for matching CAN frame": an attempt that
\* ends in this error has waited, so it does not end in it when the wait
\* returned because of an answer.
TimeoutMeansWaited == ~ (callerPc = "take" /\ response = {})

\* gripper.py:253, "the receive thread discards the echo".
EchoesDiscarded ==
    ~ WaitWriteEcho => \A i \in DOMAIN events : events[i].key \notin Writes
=============================================================================
