----------------------------- MODULE SerialLine -----------------------------
(***************************************************************************)
(* The serial port under time: how a command is paced and handed over byte *)
(* by byte (enforce_interval, OfficialSerialTransport::send, write_all,    *)
(* drain_write), and how receive waits for bytes until its deadline        *)
(* (receive, read_some).  SerialFraming says what is made of the bytes.    *)
(*                                                                         *)
(* The application's thread sends, the receive thread reads; they share    *)
(* the port and the clock.  Time passes between any two steps of a thread, *)
(* so also between two readings of the clock: that is what the deadline    *)
(* arithmetic has to survive.  A duration is a number of ticks since or    *)
(* until; those that no longer matter stop counting at Cap and MaxLate.    *)
(*                                                                         *)
(* The two branches of serial_port.cpp differ: poll() and partial writes   *)
(* on POSIX, a loop over ReadFile and one WriteFile on Windows.            *)
(***************************************************************************)
EXTENDS Integers, Sequences

CONSTANTS
    Platforms,  \* the branches of serial_port.cpp to consider
    FrameSize,  \* bytes of a frame
    HeaderSize, \* bytes of its header
    Room,       \* bytes the operating system buffers on their way out
    Timeout,    \* the timeout receive() is called with
    Interval,   \* config_.command_interval
    Cap, MaxLate, MaxInput  \* model bounds

ASSUME PlatformAssumption == Platforms \subseteq {"posix", "windows"}

ASSUME SizeAssumption ==
    /\ FrameSize \in Nat \ {0} /\ Room \in Nat \ {0}
    /\ HeaderSize \in 1 .. FrameSize - 1
    /\ Timeout \in Nat \ {0} /\ Interval \in Nat
    /\ Cap \in Nat /\ Interval =< Cap
    /\ MaxLate \in Nat \ {0} /\ MaxInput \in Nat

VARIABLES
    platform,  \* which branch of the #ifdef is compiled
    plugged,   \* the adapter is there (external)
    txPc,      \* the sender: "idle", "pace", "write", "short", "drain"
    age,       \* ticks since last_command_time_
    out,       \* write_all: the indices of the bytes handed over so far
    queued,    \* bytes the operating system has not transmitted yet
    rxPc,      \* receive(): "idle", "check", "remain", "poll"
    left,      \* deadline - now, negative when the deadline has passed
    wait,      \* what is left of the timeout read_some was called with
    pos,       \* pos, in receive()
    arrived,   \* bytes that arrived and were not read
    \* history
    frameAge,  \* ticks since the first byte of the last frame
    lag        \* ticks from that frame's last_command_time_ to its first byte

txVars == <<txPc, age, out, queued>>
rxVars == <<rxPc, left, wait, pos>>
hist   == <<frameAge, lag>>
vars   == <<platform, plugged, txVars, rxVars, arrived, hist>>

Init ==
    /\ platform \in Platforms /\ plugged = TRUE
    /\ txPc = "idle" /\ age = Interval /\ out = <<>> /\ queued = 0
    /\ rxPc = "idle" /\ left = 0 /\ wait = 0 /\ pos = 0
    /\ arrived = 0
    /\ frameAge = Cap /\ lag = 0

-----------------------------------------------------------------------------
(* Sending.  Definitions named ...Bug are deliberate errors that stand in  *)
(* for the one below them in the mutation runs.                            *)

\* enforce_interval, then transport_->send.
Command ==
    /\ txPc = "idle"
    /\ txPc' = "pace"
    /\ UNCHANGED <<platform, plugged, age, out, queued, rxVars, arrived, hist>>

\* The rounding of the sleep is forgotten.
SleptBug == age >= Interval - 1

\* elapsed < command_interval: sleep for the rest.
Slept == age >= Interval

\* enforce_interval takes the time stamp before the frame is sent.
EnforceInterval ==
    /\ txPc = "pace" /\ Slept
    /\ age' = 0
    /\ txPc' = "write"
    /\ UNCHANGED <<platform, plugged, out, queued, rxVars, arrived, hist>>

Smaller(a, b) == IF a < b THEN a ELSE b

\* Every write() starts at the beginning of the frame.
BytesBug(n) == [i \in 1 .. Len(out) + n |->
                   IF i =< Len(out) THEN out[i] ELSE i - Len(out)]

\* data + total, n bytes of it, after those that are out already.
Bytes(n) == [i \in 1 .. Len(out) + n |-> IF i =< Len(out) THEN out[i] ELSE i]

\* The first byte of a frame is handed over.
Begins == out = <<>> /\ out' # <<>>

\* The operating system takes n more bytes.
HandOver(n) ==
    /\ out' = Bytes(n)
    /\ IF out = <<>>
       THEN frameAge' = 0 /\ lag' = age
       ELSE UNCHANGED hist

\* write_all waits for room for all that is left of the frame.
AcceptedBug == IF Room - queued >= FrameSize - Len(out)
               THEN FrameSize - Len(out) ELSE 0

\* What ::write accepts; 0 is EAGAIN, and the loop sleeps and tries again.
Accepted == Smaller(Room - queued, FrameSize - Len(out))

\* One ::write of the loop, which may accept a part of the rest.
WriteSome ==
    /\ platform = "posix" /\ txPc = "write" /\ plugged
    /\ Accepted > 0
    /\ HandOver(Accepted)
    /\ queued' = queued + Accepted
    /\ txPc' = IF Len(out) + Accepted = FrameSize THEN "drain" ELSE "write"
    /\ UNCHANGED <<platform, plugged, age, rxVars, arrived>>

\* One WriteFile: all of the frame, or a part of it when its second is over;
\* the line has been transmitting all the while.
WriteFile ==
    /\ platform = "windows" /\ txPc = "write" /\ plugged
    /\ \E n \in 0 .. FrameSize :
        /\ IF n > 0 THEN HandOver(n) ELSE UNCHANGED <<out, hist>>
        /\ queued' = Smaller(Room, queued + n)
        /\ txPc' = IF n = FrameSize THEN "drain" ELSE "short"
    /\ UNCHANGED <<platform, plugged, age, rxVars, arrived>>

\* written != size: an exception.
ShortWrite ==
    /\ txPc = "short"
    /\ txPc' = "idle" /\ out' = <<>>
    /\ UNCHANGED <<platform, plugged, age, queued, rxVars, arrived, hist>>

WriteFault ==
    /\ txPc = "write" /\ ~ plugged
    /\ txPc' = "idle" /\ out' = <<>>
    /\ UNCHANGED <<platform, plugged, age, queued, rxVars, arrived, hist>>

\* drain_write returns when all is transmitted; errors of it are ignored.
DrainWrite ==
    /\ txPc = "drain" /\ (queued = 0 \/ ~ plugged)
    /\ txPc' = "idle" /\ out' = <<>>
    /\ UNCHANGED <<platform, plugged, age, queued, rxVars, arrived, hist>>

-----------------------------------------------------------------------------
(* Receiving                                                               *)

RxFrame == <<platform, plugged, txVars, arrived, hist>>

Call ==
    /\ rxPc = "idle"
    /\ rxPc' = "check"
    /\ left' = Timeout /\ pos' = 0
    /\ UNCHANGED <<wait, RxFrame>>

\* The call returns a frame or throws.
Leave == rxPc' = "idle" /\ left' = 0 /\ wait' = 0 /\ pos' = 0

\* while (now < deadline); after the loop TimeoutError.
CheckDeadline ==
    /\ rxPc = "check"
    /\ IF left > 0
       THEN rxPc' = "remain" /\ UNCHANGED <<left, wait, pos>>
       ELSE Leave
    /\ UNCHANGED RxFrame

\* remain = deadline - now, with a later now.
Remain ==
    /\ rxPc = "remain"
    /\ rxPc' = "poll" /\ wait' = left
    /\ UNCHANGED <<left, pos, RxFrame>>

\* read_some may look for bytes: poll() at any time, the loop over ReadFile
\* only until its own deadline.
MayRead == platform = "posix" \/ wait > 0

\* One byte too many is put into the frame.
FullBug == pos = FrameSize

\* pos reaches the size of the frame.
Full == pos + 1 = FrameSize

\* Where a byte that does not fill the frame leads: in the header to the
\* next place if it is the one expected there, else back to the beginning,
\* or behind the first byte if it is that one.
NextPos == IF pos < HeaderSize THEN {pos + 1, 0, 1} ELSE {pos + 1}

\* Every byte gets the time of a whole call.
LeftAfterByteBug == Timeout

\* The deadline was set when the call began and stays.
LeftAfterByte == left

\* read_some returns a byte.
ReadByte ==
    /\ rxPc = "poll" /\ arrived > 0 /\ MayRead
    /\ arrived' = arrived - 1
    /\ IF Full
       THEN Leave
       ELSE /\ rxPc' = "check" /\ pos' \in NextPos /\ wait' = 0
            /\ left' = LeftAfterByte
    /\ UNCHANGED <<platform, plugged, txVars, hist>>

\* poll() with a negative timeout waits for ever; the loop over ReadFile is
\* not entered.
PollEnds ==
    IF platform = "posix" THEN wait = 0 /\ arrived = 0 ELSE wait =< 0

\* read_some returns no byte: its time is over, or the adapter is gone, which
\* poll() reports and read() answers with end of file: continue.
ReadNothing ==
    /\ rxPc = "poll"
    /\ PollEnds \/ (platform = "posix" /\ ~ plugged /\ arrived = 0)
    /\ rxPc' = "check" /\ wait' = 0
    /\ UNCHANGED <<left, pos, RxFrame>>

\* read_some throws.
ReadFault ==
    /\ rxPc = "poll" /\ ~ plugged
    /\ Leave
    /\ UNCHANGED RxFrame

-----------------------------------------------------------------------------
(* The clock and the line (external)                                       *)

Later(d) == IF d < Cap THEN d + 1 ELSE d

Tick ==
    /\ age' = Later(age) /\ frameAge' = Later(frameAge)
    /\ left' = IF rxPc # "idle" /\ left > - MaxLate THEN left - 1 ELSE left
    /\ wait' = IF wait > 0 THEN wait - 1 ELSE wait
    /\ UNCHANGED <<platform, plugged, txPc, out, queued, rxPc, pos,
                   arrived, lag>>

Transmit ==
    /\ plugged /\ queued > 0
    /\ queued' = queued - 1
    /\ UNCHANGED <<platform, plugged, txPc, age, out, rxVars, arrived, hist>>

Arrive ==
    /\ plugged /\ arrived < MaxInput
    /\ arrived' = arrived + 1
    /\ UNCHANGED <<platform, plugged, txVars, rxVars, hist>>

Unplug ==
    /\ plugged
    /\ plugged' = FALSE
    /\ UNCHANGED <<platform, txVars, rxVars, arrived, hist>>

-----------------------------------------------------------------------------
Send ==
    \/ EnforceInterval \/ WriteSome \/ WriteFile
    \/ ShortWrite \/ WriteFault \/ DrainWrite

Receive == CheckDeadline \/ Remain \/ ReadByte \/ ReadNothing \/ ReadFault

Next ==
    \/ Command \/ Send
    \/ Call \/ Receive
    \/ Tick \/ Transmit \/ Arrive \/ Unplug

Spec == Init /\ [][Next]_vars

\* A thread in a call is scheduled again, time passes, and the adapter goes
\* on transmitting, there being no flow control (serial_port.cpp:75, 116).
FairSpec ==
    /\ Spec
    /\ WF_vars(Send) /\ WF_vars(Receive)
    /\ WF_vars(Tick) /\ WF_vars(Transmit)

-----------------------------------------------------------------------------
(* What must hold                                                          *)

\* Every variable has its type; a receive() that is over holds nothing.
TypeOK ==
    /\ platform \in {"posix", "windows"} /\ plugged \in BOOLEAN
    /\ txPc \in {"idle", "pace", "write", "short", "drain"}
    /\ age \in 0 .. Cap /\ frameAge \in 0 .. Cap /\ lag \in 0 .. Cap
    /\ out \in Seq(1 .. FrameSize) /\ queued \in 0 .. Room
    /\ rxPc \in {"idle", "check", "remain", "poll"}
    /\ left \in - MaxLate .. Timeout /\ wait \in - MaxLate .. Timeout
    /\ pos \in 0 .. FrameSize - 1 /\ arrived \in 0 .. MaxInput
    /\ rxPc = "idle" => left = 0 /\ wait = 0 /\ pos = 0

\* However many pieces ::write takes it in, a frame whose send() goes on to
\* drain_write was handed over whole, each byte once and in order.
FramesWhole == txPc = "drain" => out = [i \in 1 .. FrameSize |-> i]

\* From the first byte of a frame to that of the next passes the command
\* interval, less at most the time the earlier frame took from its
\* last_command_time_ to its first byte: enforce_interval is fair to the
\* gripper only as far as sending is prompt.
FramesSpaced == [][Begins => frameAge + lag >= Interval]_vars

\* A call of receive() ends, also one that noise keeps busy without ever
\* completing a header, unless it computed a negative time that remains and
\* waits in poll() (see ReceiveReturns).
ReceiveInTime ==
    (rxPc # "idle") ~>
        \/ rxPc = "idle"
        \/ platform = "posix" /\ rxPc = "poll" /\ wait < 0

\* A command is sent or ends in an exception, however often the operating
\* system takes only a part of it.
SendReturns == (txPc # "idle") ~> (txPc = "idle")

\* The calls of both threads end, each whatever the other does on the port.
CallsEnd == ReceiveInTime /\ SendReturns

-----------------------------------------------------------------------------
(* What the documents say and the code does not do                         *)

\* config.hpp:85, "Poll timeout for the background receive thread": receive()
\* returns when its timeout is over, whatever arrives.
ReceiveReturns == (rxPc # "idle") ~> (rxPc = "idle")
=============================================================================
