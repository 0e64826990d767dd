------------------------------- MODULE CanLink ------------------------------
(***************************************************************************)
(* SocketCanTransport and PcanBasicTransport (C++): send() onto the bus,   *)
(* and receive() from a queue of CAN frames that the kernel or the PCAN    *)
(* driver fills from it.                                                   *)
(*                                                                         *)
(* SocketCAN waits in poll() and then reads one frame; PCAN-Basic looks    *)
(* into the queue every millisecond until its deadline.  Both refuse a     *)
(* frame that has not eight bytes and cut the id to the eleven bits of a   *)
(* standard frame, and from_can to eight.  Nothing filters the bus: what   *)
(* other stations send arrives too.                                        *)
(*                                                                         *)
(* receive() is called again by receive_loop whatever it ended in.  That   *)
(* it may also throw TransportError changes none of these variables.       *)
(***************************************************************************)
EXTENDS FrameCodec

CONSTANTS
    Frames,     \* what the driver and the gripper send
    Foreign,    \* other frames on the bus: [can_id, data, dlc]
    QueueSize,  \* of the kernel or the driver
    MaxFrames   \* model bound

ASSUME FramesAssumption ==
    /\ Frames \subseteq Frame
    /\ Foreign \subseteq [can_id : Nat, data : CanData, dlc : 0 .. 8]

ASSUME SizeAssumption == QueueSize \in Nat \ {0} /\ MaxFrames \in Nat

VARIABLES
    kind,      \* "socketcan", "pcanbasic"
    wire,      \* commands the gripper has still to echo, and their frames
    queue,     \* raw frames and their numbers on the bus
    pc,        \* of receive(): "idle", "poll", "read", or "loop" and "sleep"
    \* history
    sent,      \* the frames on the bus, as the driver can see them
    received,  \* the frames receive() returned
    refused,   \* how many it refused
    overflows  \* how many found the queue full

vars == <<kind, wire, queue, pc, sent, received, refused, overflows>>

Init ==
    /\ kind \in {"socketcan", "pcanbasic"}
    /\ wire = <<>> /\ queue = <<>> /\ pc = "idle"
    /\ sent = <<>> /\ received = <<>> /\ refused = 0 /\ overflows = 0

-----------------------------------------------------------------------------
(* The bus (external)                                                      *)

\* A frame reaches the queue, or finds it full.
Put(raw) ==
    /\ IF Len(queue) < QueueSize
       THEN /\ queue' = Append(queue, [no |-> Len(sent) + 1, raw |-> raw])
            /\ UNCHANGED overflows
       ELSE overflows' = overflows + 1 /\ UNCHANGED queue
    /\ UNCHANGED <<kind, pc, received, refused>>

Room == Len(wire) + Len(sent) < MaxFrames

\* The gripper sends a frame of its own.
GripperSends ==
    /\ Room
    /\ \E f \in Frames : Put(to_can(f)) /\ sent' = Append(sent, f)
    /\ UNCHANGED wire

\* The gripper sends a command back as it came.
GripperEchoes ==
    /\ wire # <<>>
    /\ Put(Head(wire).raw) /\ sent' = Append(sent, Head(wire).frame)
    /\ wire' = Tail(wire)

\* What a frame of another station says, read as one of a gripper.
Read(raw) ==
    [id |-> (raw.can_id % 2048) % 256,
     function |-> raw.data[1], sub_function |-> raw.data[2],
     rw |-> raw.data[3], reserve |-> raw.data[4],
     value |-> bytes_to_value(raw.data[5], raw.data[6], raw.data[7],
                              raw.data[8])]

OtherSends ==
    /\ Room
    /\ \E raw \in Foreign : Put(raw) /\ sent' = Append(sent, Read(raw))
    /\ UNCHANGED wire

-----------------------------------------------------------------------------
(* send(): a standard frame of eight bytes.  A write that fails puts       *)
(* nothing on the bus and changes nothing.                                 *)

Raw(f) == [can_id |-> to_can(f).can_id % 2048, data |-> to_can(f).data,
           dlc |-> 8]

Send ==
    /\ Room
    /\ \E f \in Frames : wire' = Append(wire, [raw |-> Raw(f), frame |-> f])
    /\ UNCHANGED <<kind, queue, pc, sent, received, refused, overflows>>

-----------------------------------------------------------------------------
(* receive().  Definitions named ...Bug are deliberate errors that stand   *)
(* in for the one below them in the mutation runs.                         *)

Call ==
    /\ pc = "idle"
    /\ pc' = IF kind = "socketcan" THEN "poll" ELSE "loop"
    /\ UNCHANGED <<kind, wire, queue, sent, received, refused, overflows>>

\* Leave receive() without a frame.
TimesOut ==
    /\ pc' = "idle"
    /\ UNCHANGED <<kind, wire, queue, sent, received, refused, overflows>>

\* poll() returns 0, or 1.
PollTimeout == pc = "poll" /\ queue = <<>> /\ TimesOut

PollReady ==
    /\ pc = "poll" /\ queue # <<>>
    /\ pc' = "read"
    /\ UNCHANGED <<kind, wire, queue, sent, received, refused, overflows>>

\* while (now < deadline) ends: it may do so before the first look.
LoopTimeout == pc = "loop" /\ TimesOut

\* PCAN_ERROR_QRCVEMPTY: sleep for a millisecond and look again.
LoopEmpty ==
    /\ pc = "loop" /\ queue = <<>>
    /\ pc' = "sleep"
    /\ UNCHANGED <<kind, wire, queue, sent, received, refused, overflows>>

LoopAgain ==
    /\ pc = "sleep"
    /\ pc' = "loop"
    /\ UNCHANGED <<kind, wire, queue, sent, received, refused, overflows>>

\* ::read and CAN_Read take one frame.
Rest == Tail(queue)

Returned(entry) ==
    [no |-> entry.no,
     payload |-> from_can(entry.raw.can_id % 2048, entry.raw.data)]

\* ::read after poll, or CAN_Read.
Take ==
    /\ pc \in {"read", "loop"} /\ queue # <<>>
    /\ pc' = "idle"
    /\ queue' = Rest
    /\ IF Head(queue).raw.dlc = 8
       THEN /\ received' = Append(received, Returned(Head(queue)))
            /\ UNCHANGED refused
       ELSE /\ refused' = refused + 1
            /\ UNCHANGED received
    /\ UNCHANGED <<kind, wire, sent, overflows>>

Receive == \/ Call \/ PollTimeout \/ PollReady
           \/ LoopTimeout \/ LoopEmpty \/ LoopAgain \/ Take

Next == GripperSends \/ GripperEchoes \/ OtherSends \/ Send \/ Receive

Spec == Init /\ [][Next]_vars

-----------------------------------------------------------------------------
(* What must hold                                                          *)

\* No frame is lost by a timeout, whenever it comes, nor by its neighbours:
\* each that was on the bus was returned, is still in the queue, was refused
\* for its length or found the queue full.
NothingElseLost ==
    Len(sent) = Len(received) + Len(queue) + refused + overflows

Visible == Frames \cup {Read(raw) : raw \in Foreign}

Link == INSTANCE LossyLink WITH Payloads <- Visible

\* receive() is a link: it returns what the gripper meant, value and all,
\* each frame once and in order; those it loses are the refused ones and
\* those that overflow the queue.
ImplementsLink == Link!Spec
=============================================================================
