---------------------------- MODULE SerialFraming ---------------------------
(***************************************************************************)
(* OfficialSerialTransport::receive (C++; the Python transport does the    *)
(* same): frames are found in a stream of bytes by their header, cut out   *)
(* by their size and accepted by their footer.                             *)
(*                                                                         *)
(* One call of receive() reads byte by byte until a frame is complete or   *)
(* its deadline has passed.  The partial frame is a local variable: a      *)
(* deadline in the middle of a frame discards it, and the next call starts *)
(* with what is left of it on the line.                                    *)
(*                                                                         *)
(* A frame is the header, PayloadSize bytes (the id and the eight bytes of *)
(* the CAN frame) and the footer.  The line loses bytes but does not       *)
(* change them: the format has no checksum.                                *)
(***************************************************************************)
EXTENDS Integers, Sequences, FiniteSets

CONSTANTS
    Bytes,
    Header,       \* FF FE FD FC
    Footer,       \* FB
    PayloadSize,  \* 9
    Payloads,     \* what the gripper may send between header and footer
    MaxGap,       \* bytes the line loses within one frame or header
    MaxFrames, MaxLosses, MaxSplits  \* model bounds

ASSUME FormatAssumption ==
    /\ Header \in Seq(Bytes) /\ Len(Header) > 1
    /\ \A i, j \in DOMAIN Header : Header[i] = Header[j] => i = j
    /\ Footer \in Bytes /\ \A i \in DOMAIN Header : Header[i] # Footer
    /\ PayloadSize \in Nat \ {0}
    /\ Payloads \subseteq [1 .. PayloadSize -> Bytes]

ASSUME BoundsAssumption ==
    {MaxGap, MaxFrames, MaxLosses, MaxSplits} \subseteq Nat

FrameSize == Len(Header) + PayloadSize + 1

\* A byte on the line.  History: the number of the frame it belongs to and
\* its place in it.
LineByte == [byte : Bytes, no : Nat, at : Nat]

VARIABLES
    line,      \* bytes on their way to receive()
    reading,   \* whether a call of receive() is under way
    buf,       \* buf[0 .. pos - 1] of that call
    heard,     \* history: the bytes that call has read
    sent,      \* history: the frames the gripper sent
    received,  \* history: the frames receive() returned
    gap,       \* history: bytes lost since the last byte of the header in buf
    losses,    \* history: bytes lost on the line
    splits     \* history: partial frames discarded by a deadline

vars == <<line, reading, buf, heard, sent, received, gap, losses, splits>>

Init ==
    /\ line = <<>> /\ reading = FALSE /\ buf = <<>> /\ heard = <<>>
    /\ sent = <<>> /\ received = <<>> /\ gap = 0 /\ losses = 0 /\ splits = 0

-----------------------------------------------------------------------------
(* The line (external)                                                     *)

\* to_official_serial: header, payload, footer.
Encode(p) == Header \o p \o <<Footer>>

SendFrame ==
    /\ Len(sent) < MaxFrames
    /\ \E p \in Payloads :
           /\ sent' = Append(sent, p)
           /\ line' = line \o
                [i \in 1 .. FrameSize |->
                    [byte |-> Encode(p)[i], no |-> Len(sent) + 1, at |-> i]]
    /\ UNCHANGED <<reading, buf, heard, received, gap, losses, splits>>

LoseByte ==
    /\ line # <<>> /\ losses < MaxLosses
    /\ line' = Tail(line)
    /\ losses' = losses + 1
    /\ IF buf = <<>> THEN UNCHANGED gap ELSE gap < MaxGap /\ gap' = gap + 1
    /\ UNCHANGED <<reading, buf, heard, sent, received, splits>>

-----------------------------------------------------------------------------
(* receive()                                                               *)
(* Definitions named ...Bug are deliberate errors that stand in for the    *)
(* one below them in the mutation runs; nothing else uses them.            *)

Call ==
    /\ ~ reading
    /\ reading' = TRUE
    /\ UNCHANGED <<line, buf, heard, sent, received, gap, losses, splits>>

\* The local variables go with the call.
Leave == reading' = FALSE /\ buf' = <<>> /\ heard' = <<>> /\ gap' = 0

\* The deadline is looked at before every byte; TimeoutError.
Deadline ==
    /\ reading
    /\ Leave
    /\ IF buf = <<>>
         THEN UNCHANGED splits
         ELSE splits < MaxSplits /\ splits' = splits + 1
    /\ UNCHANGED <<line, sent, received, losses>>

\* read_some(1): the next byte of the line.
ReadByte == reading /\ line # <<>> /\ line' = Tail(line)

InHeader == Len(buf) < Len(Header)

\* A byte that does not go on with the header is thrown away.
RestartBug(b) == <<>>

\* A byte that does not go on with the header may begin another one.
Restart(b) == IF b.byte = Header[1] THEN <<b>> ELSE <<>>

Scan ==
    /\ ReadByte /\ InHeader
    /\ buf' = IF Head(line).byte = Header[Len(buf) + 1]
                THEN Append(buf, Head(line))
                ELSE Restart(Head(line))
    /\ heard' = Append(heard, Head(line)) /\ gap' = 0
    /\ UNCHANGED <<reading, sent, received, losses, splits>>

\* One byte too many.
CompleteBug == Len(buf) = FrameSize

\* The next byte completes the frame.
Complete == Len(buf) + 1 = FrameSize

Collect ==
    /\ ReadByte /\ ~ InHeader /\ ~ Complete
    /\ buf' = Append(buf, Head(line))
    /\ heard' = Append(heard, Head(line))
    /\ UNCHANGED <<reading, sent, received, gap, losses, splits>>

\* The footer is not looked at.
FooterOkBug(b) == TRUE

FooterOk(b) == b.byte = Footer

\* What the frame is made of, and the number of the frame its last byte
\* belongs to.
Decoded(b) ==
    [no |-> b.no,
     payload |-> [i \in 1 .. PayloadSize |-> buf[Len(Header) + i].byte]]

\* from_official_serial accepts the frame.
Accept ==
    /\ ReadByte /\ ~ InHeader /\ Complete
    /\ FooterOk(Head(line))
    /\ received' = Append(received, Decoded(Head(line)))
    /\ Leave
    /\ UNCHANGED <<sent, losses, splits>>

\* The port is flushed after a bad frame.
RefuseBug ==
    /\ reading /\ line # <<>> /\ ~ InHeader /\ Complete
    /\ ~ FooterOk(Head(line))
    /\ line' = <<>>
    /\ Leave
    /\ UNCHANGED <<sent, received, losses, splits>>

\* from_official_serial throws ProtocolError.
Refuse ==
    /\ ReadByte /\ ~ InHeader /\ Complete
    /\ ~ FooterOk(Head(line))
    /\ Leave
    /\ UNCHANGED <<sent, received, losses, splits>>

Receive == Call \/ Deadline \/ Scan \/ Collect \/ Accept \/ Refuse

Next == SendFrame \/ LoseByte \/ Receive

Spec == Init /\ [][Next]_vars

-----------------------------------------------------------------------------
(* What must hold                                                          *)

\* Every variable has its type; buf begins like a header and is never full.
TypeOK ==
    /\ line \in Seq(LineByte) /\ heard \in Seq(LineByte)
    /\ buf \in Seq(LineByte) /\ Len(buf) < FrameSize
    /\ \A i \in DOMAIN buf \cap DOMAIN Header : buf[i].byte = Header[i]
    /\ reading \in BOOLEAN
    /\ sent \in Seq(Payloads)
    /\ received \in Seq([no : Nat, payload : [1 .. PayloadSize -> Bytes]])
    /\ gap \in Nat /\ losses \in Nat /\ splits \in Nat

\* The last n bytes of heard are the first n of the header.
EndsLikeHeader(n) ==
    /\ n =< Len(heard)
    /\ \A i \in 1 .. n : heard[Len(heard) - n + i].byte = Header[i]

\* While receive() looks for a header, pos is the longest beginning of a
\* header that ends what it has read: no header is ever read over, whatever
\* noise, half frame or half header comes before it.
HeaderNeverMissed ==
    reading /\ InHeader =>
        /\ EndsLikeHeader(Len(buf))
        /\ \A n \in 0 .. Len(Header) : EndsLikeHeader(n) => n =< Len(buf)

\* The last two bytes of a header are nowhere in a frame but in its header,
\* not even with n bytes missing between them.
HeaderUnique(n) ==
    \A p \in Payloads, i, j \in 1 .. FrameSize :
        /\ i < j /\ j =< i + 1 + n
        /\ Encode(p)[i] = Header[Len(Header) - 1]
        /\ Encode(p)[j] = Header[Len(Header)]
        => j = Len(Header)

\* No payload holds the last two bytes of a header next to each other.
PayloadsClean == HeaderUnique(0)

\* The frames nothing of which is on the line or in the buffer any more.
InFlight == {line[i].no : i \in DOMAIN line} \cup
            {buf[i].no : i \in DOMAIN buf}
Passed == {n \in DOMAIN sent : n \notin InFlight}

\* A lost byte costs two frames at most, and a deadline in the middle of a
\* frame one: after any damage the receiver finds its way back by itself.
DamageBounded ==
    PayloadsClean =>
        Cardinality(Passed) =< Len(received) + 2 * losses + splits

Link == INSTANCE LossyLink

\* As long as no more bytes are lost within one frame than a header has,
\* receive() never makes a frame of the pieces of two: it is a link that
\* loses frames.
ImplementsLink == Link!Spec

-----------------------------------------------------------------------------
(* What the documents say and the code does not do                         *)

\* README.md:19, unsolicited frames are "never lost": with no byte lost
\* every frame that has passed was received.
NoFrameLost == losses = 0 => Cardinality(Passed) =< Len(received)
=============================================================================
