-------------------------- MODULE SerialLineProofs --------------------------
(***************************************************************************)
(* Proofs about SerialLine: that a frame is handed over whole, and that    *)
(* frames are spaced, for every size of a frame and of the buffer of the   *)
(* operating system, every interval and every interleaving of the clock    *)
(* with the two threads.                                                   *)
(*                                                                         *)
(* Neither is inductive.  FramesWhole needs what write_all has handed over *)
(* in the middle of a frame (Pieces); FramesSpaced needs how the three     *)
(* durations are related at any time (Paced): the time stamp is never      *)
(* older than the last frame and its lag together.                         *)
(***************************************************************************)
EXTENDS SerialLine, TLAPS, SequenceTheorems

\* The first k bytes of a frame.
First(k) == [i \in 1 .. k |-> i]

\* A row of first bytes is a sequence of that length.
LEMMA FirstIsSeq ==
    ASSUME NEW k \in Nat
    PROVE  /\ k =< FrameSize => First(k) \in Seq(1 .. FrameSize)
           /\ Len(First(k)) = k
           /\ First(k) = <<>> <=> k = 0
<1>1. k =< FrameSize => First(k) \in Seq(1 .. FrameSize)
  BY SMT, SizeAssumption DEF First
<1>2. Len(First(k)) = k
  BY SMT DEF First
<1>3. First(k) = <<>> <=> k = 0
  BY SMT DEF First
<1> QED BY <1>1, <1>2, <1>3

\* Not smaller than one that is not smaller is not smaller.
LEMMA NoSmaller ==
    ASSUME NEW a \in Int, NEW b \in Int, NEW c \in Int, a >= b, b >= c
    PROVE  a >= c
BY SMT

\* What is out is the beginning of the frame: nothing before a frame, all of
\* it when it is over, and on Windows nothing before the one WriteFile.
Pieces ==
    /\ Len(out) \in 0 .. FrameSize /\ out = First(Len(out))
    /\ txPc \in {"idle", "pace"} => out = <<>>
    /\ txPc = "drain" => Len(out) = FrameSize
    /\ platform = "windows" /\ txPc = "write" => out = <<>>

\* The time stamp is taken when the command before is an interval ago.
Paced ==
    /\ age =< frameAge + lag
    /\ txPc = "write" /\ out = <<>> => frameAge + lag >= Interval

IInv == TypeOK /\ Pieces /\ Paced

\* Handing n bytes over leaves the beginning of the frame, n bytes longer.
LEMMA HandedOver ==
    ASSUME IInv, NEW n \in Nat, HandOver(n), Len(out) + n =< FrameSize
    PROVE  /\ out' = First(Len(out) + n) /\ Len(out') = Len(out) + n
           /\ out' \in Seq(1 .. FrameSize)
           /\ Len(out') \in 0 .. FrameSize /\ out' = First(Len(out'))
<1>1. Len(out) \in Nat /\ out = First(Len(out)) /\ FrameSize \in Nat
  BY SMT, SizeAssumption DEF IInv, Pieces
<1>2. Len(out) + n \in Nat /\ Len(out) + n \in 0 .. FrameSize
  BY SMT, <1>1
<1>3. out' = First(Len(out) + n)
  BY SMT, <1>1 DEF HandOver, Bytes, First
<1>4. Len(out') = Len(out) + n /\ out' \in Seq(1 .. FrameSize)
  BY <1>2, <1>3, FirstIsSeq
<1> QED BY <1>2, <1>3, <1>4

\* The durations after bytes were handed over.
LEMMA HandedInTime ==
    ASSUME IInv, NEW n \in Nat \ {0}, HandOver(n), age' = age,
           Len(out) + n =< FrameSize
    PROVE  /\ frameAge' \in 0 .. Cap /\ lag' \in 0 .. Cap
           /\ age' =< frameAge' + lag' /\ out' # <<>>
<1>1. /\ age \in 0 .. Cap /\ frameAge \in 0 .. Cap /\ lag \in 0 .. Cap
      /\ age =< frameAge + lag /\ Cap \in Nat
  BY SizeAssumption DEF IInv, TypeOK, Paced
<1>2. Len(out) + n # 0 /\ Len(out) + n \in Nat
  BY SMT DEF IInv, Pieces
<1>3. out' # <<>>
  BY <1>2, HandedOver, FirstIsSeq
<1>4. /\ frameAge' \in 0 .. Cap /\ lag' \in 0 .. Cap
      /\ age' =< frameAge' + lag'
  BY SMT, <1>1 DEF HandOver, hist
<1> QED BY <1>3, <1>4

\* The invariant holds at first.
LEMMA Initially == Init => IInv
<1> SUFFICES ASSUME Init PROVE IInv
  OBVIOUS
<1>1. out = <<>> /\ out = First(0) /\ Len(out) = 0
  BY FirstIsSeq DEF Init
<1>2. out \in Seq(1 .. FrameSize)
  BY <1>1, EmptySeq
<1>3. TypeOK
  BY SMT, <1>2, PlatformAssumption, SizeAssumption DEF Init, TypeOK
<1>4. Pieces /\ Paced
  BY SMT, <1>1, SizeAssumption DEF Init, Pieces, Paced
<1> QED BY <1>3, <1>4 DEF IInv

-----------------------------------------------------------------------------
(* One lemma per group of steps                                            *)

LEMMA WriteSomeStep == IInv /\ WriteSome => IInv'
<1> SUFFICES ASSUME IInv, WriteSome PROVE IInv'
  OBVIOUS
<1>1. /\ Len(out) \in 0 .. FrameSize /\ queued \in 0 .. Room
      /\ FrameSize \in Nat /\ Room \in Nat
  BY SizeAssumption DEF IInv, TypeOK, Pieces
<1>2. /\ Accepted \in Nat \ {0} /\ Len(out) + Accepted =< FrameSize
      /\ queued + Accepted \in 0 .. Room
  BY SMT, <1>1 DEF WriteSome, Accepted, Smaller
<1>3. HandOver(Accepted) /\ age' = age
  BY DEF WriteSome
<1>4. /\ Len(out') = Len(out) + Accepted
      /\ out' \in Seq(1 .. FrameSize)
      /\ Len(out') \in 0 .. FrameSize /\ out' = First(Len(out'))
  BY <1>2, <1>3, HandedOver
<1>5. /\ frameAge' \in 0 .. Cap /\ lag' \in 0 .. Cap
      /\ age' =< frameAge' + lag' /\ out' # <<>>
  BY <1>2, <1>3, HandedInTime
<1>6. /\ UNCHANGED <<platform, plugged, age, rxPc, left, wait, pos, arrived>>
      /\ platform = "posix" /\ queued' = queued + Accepted
      /\ txPc' = IF Len(out) + Accepted = FrameSize THEN "drain" ELSE "write"
  BY DEF WriteSome, rxVars
<1>7. TypeOK'
  BY SMT, <1>2, <1>4, <1>5, <1>6 DEF IInv, TypeOK
<1>8. Pieces' /\ Paced'
  BY SMT, <1>4, <1>5, <1>6 DEF Pieces, Paced
<1> QED BY <1>7, <1>8 DEF IInv

\* WriteFile hands over a frame at once, or throws.
LEMMA WriteFileStep == IInv /\ WriteFile => IInv'
<1> SUFFICES ASSUME IInv, WriteFile PROVE IInv'
  OBVIOUS
<1>1. PICK n \in 0 .. FrameSize :
        /\ IF n > 0 THEN HandOver(n) ELSE UNCHANGED <<out, hist>>
        /\ queued' = Smaller(Room, queued + n)
        /\ txPc' = IF n = FrameSize THEN "drain" ELSE "short"
  BY DEF WriteFile
<1>2. /\ UNCHANGED <<platform, plugged, age, rxPc, left, wait, pos, arrived>>
      /\ platform = "windows" /\ txPc = "write"
  BY DEF WriteFile, rxVars
<1>3. /\ FrameSize \in Nat \ {0} /\ Room \in Nat /\ n \in Nat
      /\ Len(out) = 0 /\ out = <<>> /\ Len(out) + n =< FrameSize
  BY SMT, <1>2, SizeAssumption DEF IInv, Pieces
<1>4. queued' \in 0 .. Room
  BY SMT, <1>1, <1>3 DEF IInv, TypeOK, Smaller
<1>5. CASE n > 0
  <2>1. n \in Nat \ {0} /\ HandOver(n)
    BY SMT, <1>1, <1>5
  <2>2. /\ Len(out') = n /\ out' \in Seq(1 .. FrameSize)
        /\ Len(out') \in 0 .. FrameSize /\ out' = First(Len(out'))
    <3>1. /\ Len(out') = Len(out) + n /\ out' \in Seq(1 .. FrameSize)
          /\ Len(out') \in 0 .. FrameSize /\ out' = First(Len(out'))
      BY <1>3, <2>1, HandedOver
    <3>2. Len(out) + n = n
      BY SMT, <1>3
    <3> QED BY <3>1, <3>2
  <2>3. /\ frameAge' \in 0 .. Cap /\ lag' \in 0 .. Cap
        /\ age' =< frameAge' + lag' /\ out' # <<>>
    BY <1>2, <1>3, <2>1, HandedInTime
  <2>4. TypeOK'
    BY SMT, <1>1, <1>2, <1>4, <2>2, <2>3 DEF IInv, TypeOK
  <2>5. Pieces' /\ Paced'
    BY SMT, <1>1, <1>2, <2>2, <2>3 DEF Pieces, Paced
  <2> QED BY <2>4, <2>5 DEF IInv
<1>6. CASE n = 0
  <2>1. UNCHANGED <<out, frameAge, lag>> /\ txPc' = "short"
    BY SMT, <1>1, <1>3, <1>6 DEF hist
  <2>2. TypeOK'
    BY SMT, <1>2, <1>4, <2>1 DEF IInv, TypeOK
  <2>3. Pieces' /\ Paced'
    BY SMT, <1>2, <2>1 DEF IInv, Pieces, Paced
  <2> QED BY <2>2, <2>3 DEF IInv
<1> QED BY SMT, <1>3, <1>5, <1>6

\* The sender's other steps: the frame goes on or is over.
LEMMA SenderStep ==
    IInv /\ (Command \/ EnforceInterval \/ ShortWrite \/ WriteFault
             \/ DrainWrite) => IInv'
<1> SUFFICES ASSUME IInv, \/ Command \/ EnforceInterval \/ ShortWrite
                          \/ WriteFault \/ DrainWrite
             PROVE  IInv'
  OBVIOUS
<1>1. <<>> \in Seq(1 .. FrameSize) /\ <<>> = First(0) /\ Len(<<>>) = 0
  BY FirstIsSeq, EmptySeq
<1>2. CASE Command
  <2>1. TypeOK'
    BY SMT, <1>2 DEF Command, IInv, TypeOK, rxVars, hist
  <2>2. Pieces' /\ Paced'
    BY SMT, <1>2 DEF Command, IInv, Pieces, Paced, hist
  <2> QED BY <2>1, <2>2 DEF IInv
<1>3. CASE EnforceInterval
  <2>1. TypeOK'
    BY SMT, <1>3, SizeAssumption DEF EnforceInterval, IInv, TypeOK, rxVars,
       hist
  <2>2. Pieces'
    BY SMT, <1>3 DEF EnforceInterval, IInv, Pieces
  <2>3. Paced'
    BY SMT, <1>3, SizeAssumption
       DEF EnforceInterval, Slept, IInv, TypeOK, Paced, hist
  <2> QED BY <2>1, <2>2, <2>3 DEF IInv
<1>4. CASE ShortWrite \/ WriteFault \/ DrainWrite
  <2>1. /\ txPc' = "idle" /\ out' = <<>>
        /\ UNCHANGED <<platform, plugged, age, queued, rxVars, arrived, hist>>
    BY <1>4 DEF ShortWrite, WriteFault, DrainWrite
  <2>2. TypeOK'
    BY SMT, <1>1, <2>1 DEF IInv, TypeOK, rxVars, hist
  <2>3. Pieces' /\ Paced'
    BY SMT, <1>1, <2>1, SizeAssumption DEF IInv, Pieces, Paced, hist
  <2> QED BY <2>2, <2>3 DEF IInv
<1> QED BY <1>2, <1>3, <1>4

\* receive() has a thread of its own and keeps its own numbers.
LEMMA ReceiverStep == IInv /\ (Call \/ Receive) => IInv'
<1> SUFFICES ASSUME IInv, Call \/ Receive PROVE IInv'
  OBVIOUS
<1>1. UNCHANGED <<platform, plugged, txPc, age, out, queued, frameAge, lag>>
  BY DEF Call, Receive, CheckDeadline, Remain, ReadByte, ReadNothing,
     ReadFault, RxFrame, txVars, hist
<1>2. /\ rxPc' \in {"idle", "check", "remain", "poll"}
      /\ left' \in - MaxLate .. Timeout /\ wait' \in - MaxLate .. Timeout
      /\ pos' \in 0 .. FrameSize - 1 /\ arrived' \in 0 .. MaxInput
      /\ rxPc' = "idle" => left' = 0 /\ wait' = 0 /\ pos' = 0
  <2> USE SizeAssumption DEF IInv, TypeOK, Leave, RxFrame
  <2>1. CASE Call
    BY SMT, <2>1 DEF Call
  <2>2. CASE CheckDeadline
    BY SMT, <2>2 DEF CheckDeadline
  <2>3. CASE Remain
    BY SMT, <2>3 DEF Remain
  <2>4. CASE ReadByte
    BY SMT, <2>4 DEF ReadByte, Full, NextPos, LeftAfterByte
  <2>5. CASE ReadNothing
    BY SMT, <2>5 DEF ReadNothing
  <2>6. CASE ReadFault
    BY SMT, <2>6 DEF ReadFault
  <2> QED BY <2>1, <2>2, <2>3, <2>4, <2>5, <2>6 DEF Receive
<1>3. TypeOK'
  BY SMT, <1>1, <1>2 DEF IInv, TypeOK
<1>4. Pieces' /\ Paced'
  BY SMT, <1>1 DEF IInv, Pieces, Paced
<1> QED BY <1>3, <1>4 DEF IInv

\* Time goes on only as far as no deadline is overstepped.
LEMMA TickStep == IInv /\ Tick => IInv'
<1> SUFFICES ASSUME IInv, Tick PROVE IInv'
  OBVIOUS
<1>1. /\ age' \in 0 .. Cap /\ frameAge' \in 0 .. Cap
      /\ age' =< frameAge' + lag' /\ frameAge' + lag' >= frameAge + lag
  BY SMT, SizeAssumption DEF Tick, Later, IInv, TypeOK, Paced
<1>2. /\ left' \in - MaxLate .. Timeout /\ wait' \in - MaxLate .. Timeout
      /\ rxPc = "idle" => left' = left /\ wait' = wait
  BY SMT, SizeAssumption DEF Tick, IInv, TypeOK
<1>3. UNCHANGED <<platform, plugged, txPc, out, queued, rxPc, pos,
                  arrived, lag>>
  BY DEF Tick
<1>4. TypeOK'
  BY SMT, <1>1, <1>2, <1>3 DEF IInv, TypeOK
<1>5. Pieces'
  BY <1>3 DEF IInv, Pieces
<1>6. Paced'
  <2>1. frameAge + lag >= Interval => frameAge' + lag' >= Interval
    <3>1. /\ frameAge \in Int /\ lag \in Int /\ lag' \in Int
          /\ frameAge' \in Int /\ Interval \in Int
      BY SMT, <1>1, <1>3, SizeAssumption DEF IInv, TypeOK
    <3>2. frameAge' + lag' >= frameAge + lag
      BY <1>1
    <3>3. frameAge + lag \in Int /\ frameAge' + lag' \in Int
      BY SMT, <3>1
    <3> QED BY <3>1, <3>2, <3>3, NoSmaller
  <2>2. txPc' = "write" /\ out' = <<>> => frameAge + lag >= Interval
    BY <1>3 DEF IInv, Paced
  <2> QED BY <1>1, <2>1, <2>2 DEF Paced
<1> QED BY <1>4, <1>5, <1>6 DEF IInv

\* The line and the adapter.
LEMMA LineStep == IInv /\ (Transmit \/ Arrive \/ Unplug) => IInv'
<1> SUFFICES ASSUME IInv, Transmit \/ Arrive \/ Unplug PROVE IInv'
  OBVIOUS
<1>1. UNCHANGED <<platform, txPc, age, out, rxVars, hist>>
  BY DEF Transmit, Arrive, Unplug, txVars
<1>2. plugged' \in BOOLEAN
  BY DEF Transmit, Arrive, Unplug, IInv, TypeOK
<1>3. queued' \in 0 .. Room /\ arrived' \in 0 .. MaxInput
  BY SMT, SizeAssumption DEF Transmit, Arrive, Unplug, IInv, TypeOK, txVars
<1>4. TypeOK'
  BY SMT, <1>1, <1>2, <1>3 DEF IInv, TypeOK, rxVars, hist
<1>5. Pieces' /\ Paced'
  BY SMT, <1>1 DEF IInv, Pieces, Paced, hist
<1> QED BY <1>4, <1>5 DEF IInv

\* Every step keeps the invariant.
LEMMA StepKeeps == IInv /\ [Next]_vars => IInv'
<1> SUFFICES ASSUME IInv, [Next]_vars PROVE IInv'
  OBVIOUS
<1>1. CASE Command \/ Send
  BY <1>1, WriteSomeStep, WriteFileStep, SenderStep DEF Send
<1>2. CASE Call \/ Receive
  BY <1>2, ReceiverStep
<1>3. CASE Tick
  BY <1>3, TickStep
<1>4. CASE Transmit \/ Arrive \/ Unplug
  BY <1>4, LineStep
<1>5. CASE UNCHANGED vars
  BY SMT, <1>5 DEF vars, txVars, rxVars, hist, IInv, TypeOK, Pieces, Paced
<1> QED BY <1>1, <1>2, <1>3, <1>4, <1>5 DEF Next

\* The invariant holds in every state.
LEMMA Invariance == Spec => []IInv
BY Initially, StepKeeps, PTL DEF Spec

-----------------------------------------------------------------------------
(* The theorems                                                            *)

\* Every variable keeps its type: the byte counter of receive() stays inside
\* the frame, and no call leaves a deadline behind.
THEOREM TypeCorrect == Spec => []TypeOK
<1>1. IInv => TypeOK
  BY DEF IInv
<1> QED BY Invariance, <1>1, PTL

\* A frame that is drained was handed over whole, each byte once and in
\* order, whatever sizes the frame, the buffer and the pieces have.
THEOREM FramesAreWhole == Spec => []FramesWhole
<1>1. IInv => FramesWhole
  BY DEF IInv, Pieces, First, FramesWhole
<1> QED BY Invariance, <1>1, PTL

\* Only a write that found the interval kept begins a frame.
LEMMA BeginsPaced == IInv /\ [Next]_vars /\ Begins => frameAge + lag >= Interval
<1> SUFFICES ASSUME IInv, [Next]_vars, Begins
             PROVE  frameAge + lag >= Interval
  OBVIOUS
<1>1. out = <<>> /\ out' # <<>>
  BY DEF Begins
<1>2. WriteSome \/ WriteFile
  BY <1>1 DEF Next, Send, Receive, Command, EnforceInterval, ShortWrite,
     WriteFault, DrainWrite, Call, CheckDeadline, Remain, ReadByte,
     ReadNothing, ReadFault, RxFrame, Tick, Transmit, Arrive, Unplug,
     txVars, vars
<1>3. txPc = "write"
  BY <1>2 DEF WriteSome, WriteFile
<1> QED BY <1>1, <1>3 DEF IInv, Paced

\* The command interval is kept between the first bytes of two frames, but
\* for the time the earlier one took to be sent, at any interval.
THEOREM SpacingKept == Spec => FramesSpaced
<1>1. IInv /\ [Next]_vars => [Begins => frameAge + lag >= Interval]_vars
  BY BeginsPaced
<1> QED BY Invariance, <1>1, PTL DEF Spec, FramesSpaced
=============================================================================
