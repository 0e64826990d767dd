--------------------------- MODULE CanLinkProofs ----------------------------
(***************************************************************************)
(* Proofs about FrameCodec and CanLink: what is encoded is decoded, and    *)
(* receive() of the CAN transports is a LossyLink.                         *)
(***************************************************************************)
EXTENDS CanLink, SequenceTheorems, TLAPS

-----------------------------------------------------------------------------
(* The codec                                                               *)

\* Each of the four bytes is one.
LEMMA BytesAreBytes ==
    ASSUME NEW v \in Int32
    PROVE  /\ value_to_bytes(v) = <<v % 256, (v \div 256) % 256,
                     (v \div 65536) % 256, (v \div 16777216) % 256>>
           /\ v % 256 \in Byte /\ (v \div 256) % 256 \in Byte
           /\ (v \div 65536) % 256 \in Byte
           /\ (v \div 16777216) % 256 \in Byte
BY SMT DEF value_to_bytes, Int32, Byte

\* The highest byte of an int32_t, read as a signed one, is what is left of
\* the value above its three lower bytes.
LEMMA HighByte ==
    ASSUME NEW v \in Int32
    PROVE  Signed((v \div 16777216) % 256) = v \div 16777216
<1> DEFINE q == v \div 16777216
<1>1. q \in -128 .. 127
  BY SMT DEF Int32
<1>2. CASE q >= 0
  <2>1. q % 256 = q
    BY SMT, <1>1, <1>2
  <2> QED BY SMT, <2>1, <1>1, <1>2 DEF Signed
<1>3. CASE q < 0
  <2>1. q % 256 = q + 256
    BY SMT, <1>1, <1>3
  <2> QED BY SMT, <2>1, <1>1, <1>3 DEF Signed
<1> QED BY SMT, <1>1, <1>2, <1>3

\* bytes_to_value undoes value_to_bytes for each of the 2^32 values of an
\* int32_t, the negative ones and both limits included.
THEOREM ValueRoundTrip ==
    ASSUME NEW v \in Int32
    PROVE  bytes_to_value(v % 256, (v \div 256) % 256, (v \div 65536) % 256,
                          (v \div 16777216) % 256) = v
<1>1. v = 256 * (v \div 256) + (v % 256)
  BY SMT DEF Int32
<1>2. v \div 256 = 256 * (v \div 65536) + ((v \div 256) % 256)
  BY SMT DEF Int32
<1>3. v \div 65536 = 256 * (v \div 16777216) + ((v \div 65536) % 256)
  BY SMT DEF Int32
<1>4. bytes_to_value(v % 256, (v \div 256) % 256, (v \div 65536) % 256,
                     (v \div 16777216) % 256) =
        16777216 * (v \div 16777216) + 65536 * ((v \div 65536) % 256)
          + 256 * ((v \div 256) % 256) + (v % 256)
  BY SMT, HighByte DEF bytes_to_value
<1>5. /\ v \in Int /\ v \div 256 \in Int /\ v \div 65536 \in Int
      /\ v \div 16777216 \in Int /\ v % 256 \in Int
      /\ (v \div 256) % 256 \in Int /\ (v \div 65536) % 256 \in Int
  BY SMT DEF Int32
<1> QED BY SMT, <1>1, <1>2, <1>3, <1>4, <1>5

\* from_can undoes to_can: the driver reads what the gripper meant, in every
\* field, for every id, register and value.
THEOREM CanRoundTrip ==
    ASSUME NEW f \in Frame
    PROVE  from_can(to_can(f).can_id % 2048, to_can(f).data) = f
<1> DEFINE v == f.value
           d == to_can(f).data
           r == from_can(f.id % 2048, d)
<1>1. /\ f.id \in Byte /\ v \in Int32
      /\ f = [id |-> f.id, function |-> f.function,
              sub_function |-> f.sub_function, rw |-> f.rw,
              reserve |-> f.reserve, value |-> v]
  BY SMT DEF Frame
<1>2. d = <<f.function, f.sub_function, f.rw, f.reserve, v % 256,
            (v \div 256) % 256, (v \div 65536) % 256,
            (v \div 16777216) % 256>>
  BY SMT DEF to_can, value_to_bytes
<1>3. bytes_to_value(d[5], d[6], d[7], d[8]) = v
  BY SMT, <1>1, <1>2, ValueRoundTrip
<1>4. (f.id % 2048) % 256 = f.id
  BY SMT, <1>1 DEF Byte
<1>5. r = [id |-> f.id, function |-> f.function,
           sub_function |-> f.sub_function, rw |-> f.rw,
           reserve |-> f.reserve, value |-> v]
  BY SMT, <1>2, <1>3, <1>4 DEF from_can
<1> QED BY SMT, <1>1, <1>5 DEF to_can

\* The fourteen bytes of the serial converter carry the same frame.
THEOREM SerialRoundTrip ==
    ASSUME NEW f \in Frame
    PROVE  /\ WellFramed(to_official_serial(f))
           /\ from_official_serial(to_official_serial(f)) = f
<1> DEFINE v == f.value
           b == to_official_serial(f)
           d == to_can(f).data
<1>1. b = <<255, 254, 253, 252, f.id, f.function, f.sub_function, f.rw,
            f.reserve, v % 256, (v \div 256) % 256, (v \div 65536) % 256,
            (v \div 16777216) % 256, 251>>
  BY SMT DEF to_official_serial, to_can, value_to_bytes
<1>2. WellFramed(b)
  BY SMT, <1>1 DEF WellFramed
<1>3. /\ <<b[6], b[7], b[8], b[9], b[10], b[11], b[12], b[13]>> = d
      /\ b[5] % 256 = (f.id % 2048) % 256
  BY SMT, <1>1 DEF to_can, value_to_bytes, Frame, Byte
<1>4. to_can(f).can_id = f.id
  BY SMT DEF to_can
<1> QED BY SMT, <1>2, <1>3, <1>4, CanRoundTrip DEF from_official_serial, from_can

-----------------------------------------------------------------------------
(* The inductive invariant                                                 *)

\* What may be in the queue, and what receive() makes of it.
Raws == {to_can(f) : f \in Frames} \cup {Raw(f) : f \in Frames} \cup Foreign
Means(raw) == from_can(raw.can_id % 2048, raw.data)

Command == [raw : Raws, frame : Frames]
Entry   == [no : Nat, raw : Raws]
Result  == [no : Nat, payload : Visible]

Typed ==
    /\ wire \in Seq(Command) /\ queue \in Seq(Entry)
    /\ sent \in Seq(Visible) /\ received \in Seq(Result)
    /\ refused \in Nat /\ overflows \in Nat

\* The queue holds frames of the bus as they were meant, in their order, and
\* after all that were received.
QueueMeant ==
    \A i \in 1 .. Len(queue) :
        /\ queue[i].no \in 1 .. Len(sent)
        /\ Means(queue[i].raw) = sent[queue[i].no]
QueueSorted ==
    \A i, j \in 1 .. Len(queue) : i < j => queue[i].no < queue[j].no
QueueLater ==
    \A i \in 1 .. Len(received) :
        /\ received[i].no =< Len(sent)
        /\ \A j \in 1 .. Len(queue) : received[i].no < queue[j].no
WireMeant ==
    \A i \in 1 .. Len(wire) : Means(wire[i].raw) = wire[i].frame

IInv == /\ Typed /\ NothingElseLost
        /\ QueueMeant /\ QueueSorted /\ QueueLater /\ WireMeant

\* What appending and taking do to a sequence.
LEMMA Appending ==
    ASSUME NEW S, NEW s \in Seq(S), NEW e \in S, NEW t, t = Append(s, e)
    PROVE  /\ t \in Seq(S) /\ Len(s) \in Nat /\ Len(t) = Len(s) + 1
           /\ \A i \in 1 .. Len(s) : t[i] = s[i]
           /\ t[Len(s) + 1] = e
BY SMT, AppendProperties

\* What Tail leaves and Head takes.
LEMMA Taking ==
    ASSUME NEW S, NEW s \in Seq(S), s # <<>>, NEW t, t = Tail(s)
    PROVE  /\ t \in Seq(S) /\ Len(s) \in Nat /\ Len(t) = Len(s) - 1
           /\ \A i \in 1 .. Len(t) : t[i] = s[i + 1]
           /\ 1 \in 1 .. Len(s) /\ Head(s) = s[1] /\ s[1] \in S
BY SMT, HeadTailProperties

\* A frame that to_can made, masked or not, means what it was made of.
LEMMA Meanings ==
    /\ \A f \in Frames : /\ to_can(f) \in Raws /\ Means(to_can(f)) = f
                         /\ Raw(f) \in Raws /\ Means(Raw(f)) = f
                         /\ f \in Visible
    /\ \A raw \in Foreign : /\ raw \in Raws /\ Means(raw) = Read(raw)
                            /\ Read(raw) \in Visible
<1>1. ASSUME NEW f \in Frames
      PROVE  /\ to_can(f) \in Raws /\ Means(to_can(f)) = f
             /\ Raw(f) \in Raws /\ Means(Raw(f)) = f
             /\ f \in Visible
  <2>1. f \in Frame
    BY SMT, FramesAssumption
  <2>2. Means(to_can(f)) = f
    BY SMT, <2>1, CanRoundTrip DEF Means
  <2>3. Raw(f).data = to_can(f).data /\ Raw(f).can_id = to_can(f).can_id % 2048
    BY SMT DEF Raw
  <2>4. (to_can(f).can_id % 2048) % 2048 = to_can(f).can_id % 2048
    BY SMT, <2>1 DEF to_can, Frame, Byte
  <2>5. Means(Raw(f)) = f
    BY SMT, <2>2, <2>3, <2>4 DEF Means
  <2> QED BY SMT, <2>2, <2>5 DEF Raws, Visible
<1>2. ASSUME NEW raw \in Foreign
      PROVE  raw \in Raws /\ Means(raw) = Read(raw) /\ Read(raw) \in Visible
  BY SMT DEF Raws, Means, Read, from_can, Visible
<1> QED BY <1>1, <1>2

\* What was received has the number it was sent under.
LEMMA ReceivedNumbers ==
    ASSUME IInv, NEW i \in 1 .. Len(received)
    PROVE  received[i].no \in Nat
<1>1. received[i] \in Result
  BY ElementOfSeq DEF IInv, Typed
<1> QED BY <1>1 DEF Result

\* A frame that reaches the queue, or finds it full.
LEMMA PutKeeps ==
    ASSUME IInv, NEW r \in Raws, Put(r), Means(r) \in Visible,
           sent' = Append(sent, Means(r)),
           wire' \in Seq(Command), WireMeant'
    PROVE  IInv'
<1>1. /\ sent' \in Seq(Visible) /\ Len(sent) \in Nat
      /\ Len(sent') = Len(sent) + 1
      /\ \A i \in 1 .. Len(sent) : sent'[i] = sent[i]
      /\ sent'[Len(sent) + 1] = Means(r)
  BY SMT, Appending DEF IInv, Typed
<1>2. /\ received' = received /\ refused' = refused
      /\ received \in Seq(Result) /\ Len(received) \in Nat
      /\ refused \in Nat /\ overflows \in Nat
      /\ queue \in Seq(Entry) /\ Len(queue) \in Nat
  BY SMT DEF Put, IInv, Typed
<1>3. /\ QueueMeant /\ QueueSorted /\ QueueLater /\ NothingElseLost
  BY DEF IInv
<1>4. CASE Len(queue) < QueueSize
  <2> DEFINE e == [no |-> Len(sent) + 1, raw |-> r]
  <2>1. queue' = Append(queue, e) /\ overflows' = overflows
    BY SMT, <1>4 DEF Put
  <2>2. e \in Entry /\ e.no = Len(sent) + 1 /\ e.raw = r
    BY SMT, <1>1 DEF Entry
  <2> HIDE DEF e
  <2>3. /\ queue' \in Seq(Entry) /\ Len(queue') = Len(queue) + 1
        /\ \A i \in 1 .. Len(queue) : queue'[i] = queue[i]
        /\ queue'[Len(queue) + 1] = e
    BY SMT, <1>2, <2>1, <2>2, Appending
  <2>a. \A i \in 1 .. Len(queue') :
            i \in 1 .. Len(queue) \/ i = Len(queue) + 1
    BY SMT, <1>2, <2>3
  <2>4. QueueMeant'
    <3> SUFFICES ASSUME NEW i \in 1 .. Len(queue')
                 PROVE  /\ queue'[i].no \in 1 .. Len(sent')
                        /\ Means(queue'[i].raw) = sent'[queue'[i].no]
      BY DEF QueueMeant
    <3>1. CASE i \in 1 .. Len(queue)
      <4>1. /\ queue'[i] = queue[i] /\ queue[i].no \in 1 .. Len(sent)
            /\ Means(queue[i].raw) = sent[queue[i].no]
        BY <1>3, <2>3, <3>1 DEF QueueMeant
      <4> QED BY SMT, <1>1, <4>1
    <3>2. CASE i = Len(queue) + 1
      BY SMT, <1>1, <2>2, <2>3, <3>2
    <3> QED BY <2>a, <3>1, <3>2
  <2>5. QueueSorted'
    <3> SUFFICES ASSUME NEW i \in 1 .. Len(queue'),
                        NEW j \in 1 .. Len(queue'), i < j
                 PROVE  queue'[i].no < queue'[j].no
      BY DEF QueueSorted
    <3>1. i \in 1 .. Len(queue)
      BY SMT, <1>2, <2>3
    <3>2. queue'[i] = queue[i] /\ queue[i].no \in 1 .. Len(sent)
      BY <1>3, <2>3, <3>1 DEF QueueMeant
    <3>3. CASE j \in 1 .. Len(queue)
      BY SMT, <1>3, <2>3, <3>1, <3>3 DEF QueueSorted
    <3>4. CASE j = Len(queue) + 1
      BY SMT, <1>1, <2>2, <2>3, <3>2, <3>4
    <3> QED BY <2>a, <3>3, <3>4
  <2>6. QueueLater'
    <3> SUFFICES ASSUME NEW i \in 1 .. Len(received)
                 PROVE  /\ received[i].no =< Len(sent')
                        /\ \A j \in 1 .. Len(queue') :
                               received[i].no < queue'[j].no
      BY <1>2 DEF QueueLater
    <3>0. received[i].no \in Nat /\ received[i].no =< Len(sent)
      BY <1>3, ReceivedNumbers DEF QueueLater
    <3>1. \A j \in 1 .. Len(queue) : received[i].no < queue'[j].no
      BY <1>3, <2>3 DEF QueueLater
    <3>2. received[i].no < queue'[Len(queue) + 1].no
      BY SMT, <1>1, <2>2, <2>3, <3>0
    <3>3. received[i].no =< Len(sent')
      BY SMT, <1>1, <3>0
    <3> QED BY <2>a, <3>1, <3>2, <3>3
  <2>7. NothingElseLost'
    BY SMT, <1>1, <1>2, <1>3, <2>1, <2>3 DEF NothingElseLost
  <2> QED BY SMT, <1>1, <1>2, <2>1, <2>3, <2>4, <2>5, <2>6, <2>7
          DEF IInv, Typed
<1>5. CASE ~ (Len(queue) < QueueSize)
  <2>1. overflows' = overflows + 1 /\ queue' = queue
    BY SMT, <1>5 DEF Put
  <2>2. QueueMeant' /\ QueueSorted'
    <3>1. QueueSorted'
      BY <1>3, <2>1 DEF QueueSorted
    <3>2. QueueMeant'
      <4> SUFFICES ASSUME NEW i \in 1 .. Len(queue)
                   PROVE  /\ queue[i].no \in 1 .. Len(sent')
                          /\ Means(queue[i].raw) = sent'[queue[i].no]
        BY <2>1 DEF QueueMeant
      <4>1. /\ queue[i].no \in 1 .. Len(sent)
            /\ Means(queue[i].raw) = sent[queue[i].no]
        BY <1>3 DEF QueueMeant
      <4> QED BY SMT, <1>1, <4>1
    <3> QED BY <3>1, <3>2
  <2>4. QueueLater'
    <3> SUFFICES ASSUME NEW i \in 1 .. Len(received)
                 PROVE  /\ received[i].no =< Len(sent')
                        /\ \A j \in 1 .. Len(queue) :
                               received[i].no < queue[j].no
      BY <1>2, <2>1 DEF QueueLater
    <3>1. received[i].no \in Nat /\ received[i].no =< Len(sent)
      BY <1>3, ReceivedNumbers DEF QueueLater
    <3>2. received[i].no =< Len(sent')
      BY SMT, <1>1, <3>1
    <3> QED BY <1>3, <3>2 DEF QueueLater
  <2>3. NothingElseLost'
    BY SMT, <1>1, <1>2, <1>3, <2>1 DEF NothingElseLost
  <2> QED BY SMT, <1>1, <1>2, <2>1, <2>2, <2>3, <2>4 DEF IInv, Typed
<1> QED BY <1>4, <1>5

\* What receive() finds when it takes the oldest frame of the queue.
LEMMA OldestFrame ==
    ASSUME IInv, Take
    PROVE  /\ sent' = sent /\ wire' = wire /\ overflows' = overflows
           /\ queue # <<>> /\ queue' = Tail(queue) /\ Head(queue) = queue[1]
           /\ queue[1].no \in 1 .. Len(sent) /\ 1 \in 1 .. Len(queue)
           /\ Returned(queue[1]) =
                [no |-> queue[1].no, payload |-> sent[queue[1].no]]
           /\ \A i \in 1 .. Len(received) : received[i].no < queue[1].no
           /\ IF queue[1].raw.dlc = 8
              THEN /\ received' = Append(received, Returned(queue[1]))
                   /\ refused' = refused
              ELSE received' = received /\ refused' = refused + 1
<1>1. /\ queue # <<>> /\ queue' = Tail(queue)
      /\ sent' = sent /\ wire' = wire /\ overflows' = overflows
  BY SMT DEF Take, Rest
<1>2. 1 \in 1 .. Len(queue) /\ Head(queue) = queue[1]
  BY SMT, <1>1, Taking DEF IInv, Typed
<1>3. /\ queue[1].no \in 1 .. Len(sent)
      /\ Means(queue[1].raw) = sent[queue[1].no]
      /\ \A i \in 1 .. Len(received) : received[i].no < queue[1].no
  BY SMT, <1>2 DEF IInv, QueueMeant, QueueLater
<1>4. Returned(queue[1]) =
        [no |-> queue[1].no, payload |-> sent[queue[1].no]]
  BY SMT, <1>3 DEF Returned, Means
<1>5. IF queue[1].raw.dlc = 8
      THEN /\ received' = Append(received, Returned(queue[1]))
           /\ refused' = refused
      ELSE received' = received /\ refused' = refused + 1
  BY SMT, <1>2 DEF Take
<1> QED BY <1>1, <1>2, <1>3, <1>4, <1>5

\* The oldest frame is returned, or refused.
LEMMA TakeKeeps ==
    ASSUME IInv, Take
    PROVE  IInv'
<1> DEFINE e == queue[1]
<1>1. /\ sent' = sent /\ wire' = wire /\ overflows' = overflows
      /\ e.no \in 1 .. Len(sent)
  BY OldestFrame
<1>2. /\ queue' \in Seq(Entry) /\ Len(queue) \in Nat
      /\ Len(queue') = Len(queue) - 1
      /\ \A i \in 1 .. Len(queue') : queue'[i] = queue[i + 1]
      /\ 1 \in 1 .. Len(queue)
  <2>1. queue \in Seq(Entry) /\ queue # <<>> /\ queue' = Tail(queue)
    BY OldestFrame DEF IInv, Typed
  <2> QED BY <2>1, Taking
<1>a. \A i \in 1 .. Len(queue') : /\ i + 1 \in 1 .. Len(queue)
                                   /\ 1 < i + 1 /\ i \in Nat
  BY SMT, <1>2
<1>3. /\ QueueMeant /\ QueueSorted /\ QueueLater /\ NothingElseLost
      /\ sent \in Seq(Visible) /\ received \in Seq(Result)
      /\ Len(sent) \in Nat /\ Len(received) \in Nat
      /\ refused \in Nat /\ overflows \in Nat
      /\ WireMeant' /\ wire' \in Seq(Command)
  BY SMT, <1>1 DEF IInv, Typed, WireMeant
<1>4. QueueMeant' /\ QueueSorted'
  <2>1. QueueMeant'
    BY <1>a, <1>1, <1>2, <1>3 DEF QueueMeant
  <2>2. ASSUME NEW i \in 1 .. Len(queue'), NEW j \in 1 .. Len(queue'), i < j
        PROVE  queue'[i].no < queue'[j].no
    <3>1. i + 1 < j + 1
      BY SMT, <2>2
    <3> QED BY <1>a, <1>2, <1>3, <3>1 DEF QueueSorted
  <2> QED BY <2>1, <2>2 DEF QueueSorted
<1>5. CASE e.raw.dlc = 8
  <2>1. /\ received' = Append(received, Returned(e)) /\ refused' = refused
        /\ Returned(e) = [no |-> e.no, payload |-> sent[e.no]]
    BY <1>5, OldestFrame
  <2>2. Returned(e) \in Result /\ Returned(e).no = e.no
    BY SMT, <1>1, <1>3, <2>1 DEF Result
  <2>3. /\ received' \in Seq(Result)
        /\ Len(received') = Len(received) + 1
        /\ \A i \in 1 .. Len(received) : received'[i] = received[i]
        /\ received'[Len(received) + 1].no = e.no
    BY SMT, <1>3, <2>1, <2>2, Appending
  <2>4. QueueLater'
    <3>1. \A j \in 1 .. Len(queue') : e.no < queue'[j].no
      BY <1>a, <1>2, <1>3 DEF QueueSorted
    <3>2. \A i \in 1 .. Len(received), j \in 1 .. Len(queue') :
             received[i].no < queue'[j].no
      BY <1>a, <1>2, <1>3 DEF QueueLater
    <3>3. \A i \in 1 .. Len(received) : received[i].no =< Len(sent)
      BY <1>3 DEF QueueLater
    <3>4. \A i \in 1 .. Len(received') :
             i \in 1 .. Len(received) \/ i = Len(received) + 1
      BY SMT, <1>3, <2>3
    <3>5. e.no =< Len(sent)
      BY SMT, <1>1, <1>3
    <3> QED BY <1>1, <2>3, <3>1, <3>2, <3>3, <3>4, <3>5 DEF QueueLater
  <2>5. NothingElseLost'
    BY SMT, <1>1, <1>2, <1>3, <2>1, <2>3 DEF NothingElseLost
  <2> QED BY SMT, <1>1, <1>2, <1>3, <1>4, <2>1, <2>3, <2>4, <2>5
          DEF IInv, Typed
<1>6. CASE e.raw.dlc # 8
  <2>1. received' = received /\ refused' = refused + 1
    BY SMT, <1>6, OldestFrame
  <2>2. QueueLater'
    BY <1>a, <1>1, <1>2, <1>3, <2>1 DEF QueueLater
  <2>3. NothingElseLost'
    BY SMT, <1>1, <1>2, <1>3, <2>1 DEF NothingElseLost
  <2> QED BY SMT, <1>1, <1>2, <1>3, <1>4, <2>1, <2>2, <2>3 DEF IInv, Typed
<1> QED BY <1>5, <1>6

\* The invariant holds at first.
LEMMA Initially == Init => IInv
BY SMT DEF Init, IInv, Typed, QueueMeant, QueueSorted, QueueLater, WireMeant,
   NothingElseLost

\* The command at the head of the wire.
LEMMA OldestCommand ==
    ASSUME IInv, GripperEchoes
    PROVE  /\ wire[1].raw \in Raws /\ wire[1].frame \in Frames
           /\ Put(wire[1].raw) /\ sent' = Append(sent, Means(wire[1].raw))
           /\ Means(wire[1].raw) = wire[1].frame
           /\ wire' \in Seq(Command) /\ WireMeant'
<1>1. /\ wire # <<>> /\ wire' = Tail(wire)
      /\ Put(Head(wire).raw) /\ sent' = Append(sent, Head(wire).frame)
  BY DEF GripperEchoes
<1>2. /\ wire' \in Seq(Command) /\ Len(wire) \in Nat
      /\ Len(wire') = Len(wire) - 1
      /\ \A i \in 1 .. Len(wire') : wire'[i] = wire[i + 1]
      /\ 1 \in 1 .. Len(wire) /\ Head(wire) = wire[1] /\ wire[1] \in Command
  BY SMT, <1>1, Taking DEF IInv, Typed
<1>3. WireMeant' /\ Means(wire[1].raw) = wire[1].frame
  BY SMT, <1>2 DEF IInv, WireMeant
<1>4. wire[1].raw \in Raws /\ wire[1].frame \in Frames
  BY SMT, <1>2 DEF Command
<1> QED BY SMT, <1>1, <1>2, <1>3, <1>4

\* Every step keeps the invariant.
LEMMA StepKeeps == IInv /\ [Next]_vars => IInv'
<1> SUFFICES ASSUME IInv, [Next]_vars PROVE IInv'
  OBVIOUS
<1>1. CASE GripperSends
  <2>1. PICK f \in Frames : Put(to_can(f)) /\ sent' = Append(sent, f)
    BY <1>1 DEF GripperSends
  <2>2. wire' \in Seq(Command) /\ WireMeant'
    BY SMT, <1>1 DEF GripperSends, IInv, Typed, WireMeant
  <2>3. /\ to_can(f) \in Raws /\ Means(to_can(f)) \in Visible
        /\ sent' = Append(sent, Means(to_can(f)))
    BY SMT, <2>1, Meanings
  <2> QED BY <2>1, <2>2, <2>3, PutKeeps
<1>2. CASE GripperEchoes
  <2>1. Means(wire[1].raw) \in Visible
    BY SMT, <1>2, OldestCommand, Meanings
  <2> QED BY <1>2, <2>1, OldestCommand, PutKeeps
<1>3. CASE OtherSends
  <2>1. PICK raw \in Foreign : Put(raw) /\ sent' = Append(sent, Read(raw))
    BY <1>3 DEF OtherSends
  <2>2. wire' \in Seq(Command) /\ WireMeant'
    BY SMT, <1>3 DEF OtherSends, IInv, Typed, WireMeant
  <2>3. /\ raw \in Raws /\ Means(raw) \in Visible
        /\ sent' = Append(sent, Means(raw))
    BY SMT, <2>1, Meanings
  <2> QED BY <2>1, <2>2, <2>3, PutKeeps
<1>4. CASE Send
  <2>1. PICK f \in Frames : wire' = Append(wire, [raw |-> Raw(f), frame |-> f])
    BY <1>4 DEF Send
  <2> DEFINE w == [raw |-> Raw(f), frame |-> f]
  <2>2. w \in Command /\ Means(w.raw) = w.frame
    BY SMT, Meanings DEF Command
  <2> HIDE DEF w
  <2>3. /\ wire' \in Seq(Command) /\ Len(wire) \in Nat
        /\ Len(wire') = Len(wire) + 1
        /\ \A i \in 1 .. Len(wire) : wire'[i] = wire[i]
        /\ wire'[Len(wire) + 1] = w
    BY SMT, <2>1, <2>2, Appending DEF IInv, Typed, w
  <2>4. WireMeant'
    BY SMT, <2>2, <2>3 DEF IInv, WireMeant
  <2>5. UNCHANGED <<queue, sent, received, refused, overflows>>
    BY <1>4 DEF Send
  <2>6. QueueMeant' /\ QueueSorted' /\ QueueLater' /\ NothingElseLost'
    BY <2>5 DEF IInv, QueueMeant, QueueSorted, QueueLater, NothingElseLost
  <2>7. Typed'
    BY <2>3, <2>5 DEF IInv, Typed
  <2> QED BY <2>4, <2>6, <2>7 DEF IInv
<1>5. CASE Take
  BY <1>5, TakeKeeps
<1>6. CASE \/ Call \/ PollTimeout \/ PollReady \/ LoopTimeout \/ LoopEmpty
           \/ LoopAgain \/ UNCHANGED vars
  <2>1. UNCHANGED <<wire, queue, sent, received, refused, overflows>>
    BY SMT, <1>6 DEF Call, PollTimeout, PollReady, LoopTimeout, LoopEmpty,
       LoopAgain, TimesOut, vars
  <2>2. Typed' /\ NothingElseLost' /\ WireMeant'
    BY <2>1 DEF IInv, Typed, NothingElseLost, WireMeant
  <2>3. QueueMeant' /\ QueueSorted' /\ QueueLater'
    BY <2>1 DEF IInv, QueueMeant, QueueSorted, QueueLater
  <2> QED BY <2>2, <2>3 DEF IInv
<1> QED BY <1>1, <1>2, <1>3, <1>4, <1>5, <1>6 DEF Next, Receive

\* A frame on the bus is returned, in the queue, refused for its length or
\* lost to a full queue, for every size of the queue and whatever else is on
\* the bus; a timeout of receive() loses none.
THEOREM NothingElseIsLost == Spec => []NothingElseLost
<1>1. IInv => NothingElseLost
  BY DEF IInv
<1> QED BY Initially, StepKeeps, <1>1, PTL DEF Spec

\* Every step of the CAN transports is a step of LossyLink or none: receive()
\* returns frames whole, with their values, once and in order.
THEOREM CanImplementsLink == Spec => ImplementsLink
<1>1. Init => Link!Init
  BY DEF Init, Link!Init
<1>2. IInv /\ [Next]_vars => [Link!Next]_(Link!vars)
  <2> SUFFICES ASSUME IInv, [Next]_vars PROVE [Link!Next]_(Link!vars)
    OBVIOUS
  <2> USE DEF Link!Next, Link!vars
  <2>1. CASE GripperSends
    BY SMT, <2>1, Meanings DEF GripperSends, Put, Link!Send
  <2>2. CASE GripperEchoes
    <3>1. received' = received
      BY SMT, <2>2, OldestCommand DEF Put
    <3> QED BY SMT, <2>2, <3>1, OldestCommand, Meanings DEF Link!Send
  <2>3. CASE OtherSends
    BY SMT, <2>3, Meanings DEF OtherSends, Put, Link!Send
  <2>4. CASE Take
    <3> DEFINE e == queue[1]
    <3>1. CASE e.raw.dlc = 8
      <4>1. /\ sent \in Seq(Visible) /\ DOMAIN sent = 1 .. Len(sent)
            /\ DOMAIN received = 1 .. Len(received)
        BY SMT DEF IInv, Typed
      <4>2. /\ e.no \in DOMAIN sent /\ sent' = sent
            /\ \A i \in DOMAIN received : received[i].no < e.no
            /\ received' =
                 Append(received, [no |-> e.no, payload |-> sent[e.no]])
        BY SMT, <2>4, <3>1, <4>1, OldestFrame
      <4> QED BY SMT, <4>2 DEF Link!Deliver
    <3>2. CASE e.raw.dlc # 8
      BY SMT, <2>4, <3>2, OldestFrame
    <3> QED BY <3>1, <3>2
  <2>5. CASE \/ Call \/ PollTimeout \/ PollReady \/ LoopTimeout \/ LoopEmpty
             \/ LoopAgain \/ Send \/ UNCHANGED vars
    BY SMT, <2>5 DEF Call, PollTimeout, PollReady, LoopTimeout, LoopEmpty,
       LoopAgain, TimesOut, Send, vars
  <2> QED BY <2>1, <2>2, <2>3, <2>4, <2>5 DEF Next, Receive
<1> QED BY Initially, StepKeeps, <1>1, <1>2, PTL
       DEF Spec, ImplementsLink, Link!Spec
=============================================================================
