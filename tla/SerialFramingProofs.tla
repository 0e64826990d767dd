------------------------ MODULE SerialFramingProofs -------------------------
(***************************************************************************)
(* Proofs about SerialFraming, for every header of distinct bytes, every   *)
(* size and content of a payload and any number of lost bytes.             *)
(***************************************************************************)
EXTENDS SerialFraming, SequenceTheorems, FiniteSetTheorems, TLAPS

-----------------------------------------------------------------------------
(* Type correctness                                                        *)

\* The numbers the format is made of.
LEMMA FormatFacts ==
    /\ Len(Header) \in Nat /\ 1 < Len(Header) /\ PayloadSize \in Nat \ {0}
    /\ FrameSize \in Nat /\ 0 < FrameSize
    /\ FrameSize = Len(Header) + PayloadSize + 1
    /\ DOMAIN Header = 1 .. Len(Header)
    /\ \A i \in 1 .. Len(Header) : Header[i] \in Bytes
BY FormatAssumption DEF FrameSize

\* No byte occurs twice in a header.
LEMMA HeaderDistinct ==
    \A i, j \in 1 .. Len(Header) : Header[i] = Header[j] => i = j
BY FormatAssumption, FormatFacts

\* What to_official_serial puts on the line: header, payload, footer.
LEMMA EncodeParts ==
    ASSUME NEW p \in Payloads
    PROVE  /\ \A i \in 1 .. FrameSize : Encode(p)[i] \in Bytes
           /\ \A i \in 1 .. Len(Header) : Encode(p)[i] = Header[i]
           /\ \A i \in 1 .. PayloadSize : Encode(p)[Len(Header) + i] = p[i]
           /\ Encode(p)[FrameSize] = Footer
<1>1. p \in Seq(Bytes) /\ Len(p) = PayloadSize
  <2>1. p \in [1 .. PayloadSize -> Bytes] /\ PayloadSize \in Nat
    BY FormatAssumption
  <2> QED
    BY <2>1, LenProperties, IsASeq
<1>2. /\ <<Footer>> \in Seq(Bytes) /\ Len(<<Footer>>) = 1
      /\ <<Footer>>[1] = Footer
  BY FormatAssumption
<1>3. Header \in Seq(Bytes)
  BY FormatAssumption
<1> DEFINE hp == Header \o p
<1>4. /\ hp \in Seq(Bytes)
      /\ Len(hp) = Len(Header) + PayloadSize
      /\ \A i \in 1 .. Len(hp) :
             hp[i] = IF i <= Len(Header) THEN Header[i] ELSE p[i - Len(Header)]
  BY <1>1, <1>3, ConcatProperties
<1> HIDE DEF hp
<1>5. Encode(p) = hp \o <<Footer>>
  BY DEF Encode, hp
<1>6. /\ Encode(p) \in Seq(Bytes)
      /\ Len(Encode(p)) = FrameSize
      /\ \A i \in 1 .. FrameSize :
             Encode(p)[i] = IF i <= Len(hp) THEN hp[i] ELSE <<Footer>>[i - Len(hp)]
  BY <1>2, <1>4, <1>5, ConcatProperties DEF FrameSize
<1>7. \A i \in 1 .. FrameSize : Encode(p)[i] \in Bytes
  BY <1>6, FormatFacts, ElementOfSeq
<1>8. Encode(p)[FrameSize] = Footer
  <2>1. /\ FrameSize \in 1 .. FrameSize /\ ~ (FrameSize <= Len(hp))
        /\ FrameSize - Len(hp) = 1
    BY <1>4, FormatFacts
  <2>2. Encode(p)[FrameSize] = <<Footer>>[FrameSize - Len(hp)]
    BY <1>6, <2>1
  <2>3. <<Footer>>[1] = Footer
    OBVIOUS
  <2>4. <<Footer>>[FrameSize - Len(hp)] = <<Footer>>[1]
    BY <2>1, Zenon
  <2> QED
    BY <2>2, <2>3, <2>4, Zenon
<1>9. ASSUME NEW i \in 1 .. Len(Header)
      PROVE  Encode(p)[i] = Header[i]
  <2>1. i \in 1 .. FrameSize /\ i \in 1 .. Len(hp) /\ i <= Len(hp) /\ i <= Len(Header)
    BY <1>4, FormatFacts
  <2> QED
    BY <1>4, <1>6, <2>1
<1>10. ASSUME NEW i \in 1 .. PayloadSize
       PROVE  Encode(p)[Len(Header) + i] = p[i]
  <2> DEFINE k == Len(Header) + i
  <2>1. /\ k \in 1 .. FrameSize /\ k \in 1 .. Len(hp) /\ k <= Len(hp)
        /\ ~ (k <= Len(Header)) /\ k - Len(Header) = i
    BY <1>4, FormatFacts
  <2> HIDE DEF k
  <2>2. Encode(p)[k] = p[i]
    BY <1>4, <1>6, <2>1
  <2> QED
    BY <2>2 DEF k
<1> QED
  BY <1>7, <1>8, <1>9, <1>10

\* An empty buffer is a buffer.
LEMMA EmptyBuffer ==
    /\ <<>> \in Seq(LineByte) /\ Len(<<>>) < FrameSize
    /\ DOMAIN <<>> = {}
BY FormatFacts

\* Reading a byte leaves a line of bytes.
LEMMA ReadType ==
    ASSUME TypeOK, ReadByte
    PROVE  Head(line) \in LineByte /\ line' \in Seq(LineByte)
BY HeadTailProperties DEF TypeOK, ReadByte

\* Every initial state is well typed.
LEMMA InitType == Init => TypeOK
<1> SUFFICES ASSUME Init PROVE TypeOK
  OBVIOUS
<1>1. /\ sent \in Seq(Payloads)
      /\ received \in Seq([no : Nat, payload : [1 .. PayloadSize -> Bytes]])
  BY DEF Init
<1> QED
  BY <1>1, EmptyBuffer DEF Init, TypeOK

\* The line keeps every type.
LEMMA LineType ==
    ASSUME TypeOK, SendFrame \/ LoseByte
    PROVE  TypeOK'
<1>1. CASE SendFrame
  <2>1. PICK p \in Payloads :
            /\ sent' = Append(sent, p)
            /\ line' = line \o
                 [i \in 1 .. FrameSize |->
                     [byte |-> Encode(p)[i], no |-> Len(sent) + 1, at |-> i]]
    BY <1>1 DEF SendFrame
  <2> DEFINE f == [i \in 1 .. FrameSize |->
                     [byte |-> Encode(p)[i], no |-> Len(sent) + 1, at |-> i]]
  <2>2. Len(sent) + 1 \in Nat
    BY DEF TypeOK
  <2>3. \A i \in 1 .. FrameSize : f[i] \in LineByte
    BY <2>2, EncodeParts, FormatFacts DEF LineByte
  <2>4. f \in Seq(LineByte)
    BY <2>3, FormatFacts, IsASeq
  <2>5. line' \in Seq(LineByte)
    <3> HIDE DEF f
    <3>1. line' = line \o f
      BY <2>1 DEF f
    <3> QED
      BY <2>4, <3>1, ConcatProperties DEF TypeOK
  <2>6. sent' \in Seq(Payloads)
    BY <2>1, AppendProperties DEF TypeOK
  <2> QED
    BY <1>1, <2>5, <2>6 DEF SendFrame, TypeOK
<1>2. CASE LoseByte
  <2>1. line' \in Seq(LineByte)
    BY <1>2, HeadTailProperties DEF LoseByte, TypeOK
  <2> QED
    BY <1>2, <2>1 DEF LoseByte, TypeOK
<1> QED
  BY <1>1, <1>2

\* receive() keeps every type, and its buffer a prefix of a frame.
LEMMA ReceiveType ==
    ASSUME TypeOK, Receive
    PROVE  TypeOK'
<1>1. CASE Call
  BY <1>1 DEF Call, TypeOK
<1>2. CASE Deadline
  <2>1. splits' \in Nat
    BY <1>2 DEF Deadline, TypeOK
  <2> QED
    BY <1>2, <2>1, EmptyBuffer DEF Deadline, Leave, TypeOK
<1>3. CASE Scan
  <2>1. Head(line) \in LineByte /\ line' \in Seq(LineByte)
    BY <1>3, ReadType DEF Scan
  <2>2. heard' \in Seq(LineByte)
    BY <1>3, <2>1, AppendProperties DEF Scan, TypeOK
  <2>3. /\ buf' \in Seq(LineByte) /\ Len(buf') < FrameSize
        /\ \A i \in DOMAIN buf' \cap DOMAIN Header : buf'[i].byte = Header[i]
    <3>1. CASE Head(line).byte = Header[Len(buf) + 1]
      <4>1. /\ buf' = Append(buf, Head(line))
            /\ Len(buf) \in Nat /\ Len(buf) < Len(Header)
        BY <1>3, <3>1 DEF Scan, InHeader, TypeOK
      <4>2. /\ buf' \in Seq(LineByte) /\ Len(buf') = Len(buf) + 1
            /\ \A i \in 1 .. Len(buf) : buf'[i] = buf[i]
            /\ buf'[Len(buf) + 1] = Head(line)
        BY <2>1, <4>1, AppendProperties DEF TypeOK
      <4>3. Len(buf') < FrameSize
        BY <4>1, <4>2, FormatFacts
      <4>4. ASSUME NEW i \in DOMAIN buf' \cap DOMAIN Header
            PROVE  buf'[i].byte = Header[i]
        <5>1. CASE i = Len(buf) + 1
          BY <3>1, <4>2, <5>1
        <5>2. CASE i # Len(buf) + 1
          <6>1. i \in 1 .. Len(buf) /\ i \in DOMAIN buf /\ i \in DOMAIN Header
            BY <4>1, <4>2, <4>4, <5>2
          <6> QED
            BY <4>2, <6>1 DEF TypeOK
        <5> QED
          BY <5>1, <5>2
      <4> QED
        BY <4>2, <4>3, <4>4
    <3>2. CASE Head(line).byte # Header[Len(buf) + 1]
      <4>1. buf' = IF Head(line).byte = Header[1] THEN <<Head(line)>>
                                                  ELSE <<>>
        BY <1>3, <3>2 DEF Scan, Restart
      <4> QED
        BY <2>1, <4>1, FormatFacts
    <3> QED
      BY <3>1, <3>2
  <2> QED
    BY <1>3, <2>1, <2>2, <2>3 DEF Scan, TypeOK
<1>4. CASE Collect
  <2>1. Head(line) \in LineByte /\ line' \in Seq(LineByte)
    BY <1>4, ReadType DEF Collect
  <2>2. heard' \in Seq(LineByte)
    BY <1>4, <2>1, AppendProperties DEF Collect, TypeOK
  <2>3. /\ buf' \in Seq(LineByte) /\ Len(buf') = Len(buf) + 1
        /\ \A i \in 1 .. Len(buf) : buf'[i] = buf[i]
    BY <1>4, <2>1, AppendProperties DEF Collect, TypeOK
  <2>4. /\ Len(buf) \in Nat /\ ~ (Len(buf) < Len(Header))
        /\ Len(buf) < FrameSize /\ Len(buf) + 1 # FrameSize
    BY <1>4 DEF Collect, InHeader, Complete, TypeOK
  <2>5. Len(buf') < FrameSize
    BY <2>3, <2>4, FormatFacts
  <2>6. \A i \in DOMAIN buf' \cap DOMAIN Header : buf'[i].byte = Header[i]
    <3> SUFFICES ASSUME NEW i \in DOMAIN buf' \cap DOMAIN Header
                 PROVE  buf'[i].byte = Header[i]
      OBVIOUS
    <3>1. i \in 1 .. Len(Header) /\ i \in 1 .. Len(buf)
      BY <2>4, FormatFacts
    <3>2. i \in DOMAIN buf /\ i \in DOMAIN Header
      BY <3>1 DEF TypeOK
    <3> QED
      BY <2>3, <3>1, <3>2 DEF TypeOK
  <2> QED
    BY <1>4, <2>1, <2>2, <2>3, <2>5, <2>6 DEF Collect, TypeOK
<1>5. CASE Accept
  <2>1. Head(line) \in LineByte /\ line' \in Seq(LineByte)
    BY <1>5, ReadType DEF Accept
  <2>2. Len(buf) = Len(Header) + PayloadSize
    BY <1>5, FormatFacts DEF Accept, Complete, TypeOK
  <2>3. \A i \in 1 .. PayloadSize : buf[Len(Header) + i].byte \in Bytes
    <3> SUFFICES ASSUME NEW i \in 1 .. PayloadSize
                 PROVE  buf[Len(Header) + i].byte \in Bytes
      OBVIOUS
    <3>1. Len(Header) + i \in 1 .. Len(buf)
      BY <2>2, FormatFacts
    <3>2. buf[Len(Header) + i] \in LineByte
      BY <3>1, ElementOfSeq DEF TypeOK
    <3> QED
      BY <3>2 DEF LineByte
  <2>4. Decoded(Head(line)) \in
            [no : Nat, payload : [1 .. PayloadSize -> Bytes]]
    BY <2>1, <2>3 DEF Decoded, LineByte
  <2>5. received' \in Seq([no : Nat, payload : [1 .. PayloadSize -> Bytes]])
    BY <1>5, <2>4, AppendProperties DEF Accept, TypeOK
  <2> QED
    BY <1>5, <2>1, <2>5, EmptyBuffer DEF Accept, Leave, TypeOK
<1>6. CASE Refuse
  <2>1. line' \in Seq(LineByte)
    BY <1>6, ReadType DEF Refuse
  <2> QED
    BY <1>6, <2>1, EmptyBuffer DEF Refuse, Leave, TypeOK
<1> QED
  BY <1>1, <1>2, <1>3, <1>4, <1>5, <1>6 DEF Receive

\* Type correctness: whatever arrives, receive() never fills its buffer and
\* what it holds begins like a header.
THEOREM TypeCorrect == Spec => []TypeOK
<1>1. ASSUME TypeOK, [Next]_vars
      PROVE  TypeOK'
  <2>1. CASE UNCHANGED vars
    BY <1>1, <2>1 DEF TypeOK, vars
  <2> QED
    BY <1>1, <2>1, LineType, ReceiveType DEF Next
<1> QED
  BY InitType, <1>1, PTL DEF Spec

-----------------------------------------------------------------------------
(* No header is missed                                                     *)

\* Inductive: a call that is over holds nothing.
ScanInv ==
    /\ ~ reading => buf = <<>> /\ heard = <<>>
    /\ HeaderNeverMissed

\* What read_some adds to the bytes heard: their end is one byte longer or
\* one byte further.
LEMMA HeardStep ==
    ASSUME TypeOK, Scan, NEW n \in 1 .. Len(Header)
    PROVE  EndsLikeHeader(n)' <=>
               EndsLikeHeader(n - 1) /\ Head(line).byte = Header[n]
<1>1. /\ heard' = Append(heard, Head(line)) /\ Len(heard) \in Nat
      /\ Len(heard') = Len(heard) + 1
      /\ \A i \in 1 .. Len(heard) : heard'[i] = heard[i]
      /\ heard'[Len(heard) + 1] = Head(line)
  <2>1. Head(line) \in LineByte
    BY ReadType DEF Scan
  <2> QED
    BY <2>1, AppendProperties DEF Scan, TypeOK
<1>2. n \in Nat /\ n - 1 \in Nat /\ n =< Len(heard') <=> n - 1 =< Len(heard)
  BY <1>1, FormatFacts
<1>3. ASSUME n - 1 =< Len(heard)
      PROVE  /\ heard'[Len(heard') - n + n] = Head(line)
             /\ \A i \in 1 .. n - 1 :
                    heard'[Len(heard') - n + i] = heard[Len(heard) - (n - 1) + i]
  BY <1>1, <1>2, <1>3
<1>4. EndsLikeHeader(n)' <=>
          /\ n - 1 =< Len(heard)
          /\ \A i \in 1 .. n : heard'[Len(heard') - n + i].byte = Header[i]
  BY <1>2 DEF EndsLikeHeader
<1>5. n \in 1 .. n /\ \A i \in 1 .. n : i = n \/ i \in 1 .. n - 1
  BY <1>2
<1>6. 1 .. n - 1 \subseteq 1 .. n
  BY <1>2
<1> QED
  BY <1>3, <1>4, <1>5, <1>6 DEF EndsLikeHeader

\* One byte of the search: the longest beginning of a header is kept up,
\* because no two bytes of a header are equal.
LEMMA ScanStep ==
    ASSUME TypeOK, ScanInv, Scan
    PROVE  ScanInv'
<1> DEFINE b == Head(line)
<1>0. PICK pos \in Nat : pos = Len(buf)
  BY DEF TypeOK
<1>1. /\ reading /\ reading' /\ pos < Len(Header)
      /\ b \in LineByte
  BY <1>0, ReadType DEF Scan, ReadByte, InHeader, TypeOK
<1>2. /\ EndsLikeHeader(pos)
      /\ \A n \in 0 .. Len(Header) : EndsLikeHeader(n) => n =< pos
  BY <1>0, <1>1 DEF ScanInv, HeaderNeverMissed, InHeader
<1>3. EndsLikeHeader(0)'
  <2>1. Len(heard') \in Nat
    BY <1>1, AppendProperties DEF Scan, TypeOK
  <2> QED
    BY <2>1 DEF EndsLikeHeader
<1>4. CASE b.byte = Header[pos + 1]
  <2>1. Len(buf') = pos + 1
    BY <1>0, <1>1, <1>4, AppendProperties DEF Scan, TypeOK
  <2>2. EndsLikeHeader(pos + 1)'
    <3>1. pos + 1 \in 1 .. Len(Header) /\ (pos + 1) - 1 = pos
      BY <1>1, FormatFacts
    <3> QED
      BY <1>2, <1>4, <3>1, HeardStep
  <2>3. ASSUME NEW n \in 0 .. Len(Header), EndsLikeHeader(n)'
        PROVE  n =< pos + 1
    <3>1. CASE n = 0
      BY <1>1, <3>1
    <3>2. CASE n # 0
      <4>1. n \in 1 .. Len(Header) /\ n - 1 \in 0 .. Len(Header)
        BY <3>2, FormatFacts
      <4>2. EndsLikeHeader(n - 1)
        BY <2>3, <4>1, HeardStep
      <4> QED
        BY <1>1, <1>2, <4>1, <4>2
    <3> QED
      BY <3>1, <3>2
  <2>4. EndsLikeHeader(Len(buf))'
    BY <2>1, <2>2 DEF EndsLikeHeader
  <2> QED
    BY <1>1, <2>1, <2>3, <2>4 DEF ScanInv, HeaderNeverMissed
<1>5. CASE b.byte # Header[pos + 1]
  <2>1. \A n \in 2 .. Len(Header) : ~ EndsLikeHeader(n)'
    <3> SUFFICES ASSUME NEW n \in 2 .. Len(Header), EndsLikeHeader(n)'
                 PROVE  FALSE
      OBVIOUS
    <3>1. n \in 1 .. Len(Header) /\ n - 1 \in 1 .. Len(Header)
      BY FormatFacts
    <3>2. EndsLikeHeader(n - 1) /\ b.byte = Header[n]
      BY <3>1, HeardStep
    <3>3. n - 1 =< pos /\ n - 1 \in 1 .. pos
      BY <1>1, <1>2, <3>1, <3>2, FormatFacts
    <3>4. /\ heard[Len(heard)].byte = Header[n - 1]
          /\ heard[Len(heard)].byte = Header[pos]
      <4>1. Len(heard) \in Nat
        BY DEF TypeOK
      <4>2. /\ n - 1 \in 1 .. n - 1 /\ Len(heard) - (n - 1) + (n - 1) = Len(heard)
            /\ pos \in 1 .. pos /\ Len(heard) - pos + pos = Len(heard)
        BY <1>1, <3>1, <3>3, <4>1, FormatFacts
      <4> QED
        BY <1>2, <3>2, <4>2 DEF EndsLikeHeader
    <3>5. n - 1 = pos
      <4>1. n - 1 \in DOMAIN Header /\ pos \in DOMAIN Header
        BY <1>1, <3>1, <3>3, FormatFacts
      <4> QED
        BY <3>4, <4>1, FormatAssumption
    <3> QED
      BY <1>1, <1>5, <3>1, <3>2, <3>5, FormatFacts
  <2>2. EndsLikeHeader(1)' <=> b.byte = Header[1]
    <3>1. 1 \in 1 .. Len(Header) /\ 1 - 1 = 0
      BY FormatFacts
    <3>2. EndsLikeHeader(0)
      BY DEF EndsLikeHeader, TypeOK
    <3> QED
      BY <3>1, <3>2, HeardStep
  <2>3. Len(buf') = IF b.byte = Header[1] THEN 1 ELSE 0
    BY <1>0, <1>1, <1>5 DEF Scan, Restart
  <2>4. \A n \in 0 .. Len(Header) : n = 0 \/ n = 1 \/ n \in 2 .. Len(Header)
    BY FormatFacts
  <2>5. EndsLikeHeader(Len(buf))'
    <3>1. CASE Len(buf') = 0
      BY <1>3, <3>1 DEF EndsLikeHeader
    <3>2. CASE Len(buf') = 1
      <4>1. b.byte = Header[1]
        BY <2>3, <3>2
      <4> QED
        BY <2>2, <3>2, <4>1 DEF EndsLikeHeader
    <3> QED
      BY <2>3, <3>1, <3>2
  <2>6. \A n \in 0 .. Len(Header) : EndsLikeHeader(n)' => n =< Len(buf')
    BY <2>1, <2>2, <2>3, <2>4
  <2> QED
    BY <1>1, <2>5, <2>6 DEF ScanInv, HeaderNeverMissed
<1> QED
  BY <1>4, <1>5

\* receive() never reads over a header, however many bytes were lost before
\* it and whatever the bytes in front of it look like.
THEOREM NoHeaderIsMissed == Spec => []HeaderNeverMissed
<1>1. Init => ScanInv
  BY DEF Init, ScanInv, HeaderNeverMissed
<1>2. ASSUME TypeOK, ScanInv, [Next]_vars
      PROVE  ScanInv'
  <2>1. CASE Scan
    BY <1>2, <2>1, ScanStep
  <2>2. CASE Call
    <3>1. buf' = <<>> /\ heard' = <<>>
      BY <1>2, <2>2 DEF Call, ScanInv
    <3>2. /\ EndsLikeHeader(0)'
          /\ \A n \in 0 .. Len(Header) : EndsLikeHeader(n)' => n =< 0
      BY <3>1, FormatFacts DEF EndsLikeHeader
    <3> QED
      BY <2>2, <3>1, <3>2 DEF Call, ScanInv, HeaderNeverMissed
  <2>3. CASE Collect
    <3>1. Len(buf') = Len(buf) + 1 /\ Len(buf) \in Nat
          /\ ~ (Len(buf) < Len(Header)) /\ reading'
      BY <1>2, <2>3, ReadType, AppendProperties
         DEF Collect, InHeader, ReadByte, TypeOK
    <3> QED
      BY <3>1, FormatFacts DEF ScanInv, HeaderNeverMissed, InHeader
  <2>4. CASE Deadline \/ Accept \/ Refuse
    BY <2>4
       DEF Deadline, Accept, Refuse, Leave, ScanInv, HeaderNeverMissed
  <2>5. CASE SendFrame \/ LoseByte \/ UNCHANGED vars
    <3>1. UNCHANGED <<reading, buf, heard>>
      BY <2>5 DEF SendFrame, LoseByte, vars
    <3> QED
      BY <1>2, <3>1 DEF ScanInv, HeaderNeverMissed, InHeader, EndsLikeHeader
  <2> QED
    BY <1>2, <2>1, <2>2, <2>3, <2>4, <2>5 DEF Next, Receive
<1>3. ScanInv => HeaderNeverMissed
  BY DEF ScanInv
<1> QED
  BY <1>1, <1>2, <1>3, TypeCorrect, PTL DEF Spec

-----------------------------------------------------------------------------
(* Where receive() is in the stream                                        *)

\* The frame the next byte of the line belongs to, and how many bytes of it
\* have left the line before.
NextNo   == IF line = <<>> THEN Len(sent) + 1 ELSE line[1].no
Consumed == IF line = <<>> THEN 0 ELSE line[1].at - 1

\* c comes right after b in the stream.
Follows(b, c) ==
    IF b.at = FrameSize THEN c.no = b.no + 1 /\ c.at = 1
                        ELSE c.no = b.no /\ c.at = b.at + 1

\* A byte of the line is the byte of the frame it is said to be.
Genuine(b) ==
    /\ b.no \in 1 .. Len(sent) /\ b.at \in 1 .. FrameSize
    /\ b.byte = Encode(sent[b.no])[b.at]

\* The line holds an end of the stream of the frames sent.
LineInv ==
    /\ \A i \in 1 .. Len(line) : Genuine(line[i])
    /\ \A i \in 1 .. Len(line) :
           IF i = Len(line) THEN line[i].at = FrameSize /\ line[i].no = Len(sent)
                            ELSE Follows(line[i], line[i + 1])
    /\ \A n \in 1 .. Len(sent) :
           n >= NextNo => \E i \in 1 .. Len(line) : line[i].no = n

\* Numbers and content of the next byte.
LEMMA NextByte ==
    ASSUME TypeOK, LineInv
    PROVE  /\ Len(sent) \in Nat /\ Len(line) \in Nat /\ Len(buf) \in Nat
           /\ NextNo \in 1 .. Len(sent) + 1 /\ Consumed \in 0 .. FrameSize - 1
           /\ line = <<>> => Consumed = 0
           /\ line # <<>> =>
                  /\ NextNo \in 1 .. Len(sent) /\ sent[NextNo] \in Payloads
                  /\ 1 \in 1 .. Len(line) /\ Head(line) = line[1]
                  /\ Head(line) \in LineByte
                  /\ Head(line).no = NextNo /\ Head(line).at = Consumed + 1
                  /\ Head(line).byte = Encode(sent[NextNo])[Consumed + 1]
<1>1. /\ Len(sent) \in Nat /\ Len(line) \in Nat /\ Len(buf) \in Nat
      /\ sent \in Seq(Payloads) /\ line \in Seq(LineByte)
  BY DEF TypeOK
<1>2. CASE line = <<>>
  BY <1>1, <1>2, FormatFacts DEF NextNo, Consumed
<1>3. CASE line # <<>>
  <2>1. /\ 1 \in 1 .. Len(line) /\ Head(line) = line[1]
        /\ Head(line) \in LineByte
    BY <1>1, <1>3, HeadTailProperties, EmptySeq
  <2>2. Genuine(line[1])
    BY <2>1 DEF LineInv
  <2>3. NextNo = line[1].no /\ Consumed = line[1].at - 1
    BY <1>3 DEF NextNo, Consumed
  <2>4. NextNo \in 1 .. Len(sent) /\ Consumed \in 0 .. FrameSize - 1
    BY <1>1, <2>2, <2>3, FormatFacts DEF Genuine
  <2>5. sent[NextNo] \in Payloads
    BY <1>1, <2>4, ElementOfSeq
  <2>6. Consumed + 1 = line[1].at
    BY <2>2, <2>3, FormatFacts DEF Genuine
  <2>7. line[1].byte = Encode(sent[NextNo])[Consumed + 1]
    BY <2>2, <2>3, <2>6 DEF Genuine
  <2> QED
    BY <1>1, <1>3, <2>1, <2>3, <2>4, <2>5, <2>6, <2>7
<1> QED
  BY <1>2, <1>3

\* The first byte of the line leaves it.
ByteGone == line # <<>> /\ line' = Tail(line) /\ UNCHANGED sent

\* Read or lost, a byte moves the place in the stream by one.
LEMMA Advance ==
    ASSUME TypeOK, LineInv, ByteGone
    PROVE  /\ LineInv'
           /\ IF Consumed + 1 = FrameSize
                THEN NextNo' = NextNo + 1 /\ Consumed' = 0
                ELSE NextNo' = NextNo /\ Consumed' = Consumed + 1
<1>1. /\ line \in Seq(LineByte) /\ Len(line) \in Nat /\ Len(line) # 0
      /\ Len(line') = Len(line) - 1
      /\ \A i \in 1 .. Len(line') : line'[i] = line[i + 1]
  <2>1. line \in Seq(LineByte)
    BY DEF TypeOK
  <2> QED
    BY <2>1, HeadTailProperties, EmptySeq DEF ByteGone
<1>2. \A i \in 1 .. Len(line') : i + 1 \in 1 .. Len(line)
  BY <1>1
<1>3. /\ 1 \in 1 .. Len(line) /\ Genuine(line[1])
      /\ NextNo = line[1].no /\ Consumed = line[1].at - 1
  <2>1. 1 \in 1 .. Len(line) /\ line # <<>>
    BY <1>1 DEF ByteGone
  <2> QED
    BY <2>1 DEF LineInv, NextNo, Consumed
<1>4. (line' = <<>>) <=> (Len(line) = 1)
  <2>1. line' \in Seq(LineByte)
    BY <1>1, HeadTailProperties, EmptySeq DEF ByteGone
  <2>2. line' # <<>> => Len(line') # 0
    BY <2>1, EmptySeq
  <2>3. line' = <<>> => Len(line') = 0
    BY EmptySeq
  <2> QED
    BY <1>1, <2>2, <2>3
<1>5. IF Consumed + 1 = FrameSize
        THEN NextNo' = NextNo + 1 /\ Consumed' = 0
        ELSE NextNo' = NextNo /\ Consumed' = Consumed + 1
  <2>1. CASE Len(line) = 1
    <3>1. line[1].at = FrameSize /\ line[1].no = Len(sent)
      BY <1>3, <2>1 DEF LineInv
    <3>2. NextNo' = Len(sent) + 1 /\ Consumed' = 0
      BY <1>4, <2>1 DEF NextNo, Consumed, ByteGone
    <3> QED
      BY <1>3, <3>1, <3>2, FormatFacts
  <2>2. CASE Len(line) # 1
    <3>1. Follows(line[1], line[2])
      <4>1. 1 + 1 = 2 /\ 1 # Len(line)
        BY <2>2
      <4> QED
        BY <1>3, <4>1 DEF LineInv
    <3>2. 1 \in 1 .. Len(line') /\ line'[1] = line[2]
      BY <1>1, <2>2
    <3>3. NextNo' = line[2].no /\ Consumed' = line[2].at - 1
      BY <1>4, <2>2, <3>2 DEF NextNo, Consumed
    <3>4. line[1].at \in 1 .. FrameSize
      BY <1>3 DEF Genuine
    <3> QED
      BY <1>3, <3>1, <3>3, <3>4, FormatFacts DEF Follows
  <2> QED
    BY <2>1, <2>2
<1>6. \A i \in 1 .. Len(line') : Genuine(line[i])'
  <2> SUFFICES ASSUME NEW i \in 1 .. Len(line')
               PROVE  Genuine(line[i])'
    OBVIOUS
  <2>1. line'[i] = line[i + 1] /\ Genuine(line[i + 1]) /\ sent' = sent
    BY <1>1, <1>2 DEF LineInv, ByteGone
  <2> QED
    BY <2>1 DEF Genuine
<1>7. ASSUME NEW i \in 1 .. Len(line')
      PROVE  IF i = Len(line') THEN line'[i].at = FrameSize /\ line'[i].no = Len(sent)
                               ELSE Follows(line'[i], line'[i + 1])
  <2>1. i + 1 \in 1 .. Len(line) /\ line'[i] = line[i + 1]
    BY <1>1, <1>2
  <2>2. CASE i = Len(line')
    <3>1. i + 1 = Len(line)
      BY <1>1, <2>2
    <3> QED
      BY <2>1, <2>2, <3>1 DEF LineInv
  <2>3. CASE i # Len(line')
    <3>0. Len(line') \in Nat /\ Len(line') = Len(line) - 1
      BY <1>1
    <3>1. i + 1 \in 1 .. Len(line') /\ i + 1 # Len(line)
      BY <2>3, <3>0
    <3>2. line'[i + 1] = line[(i + 1) + 1]
      BY <1>1, <3>1
    <3> QED
      BY <2>1, <2>3, <3>1, <3>2 DEF LineInv
  <2> QED
    BY <2>2, <2>3
<1>8. ASSUME NEW n \in 1 .. Len(sent), n >= NextNo'
      PROVE  \E i \in 1 .. Len(line') : line'[i].no = n
  <2>1. NextNo' >= NextNo /\ n >= NextNo
    BY <1>3, <1>5, <1>8 DEF Genuine
  <2>2. PICK i \in 1 .. Len(line) : line[i].no = n
    BY <2>1 DEF LineInv
  <2>3. CASE i # 1
    <3>1. i - 1 \in 1 .. Len(line') /\ (i - 1) + 1 = i
      BY <1>1, <2>2, <2>3
    <3> QED
      BY <1>1, <2>2, <3>1
  <2>4. CASE i = 1
    <3>1. n = NextNo /\ NextNo' = NextNo
      BY <1>3, <1>5, <1>8, <2>2, <2>4 DEF Genuine
    <3>2. NextNo' # Len(sent') + 1
      <4>1. Len(sent') = Len(sent) /\ Len(sent) \in Nat
        BY DEF ByteGone, TypeOK
      <4> QED
        BY <1>8, <3>1, <4>1
    <3>3. line' # <<>> /\ NextNo' = line'[1].no
      BY <3>2 DEF NextNo
    <3>4. 1 \in 1 .. Len(line')
      BY <1>1, <1>4, <3>3
    <3> QED
      BY <3>1, <3>3, <3>4
  <2> QED
    BY <2>3, <2>4
<1>9. LineInv'
  <2>1. sent' = sent
    BY DEF ByteGone
  <2>2. \A i \in 1 .. Len(line') :
            IF i = Len(line') THEN line'[i].at = FrameSize /\ line'[i].no = Len(sent')
                              ELSE Follows(line[i], line[i + 1])'
    BY <1>7, <2>1 DEF Follows
  <2>3. \A n \in 1 .. Len(sent') :
            n >= NextNo' => \E i \in 1 .. Len(line') : line'[i].no = n
    BY <1>8, <2>1
  <2> QED
    BY <1>6, <2>2, <2>3 DEF LineInv
<1> QED
  BY <1>5, <1>9

\* A frame is added at the end of the stream.
LEMMA FrameSent ==
    ASSUME TypeOK, LineInv, SendFrame
    PROVE  /\ LineInv' /\ NextNo' = NextNo /\ Consumed' = Consumed
           /\ Len(sent') = Len(sent) + 1
           /\ \A n \in 1 .. Len(sent) : sent'[n] = sent[n]
<1>1. PICK p \in Payloads :
          /\ sent' = Append(sent, p)
          /\ line' = line \o
               [i \in 1 .. FrameSize |->
                   [byte |-> Encode(p)[i], no |-> Len(sent) + 1, at |-> i]]
  BY DEF SendFrame
<1> DEFINE f == [i \in 1 .. FrameSize |->
                   [byte |-> Encode(p)[i], no |-> Len(sent) + 1, at |-> i]]
<1>2. /\ Len(sent) \in Nat /\ Len(line) \in Nat
      /\ line \in Seq(LineByte) /\ sent \in Seq(Payloads)
  BY DEF TypeOK
<1>3. /\ Len(sent') = Len(sent) + 1 /\ sent'[Len(sent) + 1] = p
      /\ \A n \in 1 .. Len(sent) : sent'[n] = sent[n]
  BY <1>1, <1>2, AppendProperties
<1>4. /\ f \in Seq(LineByte) /\ Len(f) = FrameSize
      /\ \A i \in 1 .. FrameSize :
             /\ f[i].byte = Encode(p)[i]
             /\ f[i].no = Len(sent) + 1 /\ f[i].at = i
  <2>1. \A i \in 1 .. FrameSize : f[i] \in LineByte
    BY <1>2, EncodeParts, FormatFacts DEF LineByte
  <2> QED
    BY <2>1, FormatFacts, IsASeq, LenProperties
<1>5. line' = line \o f
  BY <1>1
<1> HIDE DEF f
<1>6. /\ Len(line') = Len(line) + FrameSize
      /\ \A i \in 1 .. Len(line) : line'[i] = line[i]
      /\ \A j \in 1 .. FrameSize : line'[Len(line) + j] = f[j]
  <2>1. /\ Len(line \o f) = Len(line) + Len(f)
        /\ \A i \in 1 .. Len(line) + Len(f) :
               (line \o f)[i] = IF i <= Len(line) THEN line[i]
                                                  ELSE f[i - Len(line)]
    BY <1>2, <1>4, ConcatProperties
  <2>2. ASSUME NEW j \in 1 .. FrameSize
        PROVE  line'[Len(line) + j] = f[j]
    <3>1. /\ Len(line) + j \in 1 .. Len(line) + Len(f)
          /\ ~ (Len(line) + j <= Len(line)) /\ (Len(line) + j) - Len(line) = j
      BY <1>2, <1>4, FormatFacts
    <3> QED
      BY <1>5, <2>1, <3>1
  <2>3. ASSUME NEW i \in 1 .. Len(line)
        PROVE  line'[i] = line[i]
    <3>1. i \in 1 .. Len(line) + Len(f) /\ i <= Len(line)
      BY <1>2, <1>4, FormatFacts
    <3> QED
      BY <1>5, <2>1, <3>1
  <2> QED
    BY <1>4, <1>5, <2>1, <2>2, <2>3
<1>7. \A i \in 1 .. Len(line') :
          \/ i \in 1 .. Len(line)
          \/ \E j \in 1 .. FrameSize : i = Len(line) + j
  <2>1. ASSUME NEW i \in 1 .. Len(line'), i \notin 1 .. Len(line)
        PROVE  i - Len(line) \in 1 .. FrameSize /\ i = Len(line) + (i - Len(line))
    BY <1>2, <1>6, <2>1, FormatFacts
  <2> QED
    BY <2>1
<1>8. line' # <<>> /\ 1 \in 1 .. FrameSize /\ 1 \in 1 .. Len(line')
  <2>1. line' \in Seq(LineByte)
    BY <1>2, <1>4, <1>5, ConcatProperties
  <2> QED
    BY <1>2, <1>6, <2>1, EmptySeq, FormatFacts
<1>9. NextNo' = NextNo /\ Consumed' = Consumed
  <2>1. NextNo' = line'[1].no /\ Consumed' = line'[1].at - 1
    BY <1>8 DEF NextNo, Consumed
  <2>2. CASE line = <<>>
    <3>1. Len(line) = 0
      BY <1>2, <2>2, EmptySeq
    <3>2. line'[1] = f[1]
      BY <1>6, <1>8, <3>1, FormatFacts
    <3> QED
      BY <1>2, <1>4, <1>8, <2>1, <2>2, <3>2 DEF NextNo, Consumed
  <2>3. CASE line # <<>>
    <3>1. 1 \in 1 .. Len(line)
      BY <1>2, <2>3, EmptySeq
    <3> QED
      BY <1>6, <2>1, <2>3, <3>1 DEF NextNo, Consumed
  <2> QED
    BY <2>2, <2>3
<1>10. \A i \in 1 .. Len(line') : Genuine(line[i])'
  <2> SUFFICES ASSUME NEW i \in 1 .. Len(line')
               PROVE  /\ line'[i].no \in 1 .. Len(sent') /\ line'[i].at \in 1 .. FrameSize
                      /\ line'[i].byte = Encode(sent'[line'[i].no])[line'[i].at]
    BY DEF Genuine
  <2>1. CASE i \in 1 .. Len(line)
    <3>1. line'[i] = line[i] /\ Genuine(line[i])
      BY <1>6, <2>1 DEF LineInv
    <3>2. sent'[line[i].no] = sent[line[i].no] /\ line[i].no \in 1 .. Len(sent')
      BY <1>2, <1>3, <3>1 DEF Genuine
    <3> QED
      BY <3>1, <3>2 DEF Genuine
  <2>2. CASE \E j \in 1 .. FrameSize : i = Len(line) + j
    <3>1. PICK j \in 1 .. FrameSize : i = Len(line) + j
      BY <2>2
    <3>2. /\ line'[i].no = Len(sent) + 1 /\ line'[i].at = j
          /\ line'[i].byte = Encode(p)[j]
      BY <1>4, <1>6, <3>1
    <3> QED
      BY <1>2, <1>3, <3>1, <3>2
  <2> QED
    BY <1>7, <2>1, <2>2
<1>11. ASSUME NEW i \in 1 .. Len(line')
       PROVE  IF i = Len(line')
                THEN line'[i].at = FrameSize /\ line'[i].no = Len(sent')
                ELSE Follows(line'[i], line'[i + 1])
  <2>1. CASE i \in 1 .. Len(line) /\ i # Len(line)
    <3>1. /\ i + 1 \in 1 .. Len(line) /\ i # Len(line')
          /\ line'[i] = line[i] /\ line'[i + 1] = line[i + 1]
      BY <1>2, <1>6, <2>1, FormatFacts
    <3> QED
      BY <2>1, <3>1 DEF LineInv
  <2>2. CASE i = Len(line)
    <3>1. /\ i \in 1 .. Len(line) /\ i # Len(line') /\ i + 1 = Len(line) + 1
          /\ line'[i] = line[i] /\ line'[i + 1] = f[1]
      BY <1>2, <1>6, <1>8, <2>2, FormatFacts
    <3>2. line[i].at = FrameSize /\ line[i].no = Len(sent)
      BY <2>2, <3>1 DEF LineInv
    <3> QED
      BY <1>4, <1>8, <3>1, <3>2 DEF Follows
  <2>3. CASE \E j \in 1 .. FrameSize : i = Len(line) + j
    <3>1. PICK j \in 1 .. FrameSize : i = Len(line) + j
      BY <2>3
    <3>2. line'[i].no = Len(sent) + 1 /\ line'[i].at = j
      BY <1>4, <1>6, <3>1
    <3>3. CASE j = FrameSize
      <4>1. i = Len(line')
        BY <1>6, <3>1, <3>3
      <4> QED
        BY <1>3, <3>2, <3>3, <4>1
    <3>4. CASE j # FrameSize
      <4>0. Len(line') = Len(line) + FrameSize
        BY <1>6
      <4>1. /\ j + 1 \in 1 .. FrameSize /\ i + 1 = Len(line) + (j + 1)
            /\ i # Len(line')
        BY <1>2, <3>1, <3>4, <4>0, FormatFacts
      <4>2. line'[i + 1].no = Len(sent) + 1 /\ line'[i + 1].at = j + 1
        BY <1>4, <1>6, <4>1
      <4> QED
        BY <3>2, <3>4, <4>1, <4>2 DEF Follows
    <3> QED
      BY <3>3, <3>4
  <2> QED
    BY <1>7, <2>1, <2>2, <2>3
<1>12. ASSUME NEW n \in 1 .. Len(sent'), n >= NextNo'
       PROVE  \E i \in 1 .. Len(line') : line'[i].no = n
  <2>1. CASE n = Len(sent) + 1
    <3>1. Len(line) + 1 \in 1 .. Len(line') /\ line'[Len(line) + 1] = f[1]
      BY <1>2, <1>6, <1>8, FormatFacts
    <3> QED
      BY <1>4, <1>8, <2>1, <3>1
  <2>2. CASE n # Len(sent) + 1
    <3>1. n \in 1 .. Len(sent) /\ n >= NextNo
      BY <1>2, <1>3, <1>9, <1>12, <2>2
    <3>2. PICK i \in 1 .. Len(line) : line[i].no = n
      BY <3>1 DEF LineInv
    <3>3. i \in 1 .. Len(line') /\ line'[i] = line[i]
      BY <1>2, <1>6, <3>2, FormatFacts
    <3> QED
      BY <3>2, <3>3
  <2> QED
    BY <2>1, <2>2
<1>13. LineInv'
  <2>1. \A i \in 1 .. Len(line') :
            IF i = Len(line') THEN line'[i].at = FrameSize /\ line'[i].no = Len(sent')
                              ELSE Follows(line[i], line[i + 1])'
    BY <1>11 DEF Follows
  <2> QED
    BY <1>10, <1>12, <2>1 DEF LineInv
<1> QED
  BY <1>3, <1>9, <1>13

\* What is on the line is an end of the stream, always.
LEMMA LineAlways == Spec => []LineInv
<1>1. Init => LineInv
  BY DEF Init, LineInv
<1>2. ASSUME TypeOK, LineInv, [Next]_vars
      PROVE  LineInv'
  <2>1. CASE SendFrame
    BY <1>2, <2>1, FrameSent
  <2>2. CASE ByteGone
    BY <1>2, <2>2, Advance
  <2>3. CASE UNCHANGED <<line, sent>>
    BY <1>2, <2>3 DEF LineInv, Genuine, NextNo
  <2> QED
    BY <1>2, <2>1, <2>2, <2>3
       DEF Next, Receive, LoseByte, Call, Deadline, Scan, Collect, Accept,
           Refuse, ReadByte, ByteGone, vars
<1> QED
  BY <1>1, <1>2, TypeCorrect, PTL DEF Spec

\* In the header of a frame its last byte is nowhere but at the end.
LEMMA HeaderEnd ==
    ASSUME NEW p \in Payloads, NEW i \in 1 .. Len(Header),
           Encode(p)[i] = Header[Len(Header)]
    PROVE  i = Len(Header)
<1>1. Header[i] = Header[Len(Header)]
  BY EncodeParts
<1>2. Len(Header) \in 1 .. Len(Header)
  BY FormatFacts
<1> QED
  BY <1>1, <1>2, HeaderDistinct

\* A byte of the header is no footer.
LEMMA NoFooter ==
    ASSUME NEW i \in 1 .. Len(Header)
    PROVE  Header[i] # Footer
BY FormatAssumption, FormatFacts

\* What one byte of the search does to the buffer, and where in the stream
\* it leaves receive(): at the beginning of a frame it is in step with it,
\* in step it stays, and the end of a header is not the end of a frame.
LEMMA ScanPlace ==
    ASSUME TypeOK, LineInv, Scan
    PROVE  /\ ByteGone /\ Len(buf') \in Nat /\ line # <<>>
           /\ IF Consumed + 1 = FrameSize
                THEN NextNo' = NextNo + 1 /\ Consumed' = 0
                ELSE NextNo' = NextNo /\ Consumed' = Consumed + 1
           /\ Consumed = 0 \/ Len(buf) = Consumed =>
                  NextNo' = NextNo /\ Len(buf') = Consumed'
           /\ buf' # <<>> => Len(buf') > 0 /\ buf'[Len(buf')] = Head(line)
           /\ Len(buf') >= Len(Header) =>
                  /\ NextNo' = NextNo /\ Consumed' = Consumed + 1
                  /\ Consumed # 0
                  /\ Len(buf) + 1 = Len(Header) /\ Len(buf') = Len(Header)
                  /\ Encode(sent[NextNo])[Consumed + 1] = Header[Len(Header)]
<1> DEFINE b == Head(line)
<1>1. /\ ByteGone /\ line # <<>> /\ Len(buf) < Len(Header)
      /\ buf' = IF b.byte = Header[Len(buf) + 1] THEN Append(buf, b) ELSE Restart(b)
  BY DEF Scan, ReadByte, ByteGone, InHeader
<1>2. /\ Len(buf) \in Nat /\ Consumed \in 0 .. FrameSize - 1
      /\ NextNo \in Nat /\ sent[NextNo] \in Payloads
      /\ b \in LineByte
      /\ b.byte = Encode(sent[NextNo])[Consumed + 1]
  BY <1>1, NextByte
<1>3. IF Consumed + 1 = FrameSize
        THEN NextNo' = NextNo + 1 /\ Consumed' = 0
        ELSE NextNo' = NextNo /\ Consumed' = Consumed + 1
  BY <1>1, Advance
<1> HIDE DEF b
<1>4. IF b.byte = Header[Len(buf) + 1]
        THEN Len(buf') = Len(buf) + 1 /\ buf'[Len(buf) + 1] = b
        ELSE IF b.byte = Header[1] THEN Len(buf') = 1 /\ buf'[1] = b
                                   ELSE buf' = <<>> /\ Len(buf') = 0
  <2>1. buf \in Seq(LineByte)
    BY DEF TypeOK
  <2>2. /\ Len(Append(buf, b)) = Len(buf) + 1
        /\ Append(buf, b)[Len(buf) + 1] = b
    BY <1>2, <2>1, AppendProperties
  <2>3. IF b.byte = Header[1] THEN Restart(b) = <<b>> ELSE Restart(b) = <<>>
    BY DEF Restart
  <2> QED
    BY <1>1, <2>2, <2>3
<1>5. ASSUME Consumed < Len(Header)
      PROVE  b.byte = Header[Consumed + 1] /\ Consumed + 1 # FrameSize
  <2>1. Consumed + 1 \in 1 .. Len(Header) /\ Consumed + 1 # FrameSize
    BY <1>2, <1>5, FormatFacts
  <2> QED
    BY <1>2, <2>1, EncodeParts
<1>6. ASSUME Consumed = 0
      PROVE  NextNo' = NextNo /\ Len(buf') = Consumed'
  <2>1. /\ b.byte = Header[1] /\ Consumed + 1 # FrameSize
        /\ 1 \in 1 .. Len(Header) /\ Len(buf) + 1 \in 1 .. Len(Header)
    BY <1>1, <1>2, <1>5, <1>6, FormatFacts
  <2>2. ASSUME b.byte = Header[Len(buf) + 1]
        PROVE  Len(buf) = 0
    <3>1. Header[1] = Header[Len(buf) + 1]
      BY <2>1, <2>2
    <3>2. 1 = Len(buf) + 1
      BY <2>1, <3>1, HeaderDistinct
    <3> QED
      BY <1>2, <3>2
  <2>3. Len(buf') = 1
    <3>1. CASE b.byte = Header[Len(buf) + 1]
      BY <1>4, <2>2, <3>1
    <3>2. CASE b.byte # Header[Len(buf) + 1]
      BY <1>4, <2>1, <3>2
    <3> QED
      BY <3>1, <3>2
  <2> QED
    BY <1>3, <1>6, <2>1, <2>3
<1>7. ASSUME Len(buf) = Consumed
      PROVE  NextNo' = NextNo /\ Len(buf') = Consumed'
  BY <1>1, <1>3, <1>4, <1>5, <1>7
<1>8. ASSUME Len(buf') >= Len(Header)
      PROVE  /\ NextNo' = NextNo /\ Consumed' = Consumed + 1
             /\ Consumed # 0
             /\ Len(buf) + 1 = Len(Header) /\ Len(buf') = Len(Header)
             /\ Encode(sent[NextNo])[Consumed + 1] = Header[Len(Header)]
  <2>1. /\ Len(buf) \in Nat /\ Len(buf) < Len(Header)
        /\ Len(Header) \in Nat /\ Len(Header) > 1
    BY <1>1, <1>2, FormatFacts
  <2>2. b.byte = Header[Len(buf) + 1]
    <3> SUFFICES ASSUME b.byte # Header[Len(buf) + 1]
                 PROVE  FALSE
      OBVIOUS
    <3>1. Len(buf') = 0 \/ Len(buf') = 1
      BY <1>4
    <3> QED
      BY <1>8, <2>1, <3>1
  <2>3. Len(buf') = Len(buf) + 1
    BY <1>4, <2>2
  <2>4. Len(buf) + 1 = Len(Header) /\ Len(buf') = Len(Header)
    BY <1>8, <2>1, <2>3
  <2>5. Encode(sent[NextNo])[Consumed + 1] = Header[Len(Header)]
    BY <1>2, <2>2, <2>4
  <2>6. Consumed # 0
    <3>1. Consumed = 0 => Len(buf') = 1
      BY <1>3, <1>6, FormatFacts
    <3> QED
      BY <2>1, <2>4, <3>1
  <2>7. Consumed + 1 # FrameSize
    <3>1. Len(Header) \in 1 .. Len(Header)
      BY <2>1
    <3> QED
      BY <1>2, <2>5, <3>1, EncodeParts, NoFooter
  <2> QED
    BY <1>3, <2>4, <2>5, <2>6, <2>7
<1>9. /\ Len(buf') \in Nat
      /\ buf' # <<>> => Len(buf') > 0 /\ buf'[Len(buf')] = b
  BY <1>2, <1>4
<1> QED
  BY <1>1, <1>3, <1>6, <1>7, <1>8, <1>9 DEF b

\* What a byte of the payload does to the buffer and to the place.
LEMMA CollectPlace ==
    ASSUME TypeOK, LineInv, Collect
    PROVE  /\ ByteGone /\ buf' = Append(buf, Head(line))
           /\ Len(buf') = Len(buf) + 1
           /\ \A i \in 1 .. Len(buf) : buf'[i] = buf[i]
           /\ buf'[Len(buf) + 1] = Head(line)
           /\ Len(Header) =< Len(buf) /\ Len(buf) + 1 < FrameSize
           /\ IF Consumed + 1 = FrameSize
                THEN NextNo' = NextNo + 1 /\ Consumed' = 0
                ELSE NextNo' = NextNo /\ Consumed' = Consumed + 1
<1>1. /\ ByteGone /\ buf' = Append(buf, Head(line)) /\ line # <<>>
      /\ ~ (Len(buf) < Len(Header)) /\ Len(buf) + 1 # FrameSize
  BY DEF Collect, ReadByte, ByteGone, InHeader, Complete
<1>2. Len(buf) \in Nat /\ Len(buf) < FrameSize /\ buf \in Seq(LineByte)
  BY DEF TypeOK
<1>3. Head(line) \in LineByte
  BY <1>1, NextByte
<1>4. Len(Header) =< Len(buf) /\ Len(buf) + 1 < FrameSize
  BY <1>1, <1>2, FormatFacts
<1>5. /\ Len(buf') = Len(buf) + 1
      /\ \A i \in 1 .. Len(buf) : buf'[i] = buf[i]
      /\ buf'[Len(buf) + 1] = Head(line)
  BY <1>1, <1>2, <1>3, AppendProperties
<1> QED
  BY <1>1, <1>4, <1>5, Advance

\* What the last byte of a frame does: the buffer is given up, and the byte
\* is the one the place in the stream says.
LEMMA CompletePlace ==
    ASSUME TypeOK, LineInv, Accept \/ Refuse
    PROVE  /\ ByteGone /\ Leave /\ Len(buf) + 1 = FrameSize
           /\ ~ InHeader
           /\ Head(line).no = NextNo /\ sent[NextNo] \in Payloads
           /\ Head(line).byte = Encode(sent[NextNo])[Consumed + 1]
           /\ IF Consumed + 1 = FrameSize
                THEN NextNo' = NextNo + 1 /\ Consumed' = 0
                ELSE NextNo' = NextNo /\ Consumed' = Consumed + 1
<1>1. /\ ByteGone /\ Leave /\ line # <<>> /\ Len(buf) + 1 = FrameSize
      /\ ~ InHeader
  BY DEF Accept, Refuse, ReadByte, ByteGone, Complete
<1> QED
  BY <1>1, NextByte, Advance

\* The last byte receive() holds.
Last == buf[Len(buf)]

\* A header that ends with the byte to come, its last byte but one held and
\* no more than n bytes of the same frame missing in between, is a header
\* that was sent.
LEMMA UniqueEnd ==
    ASSUME NEW n \in Nat, HeaderUnique(n), TypeOK, LineInv, line # <<>>,
           Len(buf) + 1 = Len(Header), Genuine(Last), Last.no = NextNo,
           Last.at =< Consumed, Consumed =< Last.at + n,
           Encode(sent[NextNo])[Consumed + 1] = Header[Len(Header)]
    PROVE  Consumed + 1 = Len(Header)
<1> DEFINE i == Last.at
           j == Consumed + 1
<1>1. /\ sent[NextNo] \in Payloads
      /\ Consumed \in 0 .. FrameSize - 1 /\ FrameSize \in Nat
  BY NextByte, FormatFacts
<1>2. i \in 1 .. FrameSize /\ Encode(sent[NextNo])[i] = Last.byte
  BY DEF Genuine
<1>3. j \in 1 .. FrameSize /\ i < j /\ j =< i + 1 + n
  BY <1>1, <1>2
<1>4. Len(buf) \in DOMAIN buf \cap DOMAIN Header /\ Len(buf) = Len(Header) - 1
  BY FormatFacts DEF TypeOK
<1>5. Last.byte = Header[Len(Header) - 1]
  BY <1>4 DEF TypeOK, Last
<1>6. Encode(sent[NextNo])[j] = Header[Len(Header)]
  OBVIOUS
<1> HIDE DEF i, j
<1>7. j = Len(Header)
  BY <1>1, <1>2, <1>3, <1>5, <1>6 DEF HeaderUnique
<1> QED
  BY <1>7 DEF j

-----------------------------------------------------------------------------
(* Damage is bounded                                                       *)

\* The frames allowed for: those received and those the damage costs.
Credit == Len(received) + 2 * losses + splits

\* The last byte held is the one before the next, with none in between.
Adjacent == Genuine(Last) /\ Last.no = NextNo /\ Last.at = Consumed

\* Inductive.  Looking for a header, receive() is in step with the line, or
\* the frame under way is allowed for; and if a byte is missing between what
\* it holds and the next, so is the frame after it.  Collecting, it is in
\* step; or the frame under way and the next are allowed for; or the frame
\* under way is, and receive() gives up before that frame has left the line.
SyncInv ==
    /\ NextNo =< Credit + 1
    /\ InHeader =>
           /\ Consumed = 0 \/ Len(buf) = Consumed \/ NextNo =< Credit
           /\ buf = <<>> \/ Consumed = 0 \/ Adjacent \/ NextNo + 1 =< Credit
    /\ ~ InHeader => \/ Len(buf) = Consumed
                     \/ NextNo + 1 =< Credit
                     \/ NextNo =< Credit /\ Len(Header) + Consumed =< Len(buf)

\* The types of the numbers SyncInv is about.
LEMMA SyncTypes ==
    ASSUME TypeOK, LineInv
    PROVE  /\ Credit \in Nat /\ NextNo \in Nat
           /\ Consumed \in Nat /\ Consumed < FrameSize
           /\ Len(buf) \in Nat /\ Len(buf) < FrameSize
           /\ Len(received) \in Nat /\ losses \in Nat /\ splits \in Nat
<1>1. Len(received) \in Nat /\ losses \in Nat /\ splits \in Nat
  BY DEF TypeOK
<1>2. Credit \in Nat
  BY <1>1 DEF Credit
<1>3. /\ NextNo \in Nat /\ Consumed \in Nat /\ Consumed < FrameSize
      /\ Len(buf) \in Nat
  BY NextByte, FormatFacts
<1> QED
  BY <1>1, <1>2, <1>3 DEF TypeOK

\* The line: a frame sent changes nothing, a byte lost allows for two more.
LEMMA SyncLine ==
    ASSUME TypeOK, LineInv, SyncInv, SendFrame \/ LoseByte
    PROVE  SyncInv'
<1>1. CASE SendFrame
  <2>1. UNCHANGED <<buf, received, losses, splits>>
    BY <1>1 DEF SendFrame
  <2>2. NextNo' = NextNo /\ Consumed' = Consumed
    BY <1>1, FrameSent
  <2>3. Adjacent => Adjacent'
    <3> SUFFICES ASSUME Adjacent
                 PROVE  Adjacent'
      OBVIOUS
    <3>1. Last' = Last
      BY <2>1 DEF Last
    <3>2. /\ Len(sent) \in Nat /\ Len(sent') = Len(sent) + 1
          /\ \A n \in 1 .. Len(sent) : sent'[n] = sent[n]
      BY <1>1, FrameSent, NextByte
    <3>3. Genuine(Last)'
      BY <3>1, <3>2 DEF Adjacent, Genuine
    <3> QED
      BY <2>2, <3>1, <3>3 DEF Adjacent
  <2> QED
    BY <2>1, <2>2, <2>3 DEF SyncInv, InHeader, Credit
<1>2. CASE LoseByte
  <2>1. ByteGone /\ losses' = losses + 1 /\ UNCHANGED <<buf, received, splits>>
    BY <1>2 DEF LoseByte, ByteGone
  <2>2. Credit' = Credit + 2 /\ buf' = buf
    <3>1. Len(received') = Len(received) /\ losses' = losses + 1 /\ splits' = splits
      BY <2>1
    <3>2. Len(received) \in Nat /\ losses \in Nat /\ splits \in Nat
      BY SyncTypes
    <3> QED
      BY <2>1, <3>1, <3>2 DEF Credit
  <2>3. IF Consumed + 1 = FrameSize
          THEN NextNo' = NextNo + 1 /\ Consumed' = 0
          ELSE NextNo' = NextNo /\ Consumed' = Consumed + 1
    BY <2>1, Advance
  <2>4. InHeader' = InHeader
    BY <2>2 DEF InHeader
  <2>5. CASE Consumed + 1 = FrameSize
    BY <2>2, <2>3, <2>4, <2>5, SyncTypes, FormatFacts DEF SyncInv, InHeader
  <2>6. CASE Consumed + 1 # FrameSize
    BY <2>2, <2>3, <2>4, <2>6, SyncTypes, FormatFacts DEF SyncInv
  <2> QED
    BY <2>5, <2>6
<1> QED
  BY <1>1, <1>2

\* receive().
LEMMA SyncReceive ==
    ASSUME PayloadsClean, TypeOK, LineInv, SyncInv, Receive
    PROVE  SyncInv'
<1>1. CASE Call
  <2>1. UNCHANGED <<line, sent, buf, received, losses, splits>>
    BY <1>1 DEF Call
  <2> QED
    BY <2>1 DEF SyncInv, InHeader, Credit, NextNo, Consumed, Adjacent, Last,
                Genuine
<1>2. CASE Deadline
  <2>1. /\ UNCHANGED <<line, sent, received, losses>>
        /\ buf' = <<>> /\ Len(buf') = 0 /\ Len(buf') < Len(Header)
        /\ IF buf = <<>> THEN splits' = splits ELSE splits' = splits + 1
    BY <1>2, FormatFacts DEF Deadline, Leave
  <2>2. NextNo' = NextNo /\ Consumed' = Consumed
    BY <2>1 DEF NextNo, Consumed
  <2>3. CASE buf = <<>>
    <3>1. Credit' = Credit /\ Len(buf') = Len(buf) /\ Len(buf) = 0
      BY <2>1, <2>3 DEF Credit
    <3> QED
      BY <2>1, <2>2, <3>1 DEF SyncInv, InHeader
  <2>4. CASE buf # <<>>
    <3>1. Credit' = Credit + 1
      BY <2>1, <2>4, SyncTypes DEF Credit
    <3> QED
      BY <2>1, <2>2, <3>1, SyncTypes DEF SyncInv, InHeader
  <2> QED
    BY <2>3, <2>4
<1>3. CASE Scan
  <2>1. Credit' = Credit /\ InHeader
    BY <1>3 DEF Scan, Credit
  <2>2. /\ ByteGone /\ Len(buf') \in Nat /\ line # <<>>
        /\ IF Consumed + 1 = FrameSize
             THEN NextNo' = NextNo + 1 /\ Consumed' = 0
             ELSE NextNo' = NextNo /\ Consumed' = Consumed + 1
        /\ Consumed = 0 \/ Len(buf) = Consumed =>
               NextNo' = NextNo /\ Len(buf') = Consumed'
        /\ buf' # <<>> => buf'[Len(buf')] = Head(line)
    BY <1>3, ScanPlace
  <2>3. NextNo' =< Credit' + 1
    BY <2>1, <2>2, SyncTypes, FormatFacts DEF SyncInv
  <2>4. Consumed' = 0 \/ Len(buf') = Consumed' \/ NextNo' =< Credit'
    BY <2>1, <2>2, SyncTypes, FormatFacts DEF SyncInv
  <2>5. buf' = <<>> \/ Consumed' = 0 \/ Adjacent'
    <3> SUFFICES ASSUME buf' # <<>>, Consumed' # 0
                 PROVE  Adjacent'
      OBVIOUS
    <3>1. /\ NextNo' = NextNo /\ Consumed' = Consumed + 1
          /\ Last' = Head(line)
      BY <2>2 DEF Last
    <3>2. /\ Genuine(line[1]) /\ Head(line) = line[1]
          /\ Head(line).no = NextNo /\ Head(line).at = Consumed + 1
      BY <2>2, NextByte DEF LineInv
    <3>3. Genuine(Last)'
      BY <2>2, <3>1, <3>2 DEF Genuine, ByteGone
    <3> QED
      BY <3>1, <3>2, <3>3 DEF Adjacent
  <2>6. ASSUME ~ InHeader'
        PROVE  Len(buf') = Consumed' \/ NextNo' + 1 =< Credit'
    <3>1. Len(buf') >= Len(Header)
      BY <2>2, <2>6, FormatFacts DEF InHeader
    <3>2. /\ NextNo' = NextNo /\ Consumed' = Consumed + 1
          /\ Consumed # 0
          /\ Len(buf) + 1 = Len(Header) /\ Len(buf') = Len(Header)
          /\ Encode(sent[NextNo])[Consumed + 1] = Header[Len(Header)]
      BY <1>3, <3>1, ScanPlace
    <3>3. buf # <<>>
      BY <3>2, FormatFacts
    <3>4. CASE Adjacent
      <4>1. /\ Genuine(Last) /\ Last.no = NextNo
            /\ Last.at =< Consumed /\ Consumed =< Last.at + 0 /\ 0 \in Nat
        BY <3>4, SyncTypes DEF Adjacent
      <4>2. Consumed + 1 = Len(Header)
        BY <2>2, <3>2, <4>1, UniqueEnd DEF PayloadsClean
      <4> QED
        BY <3>2, <4>2
    <3>5. CASE NextNo + 1 =< Credit
      BY <2>1, <3>2, <3>5
    <3> QED
      BY <2>1, <3>2, <3>3, <3>4, <3>5 DEF SyncInv
  <2> QED
    BY <2>3, <2>4, <2>5, <2>6 DEF SyncInv
<1>4. CASE Collect
  <2>1. Credit' = Credit
    BY <1>4 DEF Collect, Credit
  <2>2. /\ Len(buf') = Len(buf) + 1
        /\ Len(Header) =< Len(buf) /\ Len(buf) + 1 < FrameSize
        /\ IF Consumed + 1 = FrameSize
             THEN NextNo' = NextNo + 1 /\ Consumed' = 0
             ELSE NextNo' = NextNo /\ Consumed' = Consumed + 1
    BY <1>4, CollectPlace
  <2>3. ~ InHeader /\ (~ InHeader)'
    BY <2>2, SyncTypes, FormatFacts DEF InHeader
  <2>4. CASE Consumed + 1 = FrameSize
    BY <2>1, <2>2, <2>3, <2>4, SyncTypes, FormatFacts DEF SyncInv
  <2>5. CASE Consumed + 1 # FrameSize
    BY <2>1, <2>2, <2>3, <2>5, SyncTypes, FormatFacts DEF SyncInv
  <2> QED
    BY <2>4, <2>5
<1>5. CASE Accept \/ Refuse
  <2>1. /\ Len(buf) + 1 = FrameSize /\ ~ InHeader
        /\ sent[NextNo] \in Payloads
        /\ Head(line).byte = Encode(sent[NextNo])[Consumed + 1]
        /\ IF Consumed + 1 = FrameSize
             THEN NextNo' = NextNo + 1 /\ Consumed' = 0
             ELSE NextNo' = NextNo /\ Consumed' = Consumed + 1
    BY <1>5, CompletePlace
  <2>2. buf' = <<>> /\ Len(buf') = 0 /\ Len(buf') < Len(Header)
    <3>1. Leave
      BY <1>5, CompletePlace
    <3> QED
      BY <3>1, FormatFacts DEF Leave
  <2>3. CASE Accept
    <3>1. Len(received') = Len(received) + 1 /\ UNCHANGED <<losses, splits>>
      BY <2>3, AppendProperties DEF Accept, TypeOK
    <3>2. Credit' = Credit + 1
      BY <3>1, SyncTypes DEF Credit
    <3> QED
      BY <2>1, <2>2, <3>2, SyncTypes, FormatFacts DEF SyncInv, InHeader
  <2>4. CASE Refuse
    <3>1. Credit' = Credit /\ Head(line).byte # Footer
      BY <2>4 DEF Refuse, Credit, FooterOk
    <3>2. Consumed + 1 # FrameSize
      BY <2>1, <3>1, EncodeParts
    <3> QED
      BY <2>1, <2>2, <3>1, <3>2, SyncTypes, FormatFacts DEF SyncInv, InHeader
  <2> QED
    BY <1>5, <2>3, <2>4
<1> QED
  BY <1>1, <1>2, <1>3, <1>4, <1>5 DEF Receive

\* Damage is bounded: for every format and any number of losses a lost byte
\* costs two frames at most, and a deadline in the middle of a frame one.
THEOREM DamageIsBounded == Spec => []DamageBounded
<1>1. ASSUME PayloadsClean
      PROVE  Init => SyncInv
  BY FormatFacts
     DEF Init, SyncInv, InHeader, Credit, NextNo, Consumed
<1>2. ASSUME PayloadsClean, TypeOK, LineInv, SyncInv, [Next]_vars
      PROVE  SyncInv'
  <2>1. CASE UNCHANGED vars
    BY <1>2, <2>1
       DEF SyncInv, InHeader, Credit, NextNo, Consumed, Adjacent, Last, Genuine,
           vars
  <2> QED
    BY <1>2, <2>1, SyncLine, SyncReceive DEF Next
<1>3. ASSUME TypeOK, LineInv, PayloadsClean => SyncInv
      PROVE  DamageBounded
  <2> SUFFICES ASSUME PayloadsClean
               PROVE  Cardinality(Passed) =< Credit
    BY DEF DamageBounded, Credit
  <2>1. NextNo \in Nat /\ NextNo =< Credit + 1 /\ 1 =< NextNo /\ Credit \in Nat
    BY <1>3, NextByte, SyncTypes DEF SyncInv
  <2>2. Passed \subseteq 1 .. NextNo - 1
    <3> SUFFICES ASSUME NEW n \in Passed
                 PROVE  n \in 1 .. NextNo - 1
      OBVIOUS
    <3>1. n \in 1 .. Len(sent) /\ n \notin InFlight
      BY <1>3 DEF Passed, TypeOK
    <3>2. \A i \in 1 .. Len(line) : line[i].no # n
      BY <1>3, <3>1 DEF InFlight, TypeOK
    <3>3. ~ (n >= NextNo)
      BY <1>3, <3>1, <3>2 DEF LineInv
    <3> QED
      BY <2>1, <3>1, <3>3
  <2>3. IsFiniteSet(1 .. NextNo - 1) /\ Cardinality(1 .. NextNo - 1) = NextNo - 1
    BY <2>1, FS_Interval
  <2>4. /\ Cardinality(Passed) \in Nat
        /\ Cardinality(Passed) =< NextNo - 1
    BY <2>2, <2>3, FS_Subset, FS_CardinalityType
  <2> QED
    BY <2>1, <2>4
<1>4. CASE PayloadsClean
  <2>1. Spec => []SyncInv
    BY <1>1, <1>2, <1>4, TypeCorrect, LineAlways, PTL DEF Spec
  <2>2. ASSUME TypeOK, LineInv, SyncInv
        PROVE  DamageBounded
    BY <1>3, <2>2
  <2> QED
    BY <2>1, <2>2, TypeCorrect, LineAlways, PTL
<1>5. CASE ~ PayloadsClean
  <2>1. DamageBounded
    BY <1>5 DEF DamageBounded
  <2> QED
    BY <2>1, PTL
<1> QED
  BY <1>4, <1>5

-----------------------------------------------------------------------------
(* The frames returned are frames that were sent                           *)

\* The buffer holds what has left the line of the frame under way.
InStep ==
    /\ gap = 0 /\ Len(buf) = Consumed
    /\ \A i \in 1 .. Len(buf) : buf[i].byte = Encode(sent[NextNo])[i]

\* The last byte held is gap bytes before the next, maybe in the frame before.
Behind ==
    \/ Last.no = NextNo /\ Consumed = Last.at + gap
    \/ Consumed + FrameSize = Last.at + gap

\* What is missing is counted, and little.
GapInv == gap =< MaxGap /\ (buf = <<>> => gap = 0)

\* Looking for a header, receive() holds nothing, or bytes of a frame.
SeekInv == InHeader /\ buf # <<>> => Genuine(Last) /\ Behind

\* Collecting, it is in step; or bytes are missing, and the line is further
\* in the same frame, or in the one after it.
CollectInv ==
    ~ InHeader => \/ InStep
                  \/ gap > 0 /\ Consumed = Len(buf) + gap
                  \/ gap > 0 /\ Consumed + FrameSize = Len(buf) + gap

\* The frame under way is later than those received.
OrderInv == \A i \in 1 .. Len(received) : received[i].no < NextNo

\* Inductive.
LinkInv == GapInv /\ SeekInv /\ CollectInv /\ OrderInv

\* What the environment is assumed to do.
FewLost == HeaderUnique(MaxGap) /\ MaxGap =< Len(Header)

\* The numbers LinkInv is about.
LEMMA LinkTypes ==
    ASSUME TypeOK, LineInv
    PROVE  /\ gap \in Nat /\ MaxGap \in Nat /\ NextNo \in Nat
           /\ Consumed \in Nat /\ Consumed < FrameSize
           /\ Len(buf) \in Nat /\ Len(buf) < FrameSize
           /\ received \in Seq([no : Nat, payload : [1 .. PayloadSize -> Bytes]])
           /\ Len(received) \in Nat
           /\ \A i \in 1 .. Len(received) : received[i].no \in Nat
<1>1. /\ gap \in Nat
      /\ received \in Seq([no : Nat, payload : [1 .. PayloadSize -> Bytes]])
      /\ Len(received) \in Nat
  BY DEF TypeOK
<1>2. MaxGap \in Nat
  BY BoundsAssumption
<1>3. ASSUME NEW i \in 1 .. Len(received)
      PROVE  received[i].no \in Nat
  <2>1. received[i] \in [no : Nat, payload : [1 .. PayloadSize -> Bytes]]
    BY <1>1, ElementOfSeq
  <2> QED
    BY <2>1
<1> QED
  BY <1>1, <1>2, <1>3, SyncTypes

\* The number of the frame under way only grows.
LEMMA OrderKept ==
    ASSUME TypeOK, LineInv, LinkInv, UNCHANGED received,
           NextNo' = NextNo \/ NextNo' = NextNo + 1
    PROVE  OrderInv'
<1>1. \A i \in 1 .. Len(received) : received[i].no < NextNo
  BY DEF LinkInv, OrderInv
<1> QED
  BY <1>1, LinkTypes DEF OrderInv

\* The line.
LEMMA LinkLine ==
    ASSUME FewLost, TypeOK, LineInv, LinkInv, SendFrame \/ LoseByte
    PROVE  LinkInv'
<1>1. CASE SendFrame
  <2>1. UNCHANGED <<buf, received, gap>>
    BY <1>1 DEF SendFrame
  <2>2. /\ NextNo' = NextNo /\ Consumed' = Consumed
        /\ Len(sent) \in Nat /\ Len(sent') = Len(sent) + 1
        /\ \A n \in 1 .. Len(sent) : sent'[n] = sent[n]
    BY <1>1, FrameSent, NextByte
  <2>3. InHeader' = InHeader /\ Last' = Last
    BY <2>1 DEF InHeader, Last
  <2>4. ASSUME Genuine(Last), Behind
        PROVE  Genuine(Last)' /\ Behind'
    <3>1. Genuine(Last)'
      BY <2>2, <2>3, <2>4 DEF Genuine
    <3> QED
      BY <2>1, <2>2, <2>3, <2>4, <3>1 DEF Behind
  <2>5. ASSUME ~ InHeader, InStep
        PROVE  InStep'
    <3>1. line # <<>>
      BY <2>5, NextByte, FormatFacts DEF InHeader, InStep
    <3>2. NextNo \in 1 .. Len(sent)
      BY <3>1, NextByte
    <3>3. sent'[NextNo'] = sent[NextNo]
      BY <2>2, <3>2
    <3> QED
      BY <2>1, <2>2, <2>5, <3>3 DEF InStep
  <2>6. GapInv'
    BY <2>1 DEF LinkInv, GapInv
  <2>7. SeekInv'
    BY <2>1, <2>3, <2>4 DEF LinkInv, SeekInv
  <2>8. CollectInv'
    BY <2>1, <2>2, <2>3, <2>5 DEF LinkInv, CollectInv
  <2>9. OrderInv'
    BY <2>1, <2>2, OrderKept
  <2> QED
    BY <2>6, <2>7, <2>8, <2>9 DEF LinkInv
<1>2. CASE LoseByte
  <2>1. ByteGone /\ UNCHANGED <<buf, received, sent>>
    BY <1>2 DEF LoseByte, ByteGone
  <2>2. InHeader' = InHeader /\ Last' = Last
    BY <2>1 DEF InHeader, Last
  <2>3. IF Consumed + 1 = FrameSize
          THEN NextNo' = NextNo + 1 /\ Consumed' = 0
          ELSE NextNo' = NextNo /\ Consumed' = Consumed + 1
    BY <2>1, Advance
  <2>4. OrderInv'
    BY <2>1, <2>3, OrderKept
  <2>5. {Consumed, Len(buf), gap, FrameSize} \subseteq Nat
    BY LinkTypes, FormatFacts
  <2>6. CASE buf = <<>>
    <3>1. gap' = gap /\ InHeader
      BY <1>2, <2>6, FormatFacts DEF LoseByte, InHeader
    <3>2. GapInv'
      BY <2>1, <3>1 DEF LinkInv, GapInv
    <3>3. SeekInv' /\ CollectInv'
      BY <2>1, <2>2, <2>6, <3>1 DEF SeekInv, CollectInv
    <3> QED
      BY <2>4, <3>2, <3>3 DEF LinkInv
  <2>7. CASE buf # <<>>
    <3>1. gap' = gap + 1 /\ gap < MaxGap
      BY <1>2, <2>7 DEF LoseByte
    <3>2. gap' =< MaxGap /\ gap' > 0
      BY <3>1, LinkTypes
    <3>6. GapInv'
      BY <2>1, <2>7, <3>2 DEF GapInv
    <3>3. gap < Len(Header) /\ Len(Header) < FrameSize - 1
      BY <3>1, LinkTypes, FormatFacts DEF FewLost
    <3>4. CASE InHeader
      <4>1. Genuine(Last) /\ Behind
        BY <2>7, <3>4 DEF LinkInv, SeekInv
      <4>2. Genuine(Last)' /\ Last.at \in 1 .. FrameSize
        BY <2>1, <2>2, <4>1 DEF Genuine
      <4>3. Behind'
        <5>1. CASE Last.no = NextNo /\ Consumed = Last.at + gap
          <6>1. CASE Consumed + 1 = FrameSize
            BY <2>2, <2>3, <2>5, <3>1, <4>2, <5>1, <6>1 DEF Behind
          <6>2. CASE Consumed + 1 # FrameSize
            BY <2>2, <2>3, <2>5, <3>1, <4>2, <5>1, <6>2 DEF Behind
          <6> QED
            BY <6>1, <6>2
        <5>2. CASE Consumed + FrameSize = Last.at + gap
          <6>1. Consumed + 1 # FrameSize
            BY <2>5, <3>3, <4>2, <5>2, FormatFacts
          <6> QED
            BY <2>2, <2>3, <2>5, <3>1, <4>2, <5>2, <6>1 DEF Behind
        <5> QED
          BY <4>1, <5>1, <5>2 DEF Behind
      <4>4. SeekInv' /\ CollectInv'
        BY <2>2, <3>4, <4>2, <4>3 DEF SeekInv, CollectInv
      <4> QED
        BY <2>4, <3>6, <4>4 DEF LinkInv
    <3>5. CASE ~ InHeader
      <4>1. CASE InStep \/ Consumed = Len(buf) + gap
        <5>1. Consumed = Len(buf) + gap
          BY <2>5, <4>1 DEF InStep
        <5>2. \/ Consumed' = Len(buf') + gap'
              \/ Consumed' + FrameSize = Len(buf') + gap'
          BY <2>1, <2>3, <2>5, <3>1, <5>1
        <5>3. SeekInv' /\ CollectInv'
          BY <2>2, <3>2, <3>5, <5>2 DEF SeekInv, CollectInv
        <5> QED
          BY <2>4, <3>6, <5>3 DEF LinkInv
      <4>2. CASE Consumed + FrameSize = Len(buf) + gap
        <5>1. Consumed + 1 # FrameSize
          BY <2>5, <3>3, <4>2, LinkTypes, FormatFacts
        <5>2. Consumed' = Consumed + 1
          BY <2>3, <5>1
        <5>3. Consumed' + FrameSize = Len(buf') + gap'
          BY <2>1, <2>5, <3>1, <4>2, <5>2
        <5>4. SeekInv' /\ CollectInv'
          BY <2>2, <3>2, <3>5, <5>3 DEF SeekInv, CollectInv
        <5> QED
          BY <2>4, <3>6, <5>4 DEF LinkInv
      <4> QED
        BY <3>5, <4>1, <4>2 DEF LinkInv, CollectInv
    <3> QED
      BY <3>4, <3>5
  <2> QED
    BY <2>6, <2>7
<1> QED
  BY <1>1, <1>2

\* A frame receive() accepts is the one under way, whole: a footer in the
\* right place is not to be had from the header of the frame after it.
LEMMA AcceptWhole ==
    ASSUME FewLost, TypeOK, LineInv, LinkInv, Accept
    PROVE  InStep /\ Consumed + 1 = FrameSize
<1>1. /\ Len(buf) + 1 = FrameSize /\ ~ InHeader
      /\ sent[NextNo] \in Payloads
      /\ Head(line).byte = Encode(sent[NextNo])[Consumed + 1]
  BY CompletePlace
<1>2. Head(line).byte = Footer
  BY DEF Accept, FooterOk
<1>3. ~ (gap > 0 /\ Consumed = Len(buf) + gap)
  BY <1>1, LinkTypes, FormatFacts
<1>4. ASSUME gap > 0, Consumed + FrameSize = Len(buf) + gap
      PROVE  FALSE
  <2>1. gap =< MaxGap /\ MaxGap =< Len(Header)
    BY DEF LinkInv, GapInv, FewLost
  <2>2. Consumed + 1 = gap
    BY <1>1, <1>4, LinkTypes, FormatFacts
  <2>3. gap \in 1 .. Len(Header)
    BY <1>4, <2>1, LinkTypes, FormatFacts
  <2>4. Header[gap] = Footer
    BY <1>1, <1>2, <2>2, <2>3, EncodeParts
  <2>5. gap \in DOMAIN Header
    BY <2>3, FormatFacts
  <2> QED
    BY <2>4, <2>5, FormatAssumption
<1>5. InStep
  BY <1>1, <1>3, <1>4 DEF LinkInv, CollectInv
<1> QED
  BY <1>1, <1>5, LinkTypes DEF InStep

\* receive().
LEMMA LinkReceive ==
    ASSUME FewLost, TypeOK, TypeOK', LineInv, LinkInv, Receive
    PROVE  LinkInv'
<1>1. CASE Call
  <2>1. UNCHANGED <<line, sent, buf, received, gap>>
    BY <1>1 DEF Call
  <2> QED
    BY <2>1
       DEF LinkInv, GapInv, SeekInv, CollectInv, OrderInv, InStep, InHeader,
           NextNo, Consumed, Behind, Last, Genuine
<1>2. CASE Deadline
  <2>1. /\ UNCHANGED <<line, sent, received>>
        /\ gap' = 0 /\ buf' = <<>> /\ Len(buf') = 0
    BY <1>2 DEF Deadline, Leave
  <2>2. NextNo' = NextNo
    BY <2>1 DEF NextNo
  <2>3. InHeader' /\ gap' =< MaxGap
    BY <2>1, FormatFacts, LinkTypes DEF InHeader
  <2>4. OrderInv'
    BY <2>1, <2>2, OrderKept
  <2>5. GapInv' /\ SeekInv' /\ CollectInv'
    BY <2>1, <2>3 DEF GapInv, SeekInv, CollectInv
  <2> QED
    BY <2>4, <2>5 DEF LinkInv
<1>3. CASE Scan
  <2>1. UNCHANGED <<received, sent>> /\ InHeader /\ gap' = 0
    BY <1>3 DEF Scan, ReadByte
  <2>2. /\ ByteGone /\ Len(buf') \in Nat /\ line # <<>>
        /\ IF Consumed + 1 = FrameSize
             THEN NextNo' = NextNo + 1 /\ Consumed' = 0
             ELSE NextNo' = NextNo /\ Consumed' = Consumed + 1
        /\ buf' # <<>> => buf'[Len(buf')] = Head(line)
    BY <1>3, ScanPlace
  <2>3. OrderInv'
    BY <2>1, <2>2, OrderKept
  <2>4. ASSUME buf' # <<>>
        PROVE  Genuine(Last)' /\ Behind'
    <3>1. Last' = Head(line)
      BY <2>2, <2>4 DEF Last
    <3>2. /\ Genuine(line[1]) /\ Head(line) = line[1]
          /\ Head(line).no = NextNo /\ Head(line).at = Consumed + 1
      BY <2>2, NextByte DEF LineInv
    <3>3. Genuine(Last)'
      BY <2>1, <3>1, <3>2 DEF Genuine
    <3>4. Behind'
      BY <2>1, <2>2, <3>1, <3>2, LinkTypes, FormatFacts DEF Behind
    <3> QED
      BY <3>3, <3>4
  <2>5. ASSUME ~ InHeader'
        PROVE  InStep'
    <3>1. Len(buf') >= Len(Header)
      BY <2>2, <2>5, FormatFacts DEF InHeader
    <3>2. /\ NextNo' = NextNo /\ Consumed' = Consumed + 1
          /\ Len(buf) + 1 = Len(Header) /\ Len(buf') = Len(Header)
          /\ Encode(sent[NextNo])[Consumed + 1] = Header[Len(Header)]
      BY <1>3, <3>1, ScanPlace
    <3>3. buf # <<>>
      BY <3>2, FormatFacts
    <3>4. Genuine(Last) /\ Behind /\ gap =< MaxGap
      BY <2>1, <3>3 DEF LinkInv, SeekInv, GapInv
    <3>5. sent[NextNo] \in Payloads
      BY <2>2, NextByte
    <3>6. Consumed + 1 = Len(Header)
      <4>1. CASE Last.no = NextNo /\ Consumed = Last.at + gap
        <5>1. Last.at =< Consumed /\ Consumed =< Last.at + MaxGap
          BY <3>4, <4>1, LinkTypes, FormatFacts DEF Genuine
        <5> QED
          BY <2>2, <3>2, <3>4, <4>1, <5>1, UniqueEnd, LinkTypes DEF FewLost
      <4>2. CASE Consumed + FrameSize = Last.at + gap
        <5>1. Last.at \in 1 .. FrameSize /\ MaxGap =< Len(Header)
          BY <3>4 DEF Genuine, FewLost
        <5>2. Last.at # FrameSize
          <6>1. Len(buf) \in DOMAIN buf \cap DOMAIN Header
            BY <3>2, FormatFacts DEF TypeOK
          <6>2. Len(buf) \in 1 .. Len(Header) /\ Last.byte = Header[Len(buf)]
            BY <6>1, FormatFacts DEF TypeOK, Last
          <6>3. sent[Last.no] \in Payloads
            BY <3>4, ElementOfSeq DEF Genuine, TypeOK
          <6> QED
            BY <3>4, <6>2, <6>3, EncodeParts, NoFooter DEF Genuine
        <5>3. Consumed + 1 \in 1 .. Len(Header)
          BY <3>4, <4>2, <5>1, <5>2, LinkTypes, FormatFacts
        <5> QED
          BY <3>2, <3>5, <5>3, HeaderEnd
      <4> QED
        BY <3>4, <4>1, <4>2 DEF Behind
    <3>7. ASSUME NEW i \in 1 .. Len(buf')
          PROVE  buf'[i].byte = Encode(sent'[NextNo'])[i]
      <4>0. i \in 1 .. Len(Header)
        BY <3>2
      <4>1. i \in DOMAIN buf' /\ i \in DOMAIN Header
        BY <4>0, FormatFacts DEF TypeOK
      <4>2. buf'[i].byte = Header[i]
        BY <4>1 DEF TypeOK
      <4> QED
        BY <2>1, <3>2, <3>5, <4>0, <4>2, EncodeParts
    <3> QED
      BY <2>1, <3>2, <3>6, <3>7 DEF InStep
  <2>6. gap' =< MaxGap
    BY <2>1, LinkTypes
  <2>7. GapInv'
    BY <2>1, <2>6 DEF GapInv
  <2>8. SeekInv'
    BY <2>4 DEF SeekInv
  <2>9. CollectInv'
    BY <2>5 DEF CollectInv
  <2> QED
    BY <2>3, <2>7, <2>8, <2>9 DEF LinkInv
<1>4. CASE Collect
  <2>1. UNCHANGED <<received, gap>>
    BY <1>4 DEF Collect
  <2>2. /\ ByteGone
        /\ Len(buf') = Len(buf) + 1
        /\ \A i \in 1 .. Len(buf) : buf'[i] = buf[i]
        /\ buf'[Len(buf) + 1] = Head(line)
        /\ Len(Header) =< Len(buf) /\ Len(buf) + 1 < FrameSize
        /\ IF Consumed + 1 = FrameSize
             THEN NextNo' = NextNo + 1 /\ Consumed' = 0
             ELSE NextNo' = NextNo /\ Consumed' = Consumed + 1
    BY <1>4, CollectPlace
  <2>3. ~ InHeader /\ ~ InHeader' /\ buf' # <<>>
    BY <2>2, LinkTypes, FormatFacts DEF InHeader
  <2>4. OrderInv'
    BY <2>1, <2>2, OrderKept
  <2>5. ASSUME InStep
        PROVE  InStep'
    <3>1. Consumed + 1 # FrameSize /\ Len(buf) = Consumed
      BY <2>2, <2>5 DEF InStep
    <3>2. NextNo' = NextNo /\ Consumed' = Len(buf')
      BY <2>2, <3>1
    <3>3. /\ Head(line).byte = Encode(sent[NextNo])[Len(buf) + 1]
          /\ sent' = sent
      BY <2>2, <3>1, NextByte DEF ByteGone
    <3>4. ASSUME NEW i \in 1 .. Len(buf')
          PROVE  buf'[i].byte = Encode(sent'[NextNo'])[i]
      <4>1. i \in 1 .. Len(buf) \/ i = Len(buf) + 1
        BY <2>2, LinkTypes
      <4> QED
        BY <2>2, <2>5, <3>2, <3>3, <4>1 DEF InStep
    <3> QED
      BY <2>1, <2>5, <3>2, <3>4 DEF InStep
  <2>6. ASSUME gap > 0, Consumed = Len(buf) + gap
        PROVE  \/ Consumed' = Len(buf') + gap'
               \/ Consumed' + FrameSize = Len(buf') + gap'
    BY <2>1, <2>2, <2>6, LinkTypes, FormatFacts
  <2>7. ASSUME gap > 0, Consumed + FrameSize = Len(buf) + gap
        PROVE  Consumed' + FrameSize = Len(buf') + gap'
    <3>1. gap =< Len(Header)
      BY LinkTypes, FormatFacts DEF LinkInv, GapInv, FewLost
    <3>2. Consumed + 1 # FrameSize
      BY <2>2, <2>7, <3>1, LinkTypes, FormatFacts
    <3>3. /\ Consumed' = Consumed + 1
          /\ Len(buf') = Len(buf) + 1 /\ gap' = gap
      BY <2>1, <2>2, <3>2
    <3>4. {Consumed, Len(buf), gap, FrameSize} \subseteq Nat
      BY LinkTypes, FormatFacts
    <3> QED
      BY <2>7, <3>3, <3>4
  <2>8. GapInv' /\ SeekInv'
    BY <2>1, <2>3 DEF LinkInv, GapInv, SeekInv
  <2>9. CollectInv'
    <3>1. CASE InStep
      BY <2>5, <3>1 DEF CollectInv
    <3>2. CASE gap > 0 /\ Consumed = Len(buf) + gap
      BY <2>1, <2>6, <3>2 DEF CollectInv
    <3>3. CASE gap > 0 /\ Consumed + FrameSize = Len(buf) + gap
      BY <2>1, <2>7, <3>3 DEF CollectInv
    <3> QED
      BY <2>3, <3>1, <3>2, <3>3 DEF LinkInv, CollectInv
  <2> QED
    BY <2>4, <2>8, <2>9 DEF LinkInv
<1>5. CASE Accept \/ Refuse
  <2>1. /\ ByteGone /\ Leave
        /\ Head(line).no = NextNo
        /\ IF Consumed + 1 = FrameSize
             THEN NextNo' = NextNo + 1 /\ Consumed' = 0
             ELSE NextNo' = NextNo /\ Consumed' = Consumed + 1
    BY <1>5, CompletePlace
  <2>2. buf' = <<>> /\ gap' = 0 /\ gap' =< MaxGap
    BY <2>1, LinkTypes DEF Leave
  <2>4. InHeader'
    BY <2>2, FormatFacts DEF InHeader
  <2>3. OrderInv'
    <3>1. CASE Refuse
      BY <2>1, <3>1, OrderKept DEF Refuse
    <3>2. CASE Accept
      <4>1. NextNo' = NextNo + 1
        BY <2>1, <3>2, AcceptWhole
      <4>2. received' = Append(received, Decoded(Head(line)))
        BY <3>2 DEF Accept
      <4>3. /\ Len(received') = Len(received) + 1
            /\ \A i \in 1 .. Len(received) : received'[i] = received[i]
            /\ received'[Len(received) + 1] = Decoded(Head(line))
        BY <4>2, LinkTypes, AppendProperties
      <4>4. Decoded(Head(line)).no = NextNo
        BY <2>1 DEF Decoded
      <4>5. \A i \in 1 .. Len(received) : received[i].no < NextNo
        BY DEF LinkInv, OrderInv
      <4> SUFFICES ASSUME NEW i \in 1 .. Len(received')
                   PROVE  received'[i].no < NextNo'
        BY DEF OrderInv
      <4>6. CASE i = Len(received) + 1
        BY <4>1, <4>3, <4>4, <4>6, LinkTypes
      <4>7. CASE i # Len(received) + 1
        <5>1. i \in 1 .. Len(received)
          BY <4>3, <4>7, LinkTypes
        <5> QED
          BY <4>1, <4>3, <4>5, <5>1, LinkTypes
      <4> QED
        BY <4>6, <4>7
    <3> QED
      BY <1>5, <3>1, <3>2
  <2>5. GapInv' /\ SeekInv' /\ CollectInv'
    BY <2>2, <2>4 DEF GapInv, SeekInv, CollectInv
  <2> QED
    BY <2>3, <2>5 DEF LinkInv
<1> QED
  BY <1>1, <1>2, <1>3, <1>4, <1>5 DEF Receive

\* Every step of the stream is a step of the link or none.
LEMMA LinkStep ==
    ASSUME FewLost, TypeOK, LineInv, LinkInv, [Next]_vars
    PROVE  [Link!Next]_(Link!vars)
<1>1. CASE SendFrame
  BY <1>1 DEF SendFrame, Link!Next, Link!Send
<1>2. CASE Accept
  <2>1. /\ ByteGone /\ line # <<>> /\ Head(line).no = NextNo
        /\ Len(buf) + 1 = FrameSize
    BY <1>2, CompletePlace DEF ByteGone
  <2>2. /\ Len(buf) = Consumed
        /\ \A i \in 1 .. Len(buf) : buf[i].byte = Encode(sent[NextNo])[i]
    BY <1>2, AcceptWhole DEF InStep
  <2>3. NextNo \in 1 .. Len(sent) /\ sent[NextNo] \in Payloads
    BY <2>1, NextByte
  <2>4. ASSUME NEW i \in 1 .. PayloadSize
        PROVE  buf[Len(Header) + i].byte = sent[NextNo][i]
    <3>1. Len(Header) + i \in 1 .. Len(buf)
      BY <2>1, LinkTypes, FormatFacts
    <3> QED
      BY <2>2, <2>3, <3>1, EncodeParts
  <2>5. sent[NextNo] = [i \in 1 .. PayloadSize |-> sent[NextNo][i]]
    BY <2>3, FormatAssumption
  <2>6. Decoded(Head(line)).payload = sent[NextNo]
    BY <2>4, <2>5 DEF Decoded
  <2>7. Decoded(Head(line)) = [no |-> NextNo, payload |-> sent[NextNo]]
    BY <2>1, <2>6 DEF Decoded
  <2>8. /\ NextNo \in DOMAIN sent
        /\ \A i \in DOMAIN received : received[i].no < NextNo
    BY <2>3 DEF LinkInv, OrderInv, TypeOK
  <2>9. received' = Append(received, [no |-> NextNo, payload |-> sent[NextNo]])
        /\ UNCHANGED sent
    BY <1>2, <2>7 DEF Accept
  <2> QED
    BY <2>8, <2>9 DEF Link!Next, Link!Deliver
<1>3. CASE UNCHANGED <<sent, received>>
  BY <1>3 DEF Link!vars
<1> QED
  BY <1>1, <1>2, <1>3
     DEF Next, Receive, LoseByte, Call, Deadline, Scan, Collect, Refuse, vars

\* As long as no more bytes are lost within one frame than a header has, nor
\* so many that a payload looks like one, receive() makes no frame of the
\* pieces of two: whatever is lost between the frames and however often, it
\* is a link that loses frames, and returns the others whole, once and in
\* order.
THEOREM StreamImplementsLink ==
    ASSUME HeaderUnique(MaxGap), MaxGap =< Len(Header)
    PROVE  Spec => ImplementsLink
<1>0. FewLost
  BY DEF FewLost
<1>1. ASSUME Init
      PROVE  LinkInv /\ Link!Init
  <2>1. /\ gap = 0 /\ MaxGap \in Nat /\ buf = <<>> /\ InHeader
        /\ received = <<>> /\ sent = <<>>
    BY <1>1, FormatFacts, BoundsAssumption DEF Init, InHeader
  <2>2. GapInv /\ SeekInv /\ CollectInv
    BY <2>1 DEF GapInv, SeekInv, CollectInv
  <2>3. OrderInv
    BY <2>1 DEF OrderInv
  <2> QED
    BY <2>1, <2>2, <2>3 DEF LinkInv, Link!Init
<1>2. ASSUME TypeOK, TypeOK', LineInv, LinkInv, [Next]_vars
      PROVE  LinkInv'
  <2>1. CASE UNCHANGED vars
    BY <1>2, <2>1
       DEF LinkInv, GapInv, SeekInv, CollectInv, OrderInv, InStep, InHeader,
           NextNo, Consumed, Behind, Last, Genuine, vars
  <2> QED
    BY <1>0, <1>2, <2>1, LinkLine, LinkReceive DEF Next
<1>3. ASSUME TypeOK, LineInv, LinkInv, [Next]_vars
      PROVE  [Link!Next]_(Link!vars)
  BY <1>0, <1>3, LinkStep
<1>4. Spec => []LinkInv
  BY <1>1, <1>2, TypeCorrect, LineAlways, PTL DEF Spec
<1> QED
  BY <1>1, <1>3, <1>4, TypeCorrect, LineAlways, PTL
     DEF Spec, ImplementsLink, Link!Spec

=============================================================================
