-------------------------- MODULE PyTransactProofs --------------------------
(***************************************************************************)
(* Proofs about PyTransact, for every set of requests and events, every    *)
(* number of receive threads, retries, calls and sessions and every queue  *)
(* length.                                                                 *)
(***************************************************************************)
EXTENDS PyTransact, SequenceTheorems, TLAPS

-----------------------------------------------------------------------------
(* Facts about the data                                                    *)

\* There is a key, and so the frame that stands for none is a frame.
LEMMA DataTypes ==
    /\ NoFrame \in Wire /\ NoFrame.uid = 0 /\ NoFrame.key \in Keys
    /\ Reads \subseteq Keys /\ Writes \subseteq Keys
    /\ Unsolicited \subseteq Keys /\ NoThread \notin Threads
<1>1. (CHOOSE k \in Keys : TRUE) \in Keys
  BY KeyAssumption
<1> QED
  BY <1>1, KeyAssumption DEF NoFrame, Wire

\* The head of a queue that is not empty is one of its elements, its tail
\* again such a queue, shorter by one.
LEMMA QueueType ==
    ASSUME NEW S, NEW q \in Seq(S), q # <<>>
    PROVE  /\ Head(q) \in S /\ Tail(q) \in Seq(S)
           /\ Len(q) \in Nat /\ Len(Tail(q)) = Len(q) - 1
BY SMT, HeadTailProperties

\* The flags are typed one by one.
LEMMA FlagTypes ==
    ASSUME NEW a, NEW b, NEW c, NEW d, NEW e
    PROVE  {a, b, c, d, e} \subseteq BOOLEAN
               <=> /\ a \in BOOLEAN /\ b \in BOOLEAN /\ c \in BOOLEAN
                   /\ d \in BOOLEAN /\ e \in BOOLEAN
OBVIOUS

\* Counting towards a bound keeps the counters numbers.
LEMMA SpendType ==
    ASSUME TypeOK, NEW kind \in DOMAIN Limit, Spend(kind)
    PROVE  /\ used' \in [DOMAIN Limit -> Nat]
           /\ used'[kind] = used[kind] + 1 /\ used[kind] \in Nat
BY DEF TypeOK, Spend

-----------------------------------------------------------------------------
(* Type correctness                                                        *)

\* Every initial state is well typed.
LEMMA InitType == Init => TypeOK
<1> SUFFICES ASSUME Init PROVE TypeOK
  OBVIOUS
<1>1. /\ used \in [DOMAIN Limit -> Nat] /\ attempt \in 0 .. MaxRetries
      /\ Len(events) =< MaxQueue
  BY ConfigAssumption DEF Init, Limit
<1>2. rx \in [Threads -> [pc : {"none", "check", "receive", "match",
                                "enqueue"}, frame : Wire]]
  BY DataTypes DEF Init
<1>3. result \in [outcome : {"none", "ok", "posted", "timeout", "transport"},
                  request : Keys, reply : Keys]
  BY DataTypes DEF Init
<1>4. /\ events \in Seq(Wire) /\ toDev \in Seq(Keys) /\ toHost \in Seq(Wire)
      /\ request \in Keys
  BY DataTypes DEF Init
<1>5. /\ {isOpen, running, done, leftover, stray} \subseteq BOOLEAN
      /\ {calls, sent, session} \subseteq Nat
  <2>1. /\ isOpen \in BOOLEAN /\ running \in BOOLEAN /\ done \in BOOLEAN
        /\ leftover \in BOOLEAN /\ stray \in BOOLEAN
    BY DEF Init
  <2>2. {calls, sent, session} \subseteq Nat
    BY DEF Init
  <2> QED
    BY <2>1, <2>2, FlagTypes
<1>6. /\ callerPc = "idle" /\ mine = NoThread /\ pending = {}
      /\ response = {} /\ owed = {}
  BY DEF Init
<1> QED
  BY <1>1, <1>2, <1>3, <1>4, <1>5, <1>6 DEF TypeOK

\* Opening, draining and closing keep every type.
LEMMA SessionType ==
    ASSUME TypeOK, Session
    PROVE  TypeOK'
<1>1. CASE ConnectOpen
  <2>1. used' \in [DOMAIN Limit -> Nat]
    BY <1>1, SpendType DEF ConnectOpen, Limit
  <2>2. {isOpen', running', done', leftover', stray'} \subseteq BOOLEAN
    <3>1. /\ isOpen \in BOOLEAN /\ running \in BOOLEAN /\ done \in BOOLEAN
          /\ leftover \in BOOLEAN /\ stray \in BOOLEAN
      BY FlagTypes DEF TypeOK
    <3>2. /\ isOpen' \in BOOLEAN /\ running' \in BOOLEAN /\ done' \in BOOLEAN
          /\ leftover' \in BOOLEAN /\ stray' \in BOOLEAN
      BY <1>1, <3>1 DEF ConnectOpen, rxVars, pendVars, flags
    <3> QED
      BY <3>2, FlagTypes
  <2>3. toHost' \in Seq(Wire) /\ owed' \subseteq Nat
    <3>1. owed \subseteq Nat /\ <<>> \in Seq(Wire)
      BY DEF TypeOK
    <3>2. toHost' = <<>> /\ owed' \subseteq owed
      BY <1>1 DEF ConnectOpen
    <3> QED
      BY <3>1, <3>2
  <2> QED
    BY <1>1, <2>1, <2>2, <2>3
       DEF TypeOK, ConnectOpen, rxVars, pendVars, flags
<1>2. CASE DrainFrame
  BY <1>2, QueueType
     DEF TypeOK, DrainFrame, callerVars, rxVars, pendVars, counters, flags
<1>3. CASE DrainFault
  BY <1>3
     DEF TypeOK, DrainFault, rxVars, pendVars, busVars, counters, flags
<1>4. CASE StartThread
  <2>1. PICK t \in Threads : rx' = [rx EXCEPT ![t].pc = "check"] /\ mine' = t
    BY <1>4 DEF StartThread
  <2>2. rx' \in [Threads -> [pc : {"none", "check", "receive", "match",
                                   "enqueue"}, frame : Wire]]
    BY <2>1 DEF TypeOK
  <2> QED
    BY <1>4, <2>1, <2>2 DEF TypeOK, StartThread, pendVars, busVars, counters
<1>5. CASE DisconnectStop
  BY <1>5
     DEF TypeOK, DisconnectStop, pendVars, busVars, counters, flags
<1>6. CASE DisconnectFinish
  <2>1. {isOpen', running', done', leftover', stray'} \subseteq BOOLEAN
    <3>1. /\ isOpen \in BOOLEAN /\ running \in BOOLEAN /\ done \in BOOLEAN
          /\ leftover \in BOOLEAN /\ stray \in BOOLEAN
      BY FlagTypes DEF TypeOK
    <3>2. /\ isOpen' \in BOOLEAN /\ running' \in BOOLEAN /\ done' \in BOOLEAN
          /\ leftover' \in BOOLEAN /\ stray' \in BOOLEAN
      BY <1>6, <3>1 DEF DisconnectFinish
    <3> QED
      BY <3>2, FlagTypes
  <2>2. /\ toHost' \in Seq(Wire) /\ owed' \subseteq Nat
        /\ {calls', sent', session'} \subseteq Nat
    <3>1. /\ owed \subseteq Nat /\ {calls, sent, session} \subseteq Nat
          /\ <<>> \in Seq(Wire)
      BY DEF TypeOK
    <3>2. toHost' = <<>> /\ owed' \subseteq owed
      BY <1>6 DEF DisconnectFinish
    <3>3. {calls', sent', session'} \subseteq Nat
      BY <1>6, <3>1 DEF DisconnectFinish
    <3> QED
      BY <3>1, <3>2, <3>3
  <2> QED
    BY <1>6, <2>1, <2>2 DEF TypeOK, DisconnectFinish
<1> QED
  BY <1>1, <1>2, <1>3, <1>4, <1>5, <1>6 DEF Session

\* How a request ends is a result.
LEMMA EndedType ==
    ASSUME NEW k \in Keys, NEW r \in Keys,
           NEW o \in {"ok", "posted", "timeout", "transport"}, Ended(o, k, r)
    PROVE  result' \in [outcome : {"none", "ok", "posted", "timeout",
                                   "transport"}, request : Keys, reply : Keys]
BY DEF Ended

\* What is sent by a send() that raises is a queue of keys again.
LEMMA MaybeSentType ==
    ASSUME TypeOK, NEW k \in Keys, MaybeSent(k)
    PROVE  toDev' \in Seq(Keys)
<1>1. Append(toDev, k) \in Seq(Keys)
  BY DEF TypeOK
<1> QED
  BY <1>1 DEF TypeOK, MaybeSent

\* Making a request keeps every type.
LEMMA RequestType ==
    ASSUME TypeOK, ReadRegister \/ SendWriteImmediate
    PROVE  TypeOK'
<1>1. PICK k \in Keys : Transact(k) \/ Post(k) \/ PostRaises(k)
  BY DataTypes DEF ReadRegister, SendWriteImmediate
<1>2. calls' \in Nat
  BY DEF ReadRegister, SendWriteImmediate, TypeOK
<1>3. CASE Transact(k)
  BY <1>2, <1>3, ConfigAssumption
     DEF TypeOK, Transact, InTransact, rxVars, pendVars, busVars, flags
<1>4. CASE Post(k)
  <2>1. /\ result' \in [outcome : {"none", "ok", "posted", "timeout",
                                   "transport"}, request : Keys, reply : Keys]
        /\ Append(toDev, k) \in Seq(Keys)
    BY <1>4, DataTypes, EndedType DEF Post, TypeOK
  <2> QED
    BY <1>2, <1>4, <2>1 DEF TypeOK, Post, rxVars, pendVars, flags
<1>5. CASE PostRaises(k)
  <2>1. /\ result' \in [outcome : {"none", "ok", "posted", "timeout",
                                   "transport"}, request : Keys, reply : Keys]
        /\ toDev' \in Seq(Keys)
    BY <1>5, DataTypes, EndedType, MaybeSentType DEF PostRaises
  <2> QED
    BY <1>2, <1>5, <2>1
       DEF TypeOK, PostRaises, rxVars, pendVars, flags
<1> QED
  BY <1>1, <1>3, <1>4, <1>5

\* An attempt that fails leaves the variables it changes typed.
LEMMA FailsType ==
    ASSUME TypeOK, NEW o \in {"timeout", "transport"}, AttemptFails(o)
    PROVE  /\ callerPc' \in {"clear", "idle"} /\ attempt' \in 0 .. MaxRetries
           /\ result' \in [outcome : {"none", "ok", "posted", "timeout",
                                      "transport"}, request : Keys,
                           reply : Keys]
<1>1. /\ request \in Keys /\ NoFrame.key \in Keys
      /\ attempt \in 0 .. MaxRetries /\ MaxRetries \in Nat
      /\ result \in [outcome : {"none", "ok", "posted", "timeout",
                                "transport"}, request : Keys, reply : Keys]
  BY DataTypes, ConfigAssumption DEF TypeOK
<1>2. CASE AttemptsLeft
  BY <1>1, <1>2 DEF AttemptFails, AttemptsLeft
<1>3. CASE ~ AttemptsLeft
  BY <1>1, <1>3, EndedType DEF AttemptFails
<1> QED
  BY <1>2, <1>3

\* The steps of a transact() under way keep every type.
LEMMA InCallType ==
    ASSUME TypeOK, InCall
    PROVE  TypeOK'
<1>0. 0 \in 0 .. MaxRetries /\ request \in Keys /\ NoFrame.key \in Keys
  BY DataTypes, ConfigAssumption DEF TypeOK
<1>1. CASE Clear
  BY <1>1
     DEF TypeOK, Clear, InTransact, rxVars, busVars, counters, flags
<1>2. CASE Arm
  BY <1>2
     DEF TypeOK, Arm, InTransact, rxVars, busVars, counters, flags
<1>3. CASE Send
  BY <1>3 DEF TypeOK, Send, InTransact, rxVars, pendVars, flags
<1>4. CASE SendRefused
  BY <1>4, FailsType
     DEF TypeOK, SendRefused, InTransact, rxVars, pendVars, busVars, counters
<1>5. CASE SendRaises
  <2>1. /\ result' \in [outcome : {"none", "ok", "posted", "timeout",
                                   "transport"}, request : Keys, reply : Keys]
        /\ toDev' \in Seq(Keys)
    BY <1>0, <1>5, EndedType, MaybeSentType DEF SendRaises
  <2> QED
    BY <1>0, <1>5, <2>1
       DEF TypeOK, SendRaises, rxVars, pendVars, counters
<1>6. CASE Wait
  BY <1>6
     DEF TypeOK, Wait, InTransact, rxVars, pendVars, busVars, counters, flags
<1>7. CASE Take
  <2>1. PICK r \in response : Ended("ok", request, r.key)
    BY <1>7 DEF Take
  <2>2. r.key \in Keys
    BY DEF TypeOK, Wire
  <2>3. result' \in [outcome : {"none", "ok", "posted", "timeout",
                                "transport"}, request : Keys, reply : Keys]
    BY <1>0, <2>1, <2>2, EndedType
  <2> QED
    BY <1>0, <1>7, <2>3 DEF TypeOK, Take, rxVars, busVars, counters
<1>8. CASE Expire
  BY <1>8, FailsType
     DEF TypeOK, Expire, InTransact, rxVars, busVars, counters
<1> QED
  BY <1>1, <1>2, <1>3, <1>4, <1>5, <1>6, <1>7, <1>8 DEF InCall

\* receive_event() keeps every type.
LEMMA EventsType ==
    ASSUME TypeOK, Events
    PROVE  TypeOK'
<1>1. CASE TakeEvent
  <2>0. events \in Seq(Wire) /\ Len(events) =< MaxQueue /\ MaxQueue \in Nat
    BY ConfigAssumption DEF TypeOK
  <2>1. /\ events' \in Seq(Wire) /\ Len(events') =< MaxQueue
        /\ owed' \subseteq Nat
    <3>1. /\ events # <<>> /\ events' = Tail(events)
          /\ owed' \subseteq owed
      BY <1>1 DEF TakeEvent, PopLeft
    <3>2. owed' \subseteq Nat
      BY <3>1 DEF TypeOK
    <3> QED
      BY <2>0, <3>1, <3>2, QueueType
  <2> QED
    BY <1>1, <2>1
       DEF TypeOK, TakeEvent, rxVars, pendVars, busVars, counters, flags
<1>2. CASE WaitForEvent
  BY <1>2
     DEF TypeOK, WaitForEvent, rxVars, pendVars, busVars, counters, flags
<1>3. CASE WakeWithout
  BY <1>3
     DEF TypeOK, WakeWithout, rxVars, pendVars, busVars, counters, flags
<1> QED
  BY <1>1, <1>2, <1>3 DEF Events

\* A receive thread keeps every type.
LEMMA RxType ==
    ASSUME TypeOK, NEW t \in Threads, Rx(t)
    PROVE  TypeOK'
<1> DEFINE Hand == [pc : {"none", "check", "receive", "match", "enqueue"},
                    frame : Wire]
<1>0. rx \in [Threads -> Hand] /\ NoFrame \in Wire
  BY DataTypes DEF TypeOK
<1>1. CASE RxCheck(t)
  <2>1. rx' \in [Threads -> Hand]
    BY <1>0, <1>1 DEF RxCheck
  <2> QED
    BY <1>1, <2>1
       DEF TypeOK, RxCheck, callerVars, pendVars, busVars, counters, flags
<1>2. CASE RxReceive(t)
  <2>1. rx' \in [Threads -> Hand] /\ toHost' \in Seq(Wire)
    BY <1>0, <1>2, QueueType DEF RxReceive, TypeOK
  <2> QED
    BY <1>2, <2>1
       DEF TypeOK, RxReceive, callerVars, pendVars, counters, flags
<1>3. CASE RxTear(t)
  BY <1>3, QueueType
     DEF TypeOK, RxTear, callerVars, rxVars, pendVars, counters, flags
<1>4. CASE RxRaises(t)
  <2>1. rx' \in [Threads -> Hand]
    BY <1>0, <1>4 DEF RxRaises
  <2> QED
    BY <1>4, <2>1
       DEF TypeOK, RxRaises, callerVars, pendVars, busVars, counters, flags
<1>5. CASE RxMatch(t)
  <2>1. rx[t].frame \in Wire
    BY <1>0
  <2>2. rx' \in [Threads -> Hand] /\ response' \subseteq Wire
    <3>1. response \subseteq Wire
      BY DEF TypeOK
    <3>2. CASE Matches(rx[t].frame.key)
      BY <1>0, <1>5, <2>1, <3>2 DEF RxMatch
    <3>3. CASE ~ Matches(rx[t].frame.key)
      <4>1. rx' = [rx EXCEPT ![t] = [rx[t] EXCEPT !.pc = "enqueue"]]
        BY <1>5, <3>3 DEF RxMatch
      <4>2. response' = response
        BY <1>5, <3>3 DEF RxMatch
      <4> QED
        BY <1>0, <3>1, <4>1, <4>2
    <3> QED
      BY <3>2, <3>3
  <2>3. {isOpen', running', done', leftover', stray'} \subseteq BOOLEAN
    <3>1. /\ isOpen \in BOOLEAN /\ running \in BOOLEAN /\ done \in BOOLEAN
          /\ leftover \in BOOLEAN /\ stray \in BOOLEAN
      BY FlagTypes DEF TypeOK
    <3>2. /\ isOpen' \in BOOLEAN /\ running' \in BOOLEAN /\ done' \in BOOLEAN
          /\ leftover' \in BOOLEAN /\ stray' \in BOOLEAN
      BY <1>5, <3>1 DEF RxMatch, busVars, flags
    <3> QED
      BY <3>2, FlagTypes
  <2> QED
    BY <1>5, <2>2, <2>3
       DEF TypeOK, RxMatch, callerVars, busVars, counters, flags
<1>6. CASE RxEnqueue(t)
  <2>1. rx[t].frame \in Wire
    BY <1>0
  <2>2. rx' \in [Threads -> Hand]
    BY <1>0, <1>6 DEF RxEnqueue
  <2>3. /\ events' \in Seq(Wire) /\ Len(events') =< MaxQueue
        /\ owed' \subseteq Nat
    <3>1. /\ events \in Seq(Wire) /\ Len(events) =< MaxQueue
          /\ MaxQueue \in Nat /\ Len(events) \in Nat /\ owed \subseteq Nat
      BY ConfigAssumption DEF TypeOK
    <3>2. owed' \subseteq owed
      BY <1>6 DEF RxEnqueue
    <3>3. CASE Len(events) < MaxQueue
      <4>1. events' = Append(events, rx[t].frame)
        BY <1>6, <3>3 DEF RxEnqueue
      <4> QED
        BY <2>1, <3>1, <3>2, <3>3, <4>1, AppendProperties
    <3>4. CASE ~ (Len(events) < MaxQueue)
      <4>1. events' = events
        BY <1>6, <3>4 DEF RxEnqueue
      <4> QED
        BY <3>1, <3>2, <4>1
    <3> QED
      BY <3>3, <3>4
  <2> QED
    BY <1>6, <2>2, <2>3
       DEF TypeOK, RxEnqueue, callerVars, pendVars, busVars, counters, flags
<1> QED
  BY <1>1, <1>2, <1>3, <1>4, <1>5, <1>6 DEF Rx

\* A frame that arrives is a frame of the buffer.
LEMMA ArriveType ==
    ASSUME TypeOK, NEW k \in Keys, NEW uid \in Nat, Arrive(k, uid)
    PROVE  toHost' \in Seq(Wire)
<1>1. [key |-> k, uid |-> uid, session |-> session] \in Wire
  BY DEF Wire, TypeOK
<1> QED
  BY <1>1 DEF Arrive, TypeOK

\* The bus and the gripper keep every type.
LEMMA BusType ==
    ASSUME TypeOK, Bus
    PROVE  TypeOK'
<1>1. CASE DeviceServe
  <2>1. Head(toDev) \in Keys /\ Tail(toDev) \in Seq(Keys)
    BY <1>1, QueueType DEF DeviceServe, TypeOK
  <2>2. toHost' \in Seq(Wire)
    BY <1>1, <2>1, ArriveType DEF DeviceServe
  <2> QED
    BY <1>1, <2>1, <2>2
       DEF TypeOK, DeviceServe, callerVars, rxVars, pendVars, counters, flags
<1>2. CASE Lose
  BY <1>2, QueueType
     DEF TypeOK, Lose, callerVars, rxVars, pendVars, counters, flags
<1>3. CASE DeviceEvent
  <2>1. used' \in [DOMAIN Limit -> Nat] /\ used'.events \in Nat
    BY <1>3, SpendType DEF DeviceEvent, Limit
  <2>2. toHost' \in Seq(Wire)
    BY <1>3, <2>1, ArriveType, DataTypes DEF DeviceEvent
  <2> QED
    BY <1>3, <2>1, <2>2
       DEF TypeOK, DeviceEvent, callerVars, rxVars, pendVars, flags
<1> QED
  BY <1>1, <1>2, <1>3 DEF Bus

\* Type correctness: whatever the application's thread, any number of receive
\* threads, the bus and the gripper do, every variable keeps its type and the
\* event queue its limit.
THEOREM TypeCorrect == Spec => []TypeOK
<1>1. ASSUME TypeOK, [Next]_vars
      PROVE  TypeOK'
  <2>1. CASE UNCHANGED vars
    BY <1>1, <2>1
       DEF TypeOK, vars, callerVars, rxVars, pendVars, busVars, counters,
           flags
  <2> QED
    BY <1>1, <2>1, RequestType, InCallType, SessionType, EventsType, RxType,
       BusType DEF Next
<1> QED
  BY InitType, <1>1, PTL DEF Spec

-----------------------------------------------------------------------------
(* The frames of the gripper's own are kept                                *)

\* The numbers in a queue, one frame at a time.
LEMMA UidsEmpty == Uids(<<>>) = {}
BY DEF Uids

LEMMA UidsAppend ==
    ASSUME NEW s \in Seq(Wire), NEW e \in Wire
    PROVE  Uids(Append(s, e)) = Uids(s) \cup ({e.uid} \ {0})
<1>1. /\ Len(Append(s, e)) = Len(s) + 1 /\ Len(s) \in Nat
      /\ Append(s, e) \in Seq(Wire)
      /\ \A i \in 1 .. Len(s) : Append(s, e)[i] = s[i]
      /\ Append(s, e)[Len(s) + 1] = e
  BY AppendProperties
<1>2. /\ DOMAIN s = 1 .. Len(s)
      /\ DOMAIN Append(s, e) = 1 .. Len(Append(s, e))
  BY <1>1, LenProperties
<1>3. 1 .. (Len(s) + 1) = (1 .. Len(s)) \cup {Len(s) + 1}
  BY <1>1
<1>4. {Append(s, e)[i].uid : i \in 1 .. (Len(s) + 1)}
          = {s[i].uid : i \in 1 .. Len(s)} \cup {e.uid}
  BY <1>1, <1>3
<1> QED
  BY <1>1, <1>2, <1>4 DEF Uids

LEMMA UidsTail ==
    ASSUME NEW s \in Seq(Wire), s # <<>>
    PROVE  Uids(s) = ({Head(s).uid} \ {0}) \cup Uids(Tail(s))
<1>1. /\ Len(Tail(s)) = Len(s) - 1 /\ Len(s) \in Nat \ {0}
      /\ Tail(s) \in Seq(Wire) /\ Head(s) = s[1]
      /\ \A i \in 1 .. Len(Tail(s)) : Tail(s)[i] = s[i + 1]
  BY SMT, HeadTailProperties, EmptySeq
<1>2. /\ DOMAIN s = 1 .. Len(s)
      /\ DOMAIN Tail(s) = 1 .. Len(Tail(s))
  BY <1>1, LenProperties
<1>3. \A i \in 1 .. Len(s) : i = 1 \/ i - 1 \in 1 .. Len(Tail(s))
  BY <1>1
<1>4. \A i \in 1 .. Len(Tail(s)) : i + 1 \in 1 .. Len(s)
  BY <1>1
<1>5. {s[i].uid : i \in 1 .. Len(s)}
          = {Tail(s)[i].uid : i \in 1 .. Len(Tail(s))} \cup {Head(s).uid}
  <2>1. ASSUME NEW i \in 1 .. Len(s)
        PROVE  s[i].uid \in {Tail(s)[j].uid : j \in 1 .. Len(Tail(s))}
                                \cup {Head(s).uid}
    <3>1. CASE i = 1
      BY <1>1, <3>1
    <3>2. CASE i - 1 \in 1 .. Len(Tail(s))
      <4>1. Tail(s)[i - 1] = s[i]
        BY <1>1, <3>2
      <4> QED
        BY <3>2, <4>1
    <3> QED
      BY <1>3, <3>1, <3>2
  <2>2. ASSUME NEW j \in 1 .. Len(Tail(s))
        PROVE  Tail(s)[j].uid \in {s[i].uid : i \in 1 .. Len(s)}
    BY <1>1, <1>4
  <2>3. Head(s).uid \in {s[i].uid : i \in 1 .. Len(s)}
    BY <1>1
  <2> QED
    BY <2>1, <2>2, <2>3
<1> QED
  BY <1>2, <1>5 DEF Uids

\* Thread t has a frame in hand.
HasFrame(t) == rx[t].pc \in {"match", "enqueue"}

\* What the threads have in hand.
InHand == {rx[t].frame.uid : t \in Threads}

\* Inductive: a request is pending or in transact() only if it is one that the
\* application makes; a frame with a number is on its way from the gripper's
\* own frames, and so no pending request takes it for its answer; numbers that
\* are owed have been given out, and none of them is among the frames that a
\* drain throws away.
KeptInv ==
    /\ pending \subseteq Reads \cup Writes
    /\ callerPc \in InTransact => request \in Reads \cup Writes
    /\ owed \subseteq 1 .. used.events
    /\ \A i \in 1 .. Len(toHost) :
           toHost[i].uid # 0 => toHost[i].key \in Unsolicited
    /\ \A t \in Threads :
           rx[t].frame.uid # 0
               => HasFrame(t) /\ rx[t].frame.key \in Unsolicited
    /\ callerPc = "drain" => owed \cap Uids(toHost) = {}
    /\ EventsKept

\* The types that the steps below look at.
LEMMA KeptTypes ==
    ASSUME TypeOK
    PROVE  /\ events \in Seq(Wire) /\ toHost \in Seq(Wire)
           /\ rx \in [Threads -> [pc : {"none", "check", "receive", "match",
                                        "enqueue"}, frame : Wire]]
           /\ used \in [DOMAIN Limit -> Nat] /\ used.events \in Nat
           /\ NoFrame.uid = 0
BY DataTypes DEF TypeOK, Limit

\* A step that moves no frame and does not begin to drain.
LEMMA KeptStill ==
    ASSUME KeptInv, UNCHANGED <<events, toHost, rx, owed, used>>,
           pending' \subseteq Reads \cup Writes,
           callerPc' \in InTransact => request' \in Reads \cup Writes,
           callerPc' = "drain" => callerPc = "drain"
    PROVE  KeptInv'
BY DEF KeptInv, EventsKept, HasFrame, Uids

\* Requests, the steps of transact() and those that only change who waits.
LEMMA KeptStillSteps ==
    ASSUME TypeOK, KeptInv,
           \/ ReadRegister \/ SendWriteImmediate \/ InCall
           \/ DrainFault \/ DisconnectStop \/ WaitForEvent \/ WakeWithout
           \/ Lose \/ UNCHANGED vars
    PROVE  KeptInv'
<1>0. /\ pending \subseteq Reads \cup Writes
      /\ callerPc \in InTransact => request \in Reads \cup Writes
  BY DEF KeptInv
<1>1. CASE ReadRegister \/ SendWriteImmediate
  <2>1. PICK k \in Reads \cup Writes : Transact(k) \/ Post(k) \/ PostRaises(k)
    BY <1>1 DEF ReadRegister, SendWriteImmediate
  <2>2. callerPc = "idle"
    BY <1>1 DEF ReadRegister, SendWriteImmediate
  <2>3. /\ UNCHANGED <<events, toHost, rx, owed, used, pending>>
        /\ callerPc' \in InTransact => request' \in Reads \cup Writes
        /\ callerPc' # "drain"
    BY <2>1, <2>2
       DEF Transact, Post, PostRaises, rxVars, pendVars, busVars, InTransact
  <2> QED
    BY <1>0, <2>3, KeptStill
<1>2. CASE InCall
  <2>1. callerPc \in InTransact /\ callerPc' # "drain"
    BY <1>2
       DEF InCall, Clear, Arm, Send, SendRefused, SendRaises, Wait, Take,
           Expire, AttemptFails, InTransact
  <2>2. UNCHANGED <<events, toHost, rx, owed, used, request>>
    BY <1>2
       DEF InCall, Clear, Arm, Send, SendRefused, SendRaises, Wait, Take,
           Expire, rxVars, busVars, counters
  <2>3. pending' \subseteq Reads \cup Writes
    BY <1>0, <1>2, <2>1
       DEF InCall, Clear, Arm, Send, SendRefused, SendRaises, Wait, Take,
           Expire, pendVars
  <2> QED
    BY <1>0, <2>1, <2>2, <2>3, KeptStill
<1>3. CASE DrainFault \/ DisconnectStop \/ WaitForEvent \/ WakeWithout \/ Lose
           \/ UNCHANGED vars
  <2>1. /\ UNCHANGED <<events, toHost, rx, owed, used, pending, request>>
        /\ callerPc' \in {callerPc, "idle", "join", "waitevent"}
    BY <1>3
       DEF DrainFault, DisconnectStop, WaitForEvent, WakeWithout, Lose, vars,
           callerVars, rxVars, pendVars, busVars, counters
  <2> QED
    BY <1>0, <2>1, KeptStill DEF InTransact
<1> QED
  BY <1>1, <1>2, <1>3

\* Opening or closing the transport: what the buffer held is no longer owed.
LEMMA KeptClear ==
    ASSUME TypeOK, KeptInv, ConnectOpen \/ DisconnectFinish
    PROVE  KeptInv'
<1>1. /\ UNCHANGED <<rx, events, request>> /\ used'.events = used.events
      /\ toHost' = <<>> /\ owed' = owed \ Uids(toHost)
      /\ callerPc' \in {"drain", "idle"} /\ pending' \subseteq pending
  BY KeptTypes
     DEF ConnectOpen, DisconnectFinish, Spend, Limit, rxVars, pendVars
<1>2. Uids(toHost') = {} /\ Len(toHost') = 0
  BY <1>1, UidsEmpty
<1>3. EventsKept'
  <2> SUFFICES ASSUME Unsolicited \cap (Reads \cup Writes) = {}
               PROVE  owed' \subseteq Uids(events') \cup Uids(toHost')
                                         \cup {rx'[t].frame.uid : t \in Threads}
    BY DEF EventsKept
  <2>1. owed \subseteq Uids(events) \cup Uids(toHost) \cup InHand
    BY DEF KeptInv, EventsKept, InHand
  <2> QED
    BY <1>1, <2>1 DEF InHand
<1>4. /\ pending' \subseteq Reads \cup Writes
      /\ callerPc' \notin InTransact
      /\ owed' \subseteq 1 .. used'.events
  BY <1>1 DEF KeptInv, InTransact
<1>5. owed' \cap Uids(toHost') = {}
  BY <1>2
<1>6. \A t \in Threads :
          rx'[t].frame.uid # 0
              => rx'[t].pc \in {"match", "enqueue"}
                 /\ rx'[t].frame.key \in Unsolicited
  BY <1>1 DEF KeptInv, HasFrame
<1>7. \A i \in 1 .. Len(toHost') :
          toHost'[i].uid # 0 => toHost'[i].key \in Unsolicited
  BY <1>2
<1>8. (callerPc \in InTransact)' <=> callerPc' \in InTransact
  BY DEF InTransact
<1> QED
  BY <1>3, <1>4, <1>5, <1>6, <1>7, <1>8 DEF KeptInv, HasFrame, Uids

\* A step that changes threads but none of the numbers in their hands.
LEMMA KeptHands ==
    ASSUME TypeOK, KeptInv,
           UNCHANGED <<pending, request, events, toHost, owed, used>>,
           callerPc' = callerPc \/ callerPc' = "idle",
           \A t \in Threads :
               /\ rx'[t].frame.uid = rx[t].frame.uid
               /\ rx[t].frame.uid # 0
                      => /\ rx'[t].pc \in {"match", "enqueue"}
                         /\ rx'[t].frame = rx[t].frame
    PROVE  KeptInv'
<1>1. {rx'[t].frame.uid : t \in Threads} = InHand
  BY DEF InHand
<1>2. EventsKept'
  BY <1>1 DEF KeptInv, EventsKept, InHand, Uids
<1> QED
  BY <1>2 DEF KeptInv, InTransact, HasFrame, Uids

\* Threads that begin, look at _recv_running or get nothing have no frame.
LEMMA KeptLoopStep ==
    ASSUME TypeOK, KeptInv,
           StartThread \/ \E t \in Threads : RxCheck(t) \/ RxRaises(t)
    PROVE  KeptInv'
<1>1. PICK t \in Threads :
          /\ rx[t].pc \in {"none", "check", "receive"}
          /\ \/ rx' = [rx EXCEPT ![t].pc = "check"]
             \/ rx' = [rx EXCEPT ![t] = [@ EXCEPT !.pc = "receive"]]
             \/ rx' = [rx EXCEPT ![t] = [pc |-> "none", frame |-> NoFrame]]
  BY DEF StartThread, RxCheck, RxRaises, Alive
<1>2. rx[t].frame.uid = 0
  BY <1>1 DEF KeptInv, HasFrame
<1>3. \A o \in Threads \ {t} : rx'[o] = rx[o]
  BY <1>1, KeptTypes
<1>4. rx'[t].frame.uid = 0
  BY <1>1, <1>2, KeptTypes
<1>5. \A o \in Threads : rx[o].frame.uid # 0 => rx[o].pc \in {"match", "enqueue"}
  BY DEF KeptInv, HasFrame
<1>6. /\ UNCHANGED <<pending, request, events, toHost, owed, used>>
      /\ callerPc' = callerPc \/ callerPc' = "idle"
  BY DEF StartThread, RxCheck, RxRaises, callerVars, pendVars, busVars,
         counters
<1> QED
  BY <1>2, <1>3, <1>4, <1>5, <1>6, KeptHands

\* The drain throws away only what is not owed.
LEMMA KeptDrainStep ==
    ASSUME TypeOK, KeptInv, DrainFrame
    PROVE  KeptInv'
<1>1. /\ toHost # <<>> /\ toHost' = Tail(toHost) /\ callerPc = "drain"
      /\ UNCHANGED <<rx, events, owed, used, pending, callerPc, request>>
  BY DEF DrainFrame, callerVars, rxVars, pendVars, counters
<1>2. /\ Uids(toHost') \subseteq Uids(toHost)
      /\ \A i \in 1 .. Len(toHost') :
             i + 1 \in 1 .. Len(toHost) /\ toHost'[i] = toHost[i + 1]
  BY <1>1, UidsTail, HeadTailProperties, KeptTypes
<1>3. owed \cap Uids(toHost) = {}
  BY <1>1 DEF KeptInv
<1>4. EventsKept'
  BY <1>1, <1>3 DEF KeptInv, EventsKept, Uids
<1> QED
  BY <1>1, <1>2, <1>3, <1>4 DEF KeptInv, InTransact, HasFrame

\* receive_event() returns the head of the queue, which is owed no more.
LEMMA KeptTakeStep ==
    ASSUME TypeOK, KeptInv, TakeEvent
    PROVE  KeptInv'
<1>1. /\ events # <<>> /\ events' = Tail(events) /\ callerPc' = "idle"
      /\ owed' = owed \ {Head(events).uid}
      /\ UNCHANGED <<rx, toHost, used, pending, request>>
  BY DEF TakeEvent, PopLeft, rxVars, pendVars, busVars, counters
<1>2. Uids(events) = ({Head(events).uid} \ {0}) \cup Uids(events')
  BY <1>1, UidsTail, KeptTypes
<1>3. EventsKept'
  <2> SUFFICES ASSUME Unsolicited \cap (Reads \cup Writes) = {}
               PROVE  owed' \subseteq Uids(events') \cup Uids(toHost')
                                         \cup {rx'[t].frame.uid : t \in Threads}
    BY DEF EventsKept
  <2>1. owed \subseteq Uids(events) \cup Uids(toHost) \cup InHand
    BY DEF KeptInv, EventsKept, InHand
  <2>2. Uids(toHost') = Uids(toHost) /\ InHand = {rx'[t].frame.uid : t \in Threads}
    BY <1>1 DEF InHand
  <2> QED
    BY <1>1, <1>2, <2>1, <2>2
<1> QED
  BY <1>1, <1>3 DEF KeptInv, InTransact, HasFrame

\* A frame goes from the buffer into a hand that was empty, or is torn and
\* owed no more.
LEMMA KeptReceiveStep ==
    ASSUME TypeOK, KeptInv, NEW t \in Threads, RxReceive(t) \/ RxTear(t)
    PROVE  KeptInv'
<1>1. /\ toHost # <<>> /\ toHost' = Tail(toHost)
      /\ rx[t].pc = "receive"
      /\ UNCHANGED <<events, used, pending, callerPc, request>>
  BY DEF RxReceive, RxTear, callerVars, pendVars, counters
<1>2. /\ Uids(toHost) = ({Head(toHost).uid} \ {0}) \cup Uids(toHost')
      /\ \A i \in 1 .. Len(toHost') :
             i + 1 \in 1 .. Len(toHost) /\ toHost'[i] = toHost[i + 1]
      /\ 1 \in 1 .. Len(toHost) /\ Head(toHost) = toHost[1]
  BY <1>1, UidsTail, HeadTailProperties, EmptySeq, KeptTypes
<1>3. \A i \in 1 .. Len(toHost') :
          toHost'[i].uid # 0 => toHost'[i].key \in Unsolicited
  BY <1>2 DEF KeptInv
<1>4. rx[t].frame.uid = 0 /\ owed \subseteq 1 .. used.events
  BY <1>1 DEF KeptInv, HasFrame
<1>5. 0 \notin owed
  BY <1>4, KeptTypes
<1>6. Unsolicited \cap (Reads \cup Writes) = {}
          => owed \subseteq Uids(events) \cup Uids(toHost) \cup InHand
  BY DEF KeptInv, EventsKept, InHand
<1>7. /\ pending' \subseteq Reads \cup Writes
      /\ callerPc' \in InTransact => request' \in Reads \cup Writes
      /\ callerPc' = "drain" => owed \cap Uids(toHost') = {}
  BY <1>1, <1>2 DEF KeptInv
<1>8. CASE RxReceive(t)
  <2>1. /\ rx'[t] = [pc |-> "match", frame |-> Head(toHost)]
        /\ \A o \in Threads \ {t} : rx'[o] = rx[o]
        /\ owed' = owed
    BY <1>8, KeptTypes DEF RxReceive
  <2>2. \A o \in Threads :
            rx'[o].frame.uid # 0
                => rx'[o].pc \in {"match", "enqueue"}
                   /\ rx'[o].frame.key \in Unsolicited
    <3>1. Head(toHost).uid # 0 => Head(toHost).key \in Unsolicited
      BY <1>2 DEF KeptInv
    <3> QED
      BY <2>1, <3>1 DEF KeptInv, HasFrame
  <2>3. EventsKept'
    <3> SUFFICES ASSUME Unsolicited \cap (Reads \cup Writes) = {}
                 PROVE  owed' \subseteq
                            Uids(events') \cup Uids(toHost')
                                \cup {rx'[o].frame.uid : o \in Threads}
      BY DEF EventsKept
    <3>1. InHand \subseteq {rx'[o].frame.uid : o \in Threads} \cup {0}
      BY <1>4, <2>1 DEF InHand
    <3>2. Head(toHost).uid \in {rx'[o].frame.uid : o \in Threads}
      BY <2>1
    <3> QED
      BY <1>1, <1>2, <1>5, <1>6, <2>1, <3>1, <3>2
  <2> QED
    BY <1>1, <1>3, <1>4, <1>7, <2>1, <2>2, <2>3
       DEF KeptInv, HasFrame, InTransact, Uids
<1>9. CASE RxTear(t)
  <2>1. rx' = rx /\ owed' = owed \ {Head(toHost).uid}
    BY <1>9 DEF RxTear, rxVars
  <2>2. EventsKept'
    <3> SUFFICES ASSUME Unsolicited \cap (Reads \cup Writes) = {}
                 PROVE  owed' \subseteq
                            Uids(events') \cup Uids(toHost')
                                \cup {rx'[o].frame.uid : o \in Threads}
      BY DEF EventsKept
    <3>1. InHand = {rx'[o].frame.uid : o \in Threads}
      BY <2>1 DEF InHand
    <3> QED
      BY <1>1, <1>2, <1>6, <2>1, <3>1
  <2>3. callerPc' = "drain" => owed' \cap Uids(toHost') = {}
    BY <1>7, <2>1
  <2> QED
    BY <1>1, <1>3, <1>4, <1>7, <2>1, <2>2, <2>3
       DEF KeptInv, HasFrame, InTransact, Uids
<1> QED
  BY <1>8, <1>9

\* A frame that matches is no frame of the gripper's own; any other stays in
\* the hand until it is appended to the queue, or dropped and owed no more.
LEMMA KeptMatchStep ==
    ASSUME TypeOK, KeptInv, NEW t \in Threads, RxMatch(t)
    PROVE  KeptInv'
<1>0. /\ UNCHANGED <<events, toHost, used, pending, callerPc, request, owed>>
      /\ \A o \in Threads \ {t} : rx'[o] = rx[o]
  BY KeptTypes
     DEF RxMatch, callerVars, busVars, counters
<1>1. CASE Matches(rx[t].frame.key)
  <2>1. rx'[t] = [pc |-> "check", frame |-> NoFrame]
    BY <1>1, KeptTypes DEF RxMatch
  <2>2. \A o \in Threads :
            rx'[o].frame.uid # 0
                => rx'[o].pc \in {"match", "enqueue"}
                   /\ rx'[o].frame.key \in Unsolicited
    <3>1. rx'[t].frame.uid = 0
      BY <2>1, DataTypes
    <3>2. \A o \in Threads \ {t} :
              rx[o].frame.uid # 0
                  => rx[o].pc \in {"match", "enqueue"}
                     /\ rx[o].frame.key \in Unsolicited
      BY DEF KeptInv, HasFrame
    <3> QED
      BY <1>0, <3>1, <3>2
  <2>3. EventsKept'
    <3> SUFFICES ASSUME Unsolicited \cap (Reads \cup Writes) = {}
                 PROVE  owed' \subseteq
                            Uids(events') \cup Uids(toHost')
                                \cup {rx'[o].frame.uid : o \in Threads}
      BY DEF EventsKept
    <3>1. rx[t].frame.uid = 0
      BY <1>1 DEF KeptInv, Matches
    <3>2. InHand \subseteq {rx'[o].frame.uid : o \in Threads} \cup {0}
      BY <1>0, <3>1 DEF InHand
    <3>3. owed \subseteq 1 .. used.events
      BY DEF KeptInv
    <3>4. 0 \notin owed
      BY <3>3, KeptTypes
    <3>5. owed \subseteq Uids(events) \cup Uids(toHost) \cup InHand
      BY DEF KeptInv, EventsKept, InHand
    <3> QED
      BY <1>0, <3>2, <3>4, <3>5
  <2> QED
    BY <1>0, <2>2, <2>3 DEF KeptInv, HasFrame, InTransact, Uids
<1>2. CASE ~ Matches(rx[t].frame.key)
  <2>1. rx'[t] = [rx[t] EXCEPT !.pc = "enqueue"]
    BY <1>2, KeptTypes DEF RxMatch
  <2>2. rx'[t].frame = rx[t].frame /\ rx'[t].pc = "enqueue"
    BY <2>1, KeptTypes
  <2>3. \A o \in Threads :
            /\ rx'[o].frame = rx[o].frame
            /\ rx[o].frame.uid # 0 => rx'[o].pc \in {"match", "enqueue"}
    BY <1>0, <2>2 DEF KeptInv, HasFrame
  <2> QED
    BY <1>0, <2>3, KeptHands
<1> QED
  BY <1>1, <1>2

LEMMA KeptEnqueueStep ==
    ASSUME TypeOK, KeptInv, NEW t \in Threads, RxEnqueue(t)
    PROVE  KeptInv'
<1>1. /\ UNCHANGED <<toHost, used, pending, callerPc, request>>
      /\ \A o \in Threads \ {t} : rx'[o] = rx[o]
      /\ rx'[t] = [pc |-> "check", frame |-> NoFrame]
  BY KeptTypes
     DEF RxEnqueue, callerVars, pendVars, busVars, counters
<1>2. \A o \in Threads :
          rx'[o].frame.uid # 0
              => rx'[o].pc \in {"match", "enqueue"}
                 /\ rx'[o].frame.key \in Unsolicited
  <2>1. rx'[t].frame.uid = 0
    BY <1>1, DataTypes
  <2>2. \A o \in Threads \ {t} :
            rx[o].frame.uid # 0
                => rx[o].pc \in {"match", "enqueue"}
                   /\ rx[o].frame.key \in Unsolicited
    BY DEF KeptInv, HasFrame
  <2> QED
    BY <1>1, <2>1, <2>2
<1>3. /\ owed' \subseteq owed
      /\ owed' \subseteq 1 .. used'.events
  BY <1>1 DEF RxEnqueue, KeptInv
<1>4. EventsKept'
  <2> SUFFICES ASSUME Unsolicited \cap (Reads \cup Writes) = {}
               PROVE  owed' \subseteq
                          Uids(events') \cup Uids(toHost')
                              \cup {rx'[o].frame.uid : o \in Threads}
    BY DEF EventsKept
  <2>1. InHand \subseteq {rx'[o].frame.uid : o \in Threads}
                             \cup {rx[t].frame.uid}
    BY <1>1 DEF InHand
  <2>2. owed \subseteq Uids(events) \cup Uids(toHost) \cup InHand
    BY DEF KeptInv, EventsKept, InHand
  <2>3. 0 \notin owed'
    BY <1>3, KeptTypes
  <2>4. CASE Len(events) < MaxQueue
    <3>1. events' = Append(events, rx[t].frame) /\ owed' = owed
      BY <2>4 DEF RxEnqueue
    <3>2. Uids(events') = Uids(events) \cup ({rx[t].frame.uid} \ {0})
      BY <3>1, UidsAppend, KeptTypes
    <3> QED
      BY <1>1, <2>1, <2>2, <2>3, <3>1, <3>2
  <2>5. CASE ~ (Len(events) < MaxQueue)
    <3>1. events' = events /\ owed' = owed \ {rx[t].frame.uid}
      BY <2>5 DEF RxEnqueue
    <3> QED
      BY <1>1, <2>1, <2>2, <3>1
  <2> QED
    BY <2>4, <2>5
<1> QED
  BY <1>1, <1>2, <1>3, <1>4 DEF KeptInv, HasFrame, InTransact, Uids

\* A frame that arrives is the last of the buffer, if the transport is open.
LEMMA KeptArriveStep ==
    ASSUME TypeOK, KeptInv, NEW k \in Keys, NEW uid \in Nat, Arrive(k, uid),
           uid # 0 => k \in Unsolicited,
           UNCHANGED <<callerPc, request, pending, rx, events>>,
           used'.events \in Nat /\ used.events =< used'.events,
           uid \notin owed,
           \/ owed' = owed
           \/ /\ owed' = owed \cup {uid} /\ uid \in 1 .. used'.events
              /\ isOpen /\ callerPc # "drain"
    PROVE  KeptInv'
<1> DEFINE f == [key |-> k, uid |-> uid, session |-> session]
<1>0. f \in Wire /\ f.uid = uid /\ f.key = k
  BY DEF Wire, TypeOK
<1>1. /\ ~ isOpen => toHost' = toHost
      /\ isOpen => toHost' = Append(toHost, f)
  BY DEF Arrive
<1> HIDE DEF f
<1>2. /\ isOpen => Uids(toHost') = Uids(toHost) \cup ({uid} \ {0})
      /\ ~ isOpen => Uids(toHost') = Uids(toHost)
  BY <1>0, <1>1, UidsAppend, KeptTypes
<1>3. \A i \in 1 .. Len(toHost') :
          toHost'[i].uid # 0 => toHost'[i].key \in Unsolicited
  <2>1. CASE isOpen
    <3>1. \A i \in 1 .. Len(toHost') :
              toHost'[i] = f \/ (i \in 1 .. Len(toHost)
                                 /\ toHost'[i] = toHost[i])
      BY <1>0, <1>1, <2>1, AppendProperties, KeptTypes
    <3> QED
      BY <1>0, <3>1 DEF KeptInv
  <2>2. CASE ~ isOpen
    BY <1>1, <2>2 DEF KeptInv
  <2> QED
    BY <2>1, <2>2
<1>4. owed' \subseteq 1 .. used'.events
  <2>1. owed \subseteq 1 .. used.events
    BY DEF KeptInv
  <2>2. 1 .. used.events \subseteq 1 .. used'.events
    BY KeptTypes
  <2> QED
    BY <2>1, <2>2
<1>5. callerPc' = "drain" => owed' \cap Uids(toHost') = {}
  BY <1>2 DEF KeptInv
<1>6. EventsKept'
  <2> SUFFICES ASSUME Unsolicited \cap (Reads \cup Writes) = {}
               PROVE  owed' \subseteq
                          Uids(events') \cup Uids(toHost')
                              \cup {rx'[o].frame.uid : o \in Threads}
    BY DEF EventsKept
  <2>1. owed \subseteq Uids(events) \cup Uids(toHost) \cup InHand
    BY DEF KeptInv, EventsKept, InHand
  <2>2. InHand = {rx'[o].frame.uid : o \in Threads}
    BY DEF InHand
  <2>3. Uids(toHost) \subseteq Uids(toHost')
    BY <1>2
  <2>4. CASE owed' = owed
    BY <2>1, <2>2, <2>3, <2>4
  <2>5. CASE owed' = owed \cup {uid} /\ uid \in 1 .. used'.events /\ isOpen
    <3>1. uid # 0
      BY <2>5
    <3>2. uid \in Uids(toHost')
      BY <1>2, <2>5, <3>1
    <3> QED
      BY <2>1, <2>2, <2>3, <2>5, <3>2
  <2> QED
    BY <2>4, <2>5
<1> QED
  BY <1>3, <1>4, <1>5, <1>6 DEF KeptInv, HasFrame, InTransact, Uids

LEMMA KeptBusStep ==
    ASSUME TypeOK, KeptInv, DeviceServe \/ DeviceEvent
    PROVE  KeptInv'
<1>0. owed \subseteq 1 .. used.events
  BY DEF KeptInv
<1>1. CASE DeviceServe
  <2>1. Head(toDev) \in Keys
    BY <1>1, QueueType DEF DeviceServe, TypeOK
  <2>2. /\ Arrive(Head(toDev), 0) /\ owed' = owed
        /\ UNCHANGED <<callerPc, request, pending, rx, events, used>>
    BY <1>1 DEF DeviceServe, callerVars, rxVars, pendVars, counters
  <2>3. 0 \notin owed
    BY <1>0, KeptTypes
  <2> QED
    BY <2>1, <2>2, <2>3, KeptTypes, KeptArriveStep
<1>2. CASE DeviceEvent
  <2>1. used'.events = used.events + 1 /\ used.events \in Nat
    BY <1>2, SpendType DEF DeviceEvent, Limit
  <2>2. PICK k \in Unsolicited : Arrive(k, used'.events)
    BY <1>2 DEF DeviceEvent
  <2>3. UNCHANGED <<callerPc, request, pending, rx, events>>
    BY <1>2 DEF DeviceEvent, callerVars, rxVars, pendVars
  <2>4. used'.events \notin owed /\ used'.events \in 1 .. used'.events
    BY <1>0, <2>1
  <2>5. owed' = IF isOpen /\ callerPc # "drain"
                  THEN owed \cup {used'.events} ELSE owed
    BY <1>2 DEF DeviceEvent
  <2>6. k \in Keys /\ used'.events \in Nat /\ used.events =< used'.events
    BY <2>1, DataTypes
  <2> QED
    BY <2>2, <2>3, <2>4, <2>5, <2>6, KeptArriveStep
<1> QED
  BY <1>1, <1>2

\* KeptInv holds throughout.
LEMMA KeptHolds == Spec => []KeptInv
<1>1. Init => KeptInv
  <2> SUFFICES ASSUME Init PROVE KeptInv
    OBVIOUS
  <2>1. Len(toHost) = 0 /\ NoFrame.uid = 0
    BY DataTypes DEF Init
  <2> QED
    BY <2>1 DEF Init, KeptInv, EventsKept, InTransact
<1>2. ASSUME TypeOK, KeptInv, [Next]_vars
      PROVE  KeptInv'
  BY <1>2, KeptStillSteps, KeptClear, KeptLoopStep, KeptDrainStep,
     KeptTakeStep, KeptReceiveStep, KeptMatchStep, KeptEnqueueStep, KeptBusStep
     DEF Next, Session, Events, Rx, Bus
<1> QED
  BY <1>1, <1>2, TypeCorrect, PTL DEF Spec

\* Every frame that the gripper sent of its own accord in a session, and that
\* no full queue, closed transport or second thread lost, is on its way to
\* receive_event() or there: no request takes it for its answer, no thread
\* drops it and no end or begin of a session throws it away.
THEOREM EventsAreKept == Spec => []EventsKept
<1>1. KeptInv => EventsKept
  BY DEF KeptInv
<1> QED
  BY <1>1, KeptHolds, PTL

-----------------------------------------------------------------------------
(* A wait that was signalled finds its answer                              *)

\* The request of an attempt is pending, and has been or is about to be sent.
InFlight == callerPc \in {"send", "wait", "take", "expire"}

\* Inductive, for the answer: outside an attempt nothing is pending, unless a
\* send left it, so that the flag stays cleared until the request is armed,
\* and whoever sets it afterwards has put a response there first.
SignalInv ==
    /\ ~ leftover /\ ~ InFlight => pending = {}
    /\ ~ leftover /\ callerPc = "arm" => ~ done
    /\ ~ leftover /\ InFlight /\ done => response # {}
    /\ callerPc = "take" => done

\* Inductive, for its session: the only thread alive is the one disconnect()
\* joins, unless one was left; so no frame is in hand when a session ends, and
\* what is in the buffer or in hand arrived in the session that is on.
SessionInv ==
    /\ ~ stray => Alive \subseteq {mine}
    /\ \A i \in 1 .. Len(toHost) : toHost[i].session = session
    /\ ~ stray => \A t \in Threads :
                      HasFrame(t) => rx[t].frame.session = session
    /\ ~ stray /\ InFlight => \A r \in response : r.session = session

\* SignalInv holds throughout.
LEMMA SignalHolds == Spec => []SignalInv
<1>1. Init => SignalInv
  BY DEF Init, SignalInv, InFlight
<1>2. ASSUME SignalInv, [Next]_vars
      PROVE  SignalInv'
  <2>1. CASE ReadRegister \/ SendWriteImmediate
    <3>1. PICK k : Transact(k) \/ Post(k) \/ PostRaises(k)
      BY <2>1 DEF ReadRegister, SendWriteImmediate
    <3>2. /\ callerPc = "idle" /\ callerPc' \in {"idle", "clear"}
          /\ UNCHANGED <<pending, response, done, leftover>>
      BY <2>1, <3>1
         DEF ReadRegister, SendWriteImmediate, Transact, Post, PostRaises,
             pendVars, flags
    <3> QED
      BY <1>2, <3>2 DEF SignalInv, InFlight
  <2>2. CASE Clear \/ Arm
    BY <1>2, <2>2 DEF Clear, Arm, SignalInv, InFlight, flags
  <2>3. CASE Send \/ Wait
    BY <1>2, <2>3 DEF Send, Wait, SignalInv, InFlight, flags, pendVars
  <2>4. CASE SendRefused \/ SendRaises
    <3>1. leftover' /\ callerPc' # "take"
      BY <2>4 DEF SendRefused, SendRaises, AttemptFails
    <3> QED
      BY <3>1 DEF SignalInv
  <2>5. CASE Take \/ Expire \/ DisconnectFinish
    <3>1. pending' = {} /\ callerPc' \in {"idle", "clear"}
      BY <2>5 DEF Take, Expire, DisconnectFinish, AttemptFails
    <3> QED
      BY <3>1 DEF SignalInv, InFlight
  <2>6. CASE \/ ConnectOpen \/ DrainFrame \/ DrainFault \/ StartThread
             \/ DisconnectStop \/ Events
    <3>1. /\ UNCHANGED <<pending, leftover>>
          /\ callerPc \in {"idle", "drain", "waitevent"}
          /\ callerPc' \in {"idle", "drain", "waitevent", "join"}
      BY <2>6
         DEF ConnectOpen, DrainFrame, DrainFault, StartThread, DisconnectStop,
             Events, TakeEvent, WaitForEvent, WakeWithout, pendVars, flags,
             callerVars
    <3> QED
      BY <1>2, <3>1 DEF SignalInv, InFlight
  <2>7. CASE \E t \in Threads : RxMatch(t)
    <3>1. PICK t \in Threads : RxMatch(t)
      BY <2>7
    <3>2. CASE Matches(rx[t].frame.key)
      BY <1>2, <3>1, <3>2
         DEF RxMatch, Matches, SignalInv, InFlight, callerVars, flags
    <3>3. CASE ~ Matches(rx[t].frame.key)
      BY <1>2, <3>1, <3>3
         DEF RxMatch, SignalInv, InFlight, callerVars, flags
    <3> QED
      BY <3>2, <3>3
  <2>8. CASE \/ Bus \/ UNCHANGED vars
             \/ \E t \in Threads :
                    RxCheck(t) \/ RxReceive(t) \/ RxTear(t) \/ RxRaises(t)
                    \/ RxEnqueue(t)
    <3>1. UNCHANGED <<callerPc, pending, response, done, leftover>>
      BY <2>8
         DEF Bus, DeviceServe, Lose, DeviceEvent, RxCheck, RxReceive, RxTear,
             RxRaises, RxEnqueue, vars, callerVars, pendVars, flags
    <3> QED
      BY <1>2, <3>1 DEF SignalInv, InFlight
  <2> QED
    BY <1>2, <2>1, <2>2, <2>3, <2>4, <2>5, <2>6, <2>7, <2>8
       DEF Next, InCall, Session, Rx
<1> QED
  BY <1>1, <1>2, PTL DEF Spec

\* A step that leaves the threads, the buffer and the session as they are,
\* and answers no attempt.
LEMMA SessionStill ==
    ASSUME SessionInv, UNCHANGED <<rx, mine, toHost, session, stray>>,
           InFlight' => response' = {} \/ (InFlight /\ response' = response)
    PROVE  SessionInv'
BY DEF SessionInv, Alive, HasFrame

\* A thread's step in a loop that is in its buffer's session.
LEMMA SessionRxStep ==
    ASSUME TypeOK, SessionInv, NEW t \in Threads, Rx(t)
    PROVE  SessionInv'
<1>0. /\ UNCHANGED <<mine, session, stray, callerPc>>
      /\ rx[t].pc # "none" /\ \A o \in Threads \ {t} : rx'[o] = rx[o]
  BY KeptTypes
     DEF Rx, RxCheck, RxReceive, RxTear, RxRaises, RxMatch, RxEnqueue,
         counters, flags, callerVars, rxVars
<1>1. ~ stray => Alive' \subseteq {mine}
  BY <1>0 DEF SessionInv, Alive
<1>2. \A i \in 1 .. Len(toHost') : toHost'[i].session = session
  <2>1. CASE toHost # <<>> /\ toHost' = Tail(toHost)
    <3>1. \A i \in 1 .. Len(toHost') :
              i + 1 \in 1 .. Len(toHost) /\ toHost'[i] = toHost[i + 1]
      BY <2>1, HeadTailProperties, KeptTypes
    <3> QED
      BY <3>1 DEF SessionInv
  <2>2. CASE toHost' = toHost
    BY <2>2 DEF SessionInv
  <2> QED
    BY <2>1, <2>2
       DEF Rx, RxCheck, RxReceive, RxTear, RxRaises, RxMatch, RxEnqueue,
           busVars
<1>3. ~ stray /\ rx'[t].pc \in {"match", "enqueue"}
          => rx'[t].frame.session = session
  <2>1. CASE RxReceive(t)
    <3>1. 1 \in 1 .. Len(toHost) /\ Head(toHost) = toHost[1]
      BY <2>1, HeadTailProperties, EmptySeq, KeptTypes DEF RxReceive
    <3>2. rx'[t].frame = Head(toHost)
      BY <2>1, KeptTypes DEF RxReceive
    <3> QED
      BY <3>1, <3>2 DEF SessionInv
  <2>2. CASE RxMatch(t)
    <3>1. rx[t].pc = "match"
      BY <2>2 DEF RxMatch
    <3>2. rx'[t].pc = "enqueue" => rx'[t].frame = rx[t].frame
      BY <2>2, KeptTypes DEF RxMatch
    <3>3. rx'[t].pc # "match"
      BY <2>2, <3>1, KeptTypes DEF RxMatch
    <3> QED
      BY <3>1, <3>2, <3>3 DEF SessionInv, HasFrame
  <2>3. CASE RxCheck(t) \/ RxTear(t) \/ RxRaises(t) \/ RxEnqueue(t)
    <3>1. rx'[t].pc \in {"none", "check", "receive"}
      BY <2>3, KeptTypes DEF RxCheck, RxTear, RxRaises, RxEnqueue, rxVars
    <3> QED
      BY <3>1
  <2> QED
    BY <2>1, <2>2, <2>3 DEF Rx
<1>4. ~ stray /\ InFlight => \A r \in response' : r.session = session
  <2>1. CASE RxMatch(t) /\ Matches(rx[t].frame.key)
    BY <2>1 DEF RxMatch, SessionInv, HasFrame
  <2>2. CASE response' = response
    BY <2>2 DEF SessionInv
  <2> QED
    BY <2>1, <2>2
       DEF Rx, RxCheck, RxReceive, RxTear, RxRaises, RxMatch, RxEnqueue,
           pendVars
<1>5. ~ stray => \A o \in Threads :
          rx'[o].pc \in {"match", "enqueue"} => rx'[o].frame.session = session
  BY <1>0, <1>3 DEF SessionInv, HasFrame
<1> QED
  BY <1>0, <1>1, <1>2, <1>4, <1>5 DEF SessionInv, HasFrame, InFlight

\* SessionInv holds throughout.
LEMMA SessionHolds == Spec => []SessionInv
<1>1. Init => SessionInv
  <2> SUFFICES ASSUME Init PROVE SessionInv
    OBVIOUS
  <2>1. Len(toHost) = 0 /\ \A t \in Threads : rx[t].pc = "none"
    BY DEF Init
  <2> QED
    BY <2>1 DEF Init, SessionInv, InFlight, HasFrame, Alive
<1>2. ASSUME TypeOK, SessionInv, [Next]_vars
      PROVE  SessionInv'
  <2>1. CASE \/ ReadRegister \/ SendWriteImmediate \/ InCall \/ DrainFault
             \/ DisconnectStop \/ Events \/ Lose \/ UNCHANGED vars
    <3>1. UNCHANGED <<rx, mine, toHost, session, stray>>
      BY <2>1
         DEF ReadRegister, SendWriteImmediate, Transact, Post, PostRaises,
             InCall, Clear, Arm, Send, SendRefused, SendRaises, Wait, Take,
             Expire, DrainFault, DisconnectStop, Events, TakeEvent,
             WaitForEvent, WakeWithout, Lose, vars, rxVars, busVars, counters,
             flags
    <3>2. InFlight' => response' = {} \/ (InFlight /\ response' = response)
      <4>1. CASE ReadRegister \/ SendWriteImmediate
        BY <4>1
           DEF ReadRegister, SendWriteImmediate, Transact, Post, PostRaises,
               InFlight
      <4>2. CASE InCall
        BY <4>2
           DEF InCall, Clear, Arm, Send, SendRefused, SendRaises, Wait, Take,
               Expire, AttemptFails, InFlight, pendVars
      <4>3. CASE DrainFault \/ DisconnectStop \/ Events \/ Lose
                 \/ UNCHANGED vars
        BY <4>3
           DEF DrainFault, DisconnectStop, Events, TakeEvent, WaitForEvent,
               WakeWithout, Lose, vars, InFlight, callerVars, pendVars
      <4> QED
        BY <2>1, <4>1, <4>2, <4>3
    <3> QED
      BY <1>2, <3>1, <3>2, SessionStill
  <2>2. CASE ConnectOpen
    <3>1. /\ toHost' = <<>> /\ callerPc' = "drain"
          /\ UNCHANGED <<rx, mine, session, stray, response>>
      BY <2>2 DEF ConnectOpen, rxVars, pendVars, flags
    <3>2. Len(toHost') = 0
      BY <3>1
    <3> QED
      BY <1>2, <3>1, <3>2 DEF SessionInv, InFlight, HasFrame, Alive
  <2>3. CASE DrainFrame
    <3>1. /\ toHost # <<>> /\ toHost' = Tail(toHost)
          /\ UNCHANGED <<rx, mine, session, stray, response, callerPc>>
      BY <2>3 DEF DrainFrame, callerVars, rxVars, pendVars, counters, flags
    <3>2. \A i \in 1 .. Len(toHost') :
              i + 1 \in 1 .. Len(toHost) /\ toHost'[i] = toHost[i + 1]
      BY <1>2, <3>1, HeadTailProperties, KeptTypes
    <3> QED
      BY <1>2, <3>1, <3>2 DEF SessionInv, InFlight, HasFrame, Alive
  <2>4. CASE StartThread
    <3>1. PICK t \in Threads \ Alive :
              rx' = [rx EXCEPT ![t].pc = "check"] /\ mine' = t
      BY <2>4 DEF StartThread
    <3>2. /\ stray' = (stray \/ Alive # {}) /\ callerPc' = "idle"
          /\ UNCHANGED <<toHost, session>>
      BY <2>4 DEF StartThread, busVars, counters
    <3>3. /\ rx'[t].pc = "check"
          /\ \A o \in Threads \ {t} : rx'[o] = rx[o]
      BY <1>2, <3>1, KeptTypes
    <3>4. ~ stray' => ~ stray /\ Alive' \subseteq {t}
      BY <3>2, <3>3 DEF Alive
    <3> QED
      BY <1>2, <3>1, <3>2, <3>3, <3>4 DEF SessionInv, InFlight, HasFrame
  <2>5. CASE DisconnectFinish
    <3>1. /\ toHost' = <<>> /\ callerPc' = "idle" /\ rx' = rx
          /\ (~ stray' => ~ stray /\ mine \notin Alive)
      BY <2>5 DEF DisconnectFinish, Joined
    <3>2. Len(toHost') = 0
      BY <3>1
    <3>3. ~ stray' => Alive = {}
      BY <1>2, <3>1 DEF SessionInv
    <3>4. ~ stray' => \A t \in Threads : rx[t].pc = "none"
      BY <3>3 DEF Alive
    <3> QED
      BY <3>1, <3>2, <3>4 DEF SessionInv, InFlight, HasFrame, Alive
  <2>6. CASE DeviceServe \/ DeviceEvent
    <3>1. UNCHANGED <<rx, mine, session, stray, response, callerPc>>
      BY <2>6 DEF DeviceServe, DeviceEvent, rxVars, pendVars, callerVars,
                  counters, flags
    <3>2. PICK k \in Keys, uid \in Nat : Arrive(k, uid)
      <4>1. CASE DeviceServe
        BY <1>2, <4>1, QueueType DEF DeviceServe, TypeOK
      <4>2. CASE DeviceEvent
        BY <1>2, <4>2, SpendType, DataTypes DEF DeviceEvent, Limit
      <4> QED
        BY <2>6, <4>1, <4>2
    <3>3. \A i \in 1 .. Len(toHost') : toHost'[i].session = session
      <4>1. CASE isOpen
        <5> DEFINE f == [key |-> k, uid |-> uid, session |-> session]
        <5>1. f \in Wire /\ f.session = session /\ toHost' = Append(toHost, f)
          BY <1>2, <3>2, <4>1 DEF Arrive, Wire, TypeOK
        <5> HIDE DEF f
        <5>2. \A i \in 1 .. Len(toHost') :
                  toHost'[i] = f \/ (i \in 1 .. Len(toHost)
                                     /\ toHost'[i] = toHost[i])
          BY <1>2, <5>1, AppendProperties, KeptTypes
        <5> QED
          BY <1>2, <5>1, <5>2 DEF SessionInv
      <4>2. CASE ~ isOpen
        BY <1>2, <3>2, <4>2 DEF Arrive, SessionInv
      <4> QED
        BY <4>1, <4>2
    <3> QED
      BY <1>2, <3>1, <3>3 DEF SessionInv, InFlight, HasFrame, Alive
  <2>7. CASE \E t \in Threads : Rx(t)
    BY <1>2, <2>7, SessionRxStep
  <2> QED
    BY <1>2, <2>1, <2>2, <2>3, <2>4, <2>5, <2>6, <2>7 DEF Next, Session, Bus
<1> QED
  BY <1>1, <1>2, TypeCorrect, PTL DEF Spec

\* A wait of transact() that was signalled finds an answer, unless the send
\* before it raised, and an answer of this session, unless a thread was left
\* behind: for any number of sessions, threads and late frames.
THEOREM WakesWithAnswer == Spec => []WokenWithAnswer
<1>1. SignalInv /\ SessionInv => WokenWithAnswer
  BY DEF SignalInv, SessionInv, WokenWithAnswer, InFlight
<1> QED
  BY <1>1, SignalHolds, SessionHolds, PTL

-----------------------------------------------------------------------------
(* The engine implements the port                                          *)

\* Inductive: while a request is pending for an attempt, the response to it is
\* a frame that matches it; on an open transport the transmissions are counted
\* by the attempts, and only there a wait begins.
TriesInv ==
    /\ InFlight => pending = {request} /\ \A r \in response : r.key = request
    /\ callerPc \in {"wait", "take", "expire"} => isOpen /\ sent = attempt + 1
    /\ isOpen /\ callerPc \in {"clear", "arm", "send"} => sent = attempt

\* TriesInv holds throughout: one transmission per attempt.
LEMMA TriesCounted == Spec => []TriesInv
<1>1. Init => TriesInv
  BY DEF Init, TriesInv, InFlight
<1>2. ASSUME TypeOK, TriesInv, [Next]_vars
      PROVE  TriesInv'
  <2>0. attempt \in Nat
    BY <1>2, ConfigAssumption DEF TypeOK
  <2>1. CASE ReadRegister \/ SendWriteImmediate
    <3>1. PICK k : Transact(k) \/ Post(k) \/ PostRaises(k)
      BY <2>1 DEF ReadRegister, SendWriteImmediate
    <3>2. callerPc = "idle"
      BY <2>1 DEF ReadRegister, SendWriteImmediate
    <3>3. CASE Transact(k)
      BY <3>3 DEF Transact, TriesInv, InFlight, busVars
    <3>4. CASE Post(k) \/ PostRaises(k)
      BY <3>2, <3>4 DEF Post, PostRaises, TriesInv, InFlight
    <3> QED
      BY <3>1, <3>3, <3>4
  <2>2. CASE Clear \/ Arm
    BY <1>2, <2>2
       DEF Clear, Arm, TriesInv, InFlight, busVars, counters
  <2>3. CASE Send \/ Wait
    BY <1>2, <2>0, <2>3
       DEF Send, Wait, TriesInv, InFlight, pendVars, busVars, counters
  <2>4. CASE SendRefused \/ SendRaises \/ Take \/ Expire
    <3>1. /\ callerPc' \in {"idle", "clear"}
          /\ callerPc' = "clear" => attempt' = attempt + 1
          /\ UNCHANGED <<isOpen, sent>>
      BY <2>4
         DEF SendRefused, SendRaises, Take, Expire, AttemptFails, busVars,
             counters
    <3>2. callerPc' = "clear" => ~ isOpen \/ sent = attempt + 1
      BY <1>2, <2>4
         DEF SendRefused, SendRaises, Take, Expire, AttemptFails, TriesInv
    <3> QED
      BY <3>1, <3>2 DEF TriesInv, InFlight
  <2>5. CASE Session \/ Events
    <3>1. callerPc' \in {"idle", "drain", "join", "waitevent"}
      BY <1>2, <2>5
         DEF Session, ConnectOpen, DrainFrame, DrainFault, StartThread,
             DisconnectStop, DisconnectFinish, Events, TakeEvent,
             WaitForEvent, WakeWithout, callerVars
    <3> QED
      BY <3>1 DEF TriesInv, InFlight
  <2>6. CASE \E t \in Threads : RxMatch(t)
    <3>1. PICK t \in Threads : RxMatch(t)
      BY <2>6
    <3>2. /\ UNCHANGED <<callerPc, request, attempt, isOpen, sent, pending>>
          /\ \/ response' = response
             \/ response' = {rx[t].frame} /\ rx[t].frame.key \in pending
      BY <3>1 DEF RxMatch, Matches, callerVars, busVars, counters
    <3> QED
      BY <1>2, <3>2 DEF TriesInv, InFlight
  <2>7. CASE \/ Bus \/ UNCHANGED vars
             \/ \E t \in Threads :
                    RxCheck(t) \/ RxReceive(t) \/ RxTear(t) \/ RxRaises(t)
                    \/ RxEnqueue(t)
    <3>1. UNCHANGED <<callerPc, request, attempt, isOpen, sent, pending,
                      response>>
      BY <2>7
         DEF Bus, DeviceServe, Lose, DeviceEvent, RxCheck, RxReceive, RxTear,
             RxRaises, RxEnqueue, vars, callerVars, pendVars, busVars,
             counters
    <3> QED
      BY <1>2, <3>1 DEF TriesInv, InFlight
  <2> QED
    BY <1>2, <2>1, <2>2, <2>3, <2>4, <2>5, <2>6, <2>7 DEF Next, InCall, Rx
<1> QED
  BY <1>1, <1>2, TypeCorrect, PTL DEF Spec

\* Every step of the application's thread, the receive threads, the bus and
\* the gripper is a step of the port or leaves it as it is.
THEOREM EngineImplementsPort == Spec => Port!Spec
<1>1. Init => Port!Init
  BY DataTypes DEF Init, Port!Init, InTransact
<1>2. ASSUME TypeOK, TriesInv, [Next]_vars
      PROVE  [Port!Next]_(Port!vars)
  <2>0. /\ attempt \in 0 .. MaxRetries /\ MaxRetries \in Nat
        /\ request \in Keys /\ result.request \in Keys
        /\ NoFrame.key \in Keys /\ \A r \in response : r.key \in Keys
    BY <1>2, ConfigAssumption, DataTypes DEF TypeOK, Wire
  <2>1. CASE ReadRegister \/ SendWriteImmediate
    <3>1. PICK k \in Keys : Transact(k) \/ Post(k) \/ PostRaises(k)
      BY <2>1, DataTypes DEF ReadRegister, SendWriteImmediate
    <3>2. callerPc = "idle"
      BY <2>1 DEF ReadRegister, SendWriteImmediate
    <3>3. CASE Transact(k) /\ isOpen
      <4>1. Port!Begin
        BY <3>2, <3>3 DEF Transact, Port!Begin, InTransact, busVars
      <4> QED
        BY <4>1 DEF Port!Next
    <3>4. CASE Transact(k) /\ ~ isOpen
      <4>1. UNCHANGED Port!vars
        BY <3>2, <3>4 DEF Transact, Port!vars, InTransact, busVars
      <4> QED
        BY <4>1
    <3>5. CASE Post(k) \/ PostRaises(k)
      <4>1. Port!PostOrRefuse
        BY <2>0, <3>2, <3>5
           DEF Post, PostRaises, Ended, Port!PostOrRefuse, InTransact, busVars
      <4> QED
        BY <4>1 DEF Port!Next
    <3> QED
      BY <3>1, <3>3, <3>4, <3>5
  <2>2. CASE Send
    <3>1. Port!Transmit
      BY <1>2, <2>0, <2>2
         DEF Send, TriesInv, Port!Transmit, InTransact, pendVars
    <3> QED
      BY <3>1 DEF Port!Next, Port!Progress
  <2>3. CASE SendRaises
    <3>1. Port!Break
      BY <1>2, <2>0, <2>3
         DEF SendRaises, Ended, TriesInv, Port!Break, InTransact, busVars,
             counters
    <3> QED
      BY <3>1 DEF Port!Next, Port!Progress
  <2>4. CASE SendRefused
    <3>1. ~ isOpen /\ ~ isOpen' /\ sent' = sent
      BY <2>4 DEF SendRefused, busVars, counters
    <3>2. CASE AttemptsLeft
      <4>1. result' = result
        BY <2>4, <3>2 DEF SendRefused, AttemptFails
      <4>2. UNCHANGED Port!vars
        BY <3>1, <4>1 DEF Port!vars
      <4> QED
        BY <4>2
    <3>3. CASE ~ AttemptsLeft
      <4>1. result' = [outcome |-> "transport", request |-> request,
                       reply |-> NoFrame.key]
        BY <2>4, <3>3 DEF SendRefused, AttemptFails, Ended
      <4>2. Port!PostOrRefuse
        BY <2>0, <3>1, <4>1 DEF Port!PostOrRefuse
      <4> QED
        BY <4>2 DEF Port!Next
    <3> QED
      BY <3>2, <3>3
  <2>5. CASE Take
    <3>1. PICK r \in response : Ended("ok", request, r.key)
      BY <2>5 DEF Take
    <3>2. isOpen /\ sent = attempt + 1 /\ r.key = request
      BY <1>2, <2>5 DEF Take, TriesInv, InFlight
    <3>3. Port!Answer
      BY <2>0, <2>5, <3>1, <3>2
         DEF Take, Ended, Port!Answer, InTransact, busVars, counters
    <3> QED
      BY <3>3 DEF Port!Next, Port!Progress
  <2>6. CASE Expire
    <3>1. /\ isOpen /\ sent = attempt + 1 /\ callerPc \in InTransact
          /\ UNCHANGED <<isOpen, sent, request>>
      BY <1>2, <2>6 DEF Expire, TriesInv, InTransact, busVars, counters
    <3>2. CASE AttemptsLeft
      <4>1. result' = result /\ callerPc' = "clear"
        BY <2>6, <3>2 DEF Expire, AttemptFails
      <4>2. UNCHANGED Port!vars
        BY <3>1, <4>1 DEF Port!vars, InTransact
      <4> QED
        BY <4>2
    <3>3. CASE ~ AttemptsLeft
      <4>1. /\ result' = [outcome |-> "timeout", request |-> request,
                          reply |-> NoFrame.key]
            /\ callerPc' = "idle"
        BY <2>6, <3>3 DEF Expire, AttemptFails, Ended
      <4>2. sent = MaxRetries + 1
        BY <2>0, <3>1, <3>3 DEF AttemptsLeft
      <4>3. Port!TimeOut
        BY <2>0, <3>1, <4>1, <4>2 DEF Port!TimeOut, InTransact
      <4> QED
        BY <4>3 DEF Port!Next, Port!Progress
    <3> QED
      BY <3>2, <3>3
  <2>7. CASE ConnectOpen
    <3>1. Port!Open
      BY <2>7 DEF ConnectOpen, Port!Open, InTransact
    <3> QED
      BY <3>1 DEF Port!Next
  <2>8. CASE DisconnectFinish
    <3>1. Port!Close
      BY <2>8 DEF DisconnectFinish, Port!Close, InTransact
    <3> QED
      BY <3>1 DEF Port!Next
  <2>9. CASE \/ Clear \/ Arm \/ Wait
             \/ DrainFrame \/ DrainFault \/ StartThread \/ DisconnectStop
             \/ Events \/ Bus \/ UNCHANGED vars \/ \E t \in Threads : Rx(t)
    <3>1. UNCHANGED <<isOpen, result, sent, request>>
      BY <2>9
         DEF Clear, Arm, Wait, DrainFrame, DrainFault, StartThread,
             DisconnectStop, Events, TakeEvent, WaitForEvent, WakeWithout, Rx,
             RxCheck, RxReceive, RxTear, RxRaises, RxMatch, RxEnqueue, Bus,
             DeviceServe, Lose, DeviceEvent, vars, callerVars, busVars,
             counters
    <3>2. callerPc \in InTransact <=> callerPc' \in InTransact
      BY <1>2, <2>9
         DEF Clear, Arm, Wait, DrainFrame, DrainFault, StartThread,
             DisconnectStop, Events, TakeEvent, WaitForEvent, WakeWithout, Rx,
             RxCheck, RxReceive, RxTear, RxRaises, RxMatch, RxEnqueue, Bus,
             DeviceServe, Lose, DeviceEvent, vars, callerVars, InTransact
    <3>3. UNCHANGED Port!vars
      BY <3>1, <3>2 DEF Port!vars, InTransact
    <3> QED
      BY <3>3
  <2> QED
    BY <1>2, <2>1, <2>2, <2>3, <2>4, <2>5, <2>6, <2>7, <2>8, <2>9
       DEF Next, InCall, Session
<1> QED
  BY <1>1, <1>2, TypeCorrect, TriesCounted, PTL DEF Spec, Port!Spec

=============================================================================
