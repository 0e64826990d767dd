------------------------ MODULE TransactEngineProofs ------------------------
(***************************************************************************)
(* Proofs about TransactEngine, for every set of ids, registers, values    *)
(* and requests, every number of retries and every queue length.           *)
(***************************************************************************)
EXTENDS TransactEngine, SequenceTheorems, TLAPS

-----------------------------------------------------------------------------
(* Facts about the data                                                    *)

\* A default-constructed frame and its wire record are typed; every frame has
\* an address at which the gripper keeps a value.
LEMMA DataTypes ==
    /\ DefaultFrame \in Frame /\ DefaultWire \in Wire
    /\ \A f \in Frame : Address(f) \in Addresses /\ f.value \in Values
    /\ \A f \in Requests : f \in Frame
    /\ \A f \in Unsolicited : f \in Frame
BY DataAssumption DEF DefaultWire, Wire, Frame, Address, Addresses

\* What a write leaves in the history of written values is well typed.
LEMMA WrittenType ==
    ASSUME TypeOK, NEW f \in Frame
    PROVE  /\ NoteAttempt(f) \in [Addresses -> SUBSET Values]
           /\ NoteSuccess(f) \in [Addresses -> SUBSET Values]
<1>1. written \in [Addresses -> SUBSET Values]
  BY DEF TypeOK
<1> QED
  BY <1>1, DataTypes DEF NoteAttempt, NoteSuccess

\* Counting towards a bound keeps the counters numbers.
LEMMA SpendType ==
    ASSUME TypeOK, NEW kind \in DOMAIN Limit, Spend(kind)
    PROVE  used' \in Counters
BY DEF TypeOK, Counters, Spend

\* The head of a channel or queue that is not empty is a wire record, its
\* tail again a sequence of them.
LEMMA QueueType ==
    ASSUME NEW q \in Seq(Wire), q # <<>>
    PROVE  /\ Head(q) \in Wire /\ Tail(q) \in Seq(Wire)
           /\ Head(q).frame \in Frame /\ Head(q).tag \in Nat
           /\ Head(q).uid \in Nat
<1>1. Head(q) \in Wire /\ Tail(q) \in Seq(Wire)
  BY HeadTailProperties
<1> QED
  BY <1>1 DEF Wire

-----------------------------------------------------------------------------
(* Type correctness                                                        *)

\* Every initial state is well typed.
LEMMA InitType == Init => TypeOK
<1> SUFFICES ASSUME Init PROVE TypeOK
  OBVIOUS
<1>1. pt \in Transaction /\ result \in Result
  BY DataTypes DEF Init, Transaction, Result, Outcomes
<1>2. used \in Counters
  BY DEF Init, Counters, Limit
<1>3. /\ regs \in [Addresses -> Values] /\ attempt \in 0 .. MaxRetries
      /\ written \in [Addresses -> SUBSET Values]
  BY DataAssumption, ConfigAssumption DEF Init
<1>4. /\ events \in Seq(Wire) /\ toDev \in Seq(Wire) /\ toHost \in Seq(Wire)
      /\ rxFrame \in Wire
  BY DataTypes DEF Init
<1> QED
  BY <1>1, <1>2, <1>3, <1>4 DEF Init, TypeOK

\* Opening, draining and closing keep every type.
LEMMA SessionType ==
    ASSUME TypeOK, Session
    PROVE  TypeOK'
<1>1. CASE ConnectOpen
  <2>1. used' \in Counters
    BY <1>1, SpendType DEF ConnectOpen, Limit
  <2> QED
    BY <1>1, <2>1
       DEF TypeOK, ConnectOpen, InTransact, callerVars, rxVars, ptVars,
           lineVars, busVars, callHist, eventHist, hist
<1>2. CASE DrainFrame
  BY <1>2, QueueType
     DEF TypeOK, DrainFrame, InTransact, callerVars, rxVars, ptVars,
         lineVars, busVars, callHist, eventHist, hist
<1>3. CASE DrainFault
  <2>1. used' \in Counters
    BY <1>3, SpendType DEF DrainFault, Limit
  <2> QED
    BY <1>3, <2>1
       DEF TypeOK, DrainFault, InTransact, callerVars, rxVars, ptVars,
           lineVars, busVars, callHist, eventHist, hist
<1>4. CASE StartThread
  BY <1>4
     DEF TypeOK, StartThread, InTransact, callerVars, rxVars, ptVars,
         lineVars, busVars, callHist, eventHist, hist
<1>5. CASE DisconnectStop
  BY <1>5
     DEF TypeOK, DisconnectStop, InTransact, callerVars, rxVars, ptVars,
         lineVars, busVars, callHist, eventHist, hist
<1>6. CASE DisconnectFinish
  <2>1. <<>> \in Seq(Wire) /\ {} \subseteq Nat
    OBVIOUS
  <2> QED
    BY <1>6, <2>1
       DEF TypeOK, DisconnectFinish, InTransact, callerVars, rxVars, ptVars,
           lineVars, busVars, callHist, eventHist, hist
<1> QED
  BY <1>1, <1>2, <1>3, <1>4, <1>5, <1>6 DEF Session

\* Making a request keeps every type.
LEMMA RequestType ==
    ASSUME TypeOK, NEW f \in Requests,
           Transact(f) \/ Post(f) \/ Refused(f) \/ PostFault(f)
    PROVE  TypeOK'
<1>0. /\ f \in Frame /\ DefaultWire \in Wire
      /\ NoteAttempt(f) \in [Addresses -> SUBSET Values]
      /\ NoteSuccess(f) \in [Addresses -> SUBSET Values]
  BY DataTypes, WrittenType
<1>1. CASE Transact(f)
  <2>1. pt' \in Transaction
    BY <1>0, <1>1 DEF Transact, Transaction, TypeOK
  <2> QED
    BY <1>0, <1>1, <2>1, ConfigAssumption
       DEF TypeOK, Transact, InTransact, callerVars, rxVars, ptVars,
           lineVars, busVars, callHist, eventHist, hist
<1>2. CASE Post(f)
  <2>1. result' \in Result
    BY <1>0, <1>2 DEF Post, Result, Outcomes
  <2>2. [frame |-> f, tag |-> calls + 1, uid |-> 0] \in Wire
    BY <1>0 DEF Wire, TypeOK
  <2> QED
    BY <1>0, <1>2, <2>1, <2>2
       DEF TypeOK, Post, InTransact, callerVars, rxVars, ptVars, lineVars,
           busVars, callHist, eventHist, hist
<1>3. CASE Refused(f)
  <2>1. result' \in Result
    BY <1>0, <1>3 DEF Refused, Result, Outcomes
  <2> QED
    BY <1>3, <2>1
       DEF TypeOK, Refused, InTransact, callerVars, rxVars, ptVars, lineVars,
           busVars, callHist, eventHist, hist
<1>4. CASE PostFault(f)
  <2>1. result' \in Result
    BY <1>0, <1>4 DEF PostFault, Result, Outcomes
  <2>2. used' \in Counters
    BY <1>4, SpendType DEF PostFault, Limit
  <2> QED
    BY <1>4, <2>1, <2>2
       DEF TypeOK, PostFault, InTransact, callerVars, rxVars, ptVars,
           lineVars, busVars, callHist, eventHist, hist
<1> QED
  BY <1>1, <1>2, <1>3, <1>4

\* The steps of a transact() under way keep every type.
LEMMA InCallType ==
    ASSUME TypeOK, InCall
    PROVE  TypeOK'
<1>0. /\ pt.no \in Nat /\ pt.expected \in Frame
      /\ pt.response \in Wire /\ DefaultWire \in Wire
  BY DataTypes DEF TypeOK, Transaction
<1>1. CASE Send
  <2>1. [frame |-> pt.expected, tag |-> pt.no, uid |-> 0] \in Wire
    BY <1>0 DEF Wire
  <2> QED
    BY <1>1, <2>1
       DEF TypeOK, Send, InTransact, callerVars, rxVars, ptVars, lineVars,
           busVars, callHist, eventHist, hist
<1>2. CASE SendFault
  <2>1. result' \in Result
    BY <1>0, <1>2 DEF SendFault, Result, Outcomes
  <2>2. used' \in Counters
    BY <1>2, SpendType DEF SendFault, Limit
  <2> QED
    BY <1>2, <2>1, <2>2
       DEF TypeOK, SendFault, InTransact, callerVars, rxVars, ptVars,
           lineVars, busVars, callHist, eventHist, hist
<1>3. CASE WaitReturn
  BY <1>3
     DEF TypeOK, WaitReturn, InTransact, callerVars, rxVars, ptVars,
         lineVars, busVars, callHist, eventHist, hist
<1>4. CASE Finish
  <2>1. result' \in Result
    BY <1>0, <1>4 DEF Finish, Result, Outcomes
  <2>2. NoteSuccess(pt.expected) \in [Addresses -> SUBSET Values]
    BY <1>0, WrittenType
  <2> QED
    BY <1>4, <2>1, <2>2
       DEF TypeOK, Finish, InTransact, callerVars, rxVars, ptVars, lineVars,
           busVars, callHist, eventHist, hist
<1>5. CASE WaitTimeout
  BY <1>5
     DEF TypeOK, WaitTimeout, InTransact, callerVars, rxVars, ptVars,
         lineVars, busVars, callHist, eventHist, hist
<1>6. CASE Retry
  <2>1. attempt' \in 0 .. MaxRetries
    BY <1>6, ConfigAssumption DEF Retry, AttemptsLeft, TypeOK
  <2> QED
    BY <1>6, <2>1
       DEF TypeOK, Retry, InTransact, callerVars, rxVars, ptVars, lineVars,
           busVars, callHist, eventHist, hist
<1>7. CASE GiveUp
  <2>1. result' \in Result
    BY <1>0, <1>7 DEF GiveUp, Result, Outcomes
  <2> QED
    BY <1>7, <2>1
       DEF TypeOK, GiveUp, InTransact, callerVars, rxVars, ptVars, lineVars,
           busVars, callHist, eventHist, hist
<1> QED
  BY <1>1, <1>2, <1>3, <1>4, <1>5, <1>6, <1>7 DEF InCall

\* receive_event() keeps every type.
LEMMA EventsType ==
    ASSUME TypeOK, Events
    PROVE  TypeOK'
<1>1. CASE TakeEvent
  BY <1>1, QueueType
     DEF TypeOK, TakeEvent, InTransact, PopEvent, callerVars, rxVars, ptVars,
         lineVars, busVars, callHist, eventHist, hist
<1>2. CASE WaitForEvent
  BY <1>2
     DEF TypeOK, WaitForEvent, InTransact, callerVars, rxVars, ptVars,
         lineVars, busVars, callHist, eventHist, hist
<1>3. CASE WakeWithEvent
  BY <1>3, QueueType
     DEF TypeOK, WakeWithEvent, InTransact, PopEvent, callerVars, rxVars,
         ptVars, lineVars, busVars, callHist, eventHist, hist
<1>4. CASE WakeWithout
  BY <1>4
     DEF TypeOK, WakeWithout, InTransact, callerVars, rxVars, ptVars,
         lineVars, busVars, callHist, eventHist, hist
<1> QED
  BY <1>1, <1>2, <1>3, <1>4 DEF Events

\* The receive thread keeps every type.
LEMMA RxType ==
    ASSUME TypeOK, Rx
    PROVE  TypeOK'
<1>1. CASE RxCheck
  BY <1>1
     DEF TypeOK, RxCheck, InTransact, callerVars, rxVars, ptVars, lineVars,
         busVars, callHist, eventHist, hist
<1>2. CASE RxReceive
  BY <1>2, QueueType
     DEF TypeOK, RxReceive, InTransact, callerVars, rxVars, ptVars, lineVars,
         busVars, callHist, eventHist, hist
<1>3. CASE RxTimeout
  BY <1>3
     DEF TypeOK, RxTimeout, InTransact, callerVars, rxVars, ptVars, lineVars,
         busVars, callHist, eventHist, hist
<1>4. CASE RxFault
  <2>1. used' \in Counters
    BY <1>4, SpendType DEF RxFault, Limit
  <2> QED
    BY <1>4, <2>1
       DEF TypeOK, RxFault, AfterError, InTransact, callerVars, rxVars,
           ptVars, lineVars, busVars, callHist, eventHist, hist
<1>5. CASE RxMatch
  <2>1. pt.no \in Nat
    BY DEF TypeOK, Transaction
  <2> QED
    BY <1>5, <2>1
       DEF TypeOK, RxMatch, InTransact, callerVars, rxVars, ptVars, lineVars,
           busVars, callHist, eventHist, hist
<1>6. CASE RxDeliver
  <2>1. pt' \in Transaction
    BY <1>6 DEF RxDeliver, TypeOK, Transaction
  <2> QED
    BY <1>6, <2>1
       DEF TypeOK, RxDeliver, AfterDelivery, InTransact, callerVars, rxVars,
           ptVars, lineVars, busVars, callHist, eventHist, hist
<1>7. CASE RxEnqueue
  <2>1. Append(events, rxFrame) \in Seq(Wire)
    BY DEF TypeOK
  <2> QED
    BY <1>7, <2>1
       DEF TypeOK, RxEnqueue, Pushed, InTransact, callerVars, rxVars, ptVars,
           lineVars, busVars, callHist, eventHist, hist
<1> QED
  BY <1>1, <1>2, <1>3, <1>4, <1>5, <1>6, <1>7 DEF Rx

\* The bus and the gripper keep every type.
LEMMA BusType ==
    ASSUME TypeOK, Bus
    PROVE  TypeOK'
<1>1. ASSUME NEW f \in Frame, NEW tag \in Nat, Arrive(f, tag)
      PROVE  toHost' \in Seq(Wire)
  <2>1. [frame |-> f, tag |-> tag, uid |-> emitted + 1] \in Wire
    BY DEF Wire, TypeOK
  <2> QED
    BY <1>1, <2>1 DEF Arrive, TypeOK
<1>2. ASSUME NEW f \in Frame, NEW g \in [Addresses -> Values]
      PROVE  /\ [g EXCEPT ![Address(f)] = f.value] \in [Addresses -> Values]
             /\ [f EXCEPT !.value = g[Address(f)]] \in Frame
  <2>1. Address(f) \in Addresses /\ f.value \in Values
    BY DataTypes
  <2>2. g[Address(f)] \in Values
    BY <2>1
  <2>3. [f EXCEPT !.value = g[Address(f)]] \in Frame
    BY <2>2 DEF Frame
  <2> QED
    BY <2>1, <2>3
<1>3. CASE DeviceServe
  <2> DEFINE f == Head(toDev).frame
             served == IF f.rw = kWrite
                         THEN [regs EXCEPT ![Address(f)] = f.value]
                         ELSE regs
  <2>1. /\ f \in Frame /\ Head(toDev).tag \in Nat
        /\ Tail(toDev) \in Seq(Wire)
    BY <1>3, QueueType DEF DeviceServe, TypeOK
  <2>2. served \in [Addresses -> Values]
    BY <1>2, <2>1 DEF TypeOK
  <2>3. [f EXCEPT !.value = served[Address(f)]] \in Frame
    BY <1>2, <2>1, <2>2
  <2>4. /\ regs' = served
        /\ Arrive([f EXCEPT !.value = served[Address(f)]], Head(toDev).tag)
    BY <1>3 DEF DeviceServe
  <2>5. toHost' \in Seq(Wire)
    BY <1>1, <2>1, <2>3, <2>4
  <2>6. /\ toDev' = Tail(toDev) /\ emitted' = emitted + 1
        /\ UNCHANGED <<callerVars, rxVars, ptVars, lineVars, events, callHist,
                       eventHist, used>>
    BY <1>3 DEF DeviceServe
  <2> HIDE DEF f, served
  <2> QED
    BY <2>1, <2>2, <2>4, <2>5, <2>6
       DEF TypeOK, callerVars, rxVars, ptVars, lineVars, callHist, eventHist
<1>4. CASE LoseCommand
  <2>1. used' \in Counters
    BY <1>4, SpendType DEF LoseCommand, Limit
  <2> QED
    BY <1>4, <2>1, QueueType
       DEF TypeOK, LoseCommand, InTransact, callerVars, rxVars, ptVars,
           lineVars, busVars, callHist, eventHist, hist
<1>5. CASE LoseAnswer
  <2>1. used' \in Counters
    BY <1>5, SpendType DEF LoseAnswer, Limit
  <2>2. Head(toDev).frame \in Frame /\ Tail(toDev) \in Seq(Wire)
    BY <1>5, QueueType DEF LoseAnswer, TypeOK
  <2>3. regs' \in [Addresses -> Values]
    BY <1>2, <1>5, <2>2 DEF LoseAnswer, TypeOK
  <2> QED
    BY <1>5, <2>1, <2>2, <2>3
       DEF TypeOK, LoseAnswer, InTransact, callerVars, rxVars, ptVars,
           lineVars, busVars, callHist, eventHist, hist
<1>6. CASE DeviceEvent
  <2>1. used' \in Counters
    BY <1>6, SpendType DEF DeviceEvent, Limit
  <2>2. toHost' \in Seq(Wire)
    BY <1>1, <1>6, DataTypes DEF DeviceEvent
  <2> QED
    BY <1>6, <2>1, <2>2
       DEF TypeOK, DeviceEvent, InTransact, callerVars, rxVars, ptVars,
           lineVars, busVars, callHist, eventHist, hist
<1> QED
  BY <1>3, <1>4, <1>5, <1>6 DEF Bus

\* Type correctness: whatever the two threads, the bus and the gripper do,
\* every variable keeps its type.
THEOREM TypeCorrect == Spec => []TypeOK
<1>1. ASSUME TypeOK, [Next]_vars
      PROVE  TypeOK'
  <2>1. CASE ReadRegister \/ SendWriteImmediate
    BY <1>1, <2>1, RequestType DEF ReadRegister, SendWriteImmediate
  <2>2. CASE UNCHANGED vars
    BY <1>1, <2>2
       DEF TypeOK, vars, callerVars, rxVars, ptVars, lineVars, busVars,
           callHist, eventHist, hist
  <2> QED
    BY <1>1, <2>1, <2>2, InCallType, EventsType, SessionType, RxType, BusType
       DEF Next
<1> QED
  BY InitType, <1>1, PTL DEF Spec

-----------------------------------------------------------------------------
(* The answer matches the request                                          *)

\* Inductive: call numbers only grow, so that the receive thread holds the
\* newest PendingTransaction or an older one; a frame it is about to deliver
\* to the newest one matches what that one expects; a completed one holds a
\* matching response.
MatchInv ==
    /\ rxPt =< pt.no /\ pt.no =< calls
    /\ pt.completed => FrameMatches(pt.expected, pt.response.frame)
    /\ rxPc = "deliver" /\ rxPt = pt.no
           => FrameMatches(pt.expected, rxFrame.frame)
    /\ callerPc = "finish" => pt.completed
    /\ AnswerMatchesRequest

\* The types MatchInv's arithmetic and records need.
LEMMA PtTypes ==
    ASSUME TypeOK
    PROVE  /\ pt = [no |-> pt.no, expected |-> pt.expected,
                    response |-> pt.response, completed |-> pt.completed]
           /\ pt.no \in Nat /\ rxPt \in Nat /\ calls \in Nat
           /\ pt.completed \in BOOLEAN
BY DEF TypeOK, Transaction

\* Requests: a new transaction has a number nothing else has.
LEMMA RequestMatch ==
    ASSUME TypeOK, MatchInv, NEW f \in Requests,
           Transact(f) \/ Post(f) \/ Refused(f) \/ PostFault(f)
    PROVE  MatchInv'
<1>1. CASE Transact(f)
  <2>1. rxPt' =< pt'.no /\ pt'.no =< calls' /\ rxPt' # pt'.no
    BY <1>1, PtTypes DEF Transact, MatchInv, rxVars
  <2> QED
    BY <1>1, <2>1 DEF Transact, MatchInv, AnswerMatchesRequest, rxVars
<1>2. CASE Post(f) \/ Refused(f) \/ PostFault(f)
  <2>1. UNCHANGED <<callerPc, rxVars, pt>> /\ calls' = calls + 1
    BY <1>2 DEF Post, Refused, PostFault, ptVars
  <2>2. result'.outcome # "ok"
    BY <1>2 DEF Post, Refused, PostFault
  <2> QED
    BY <2>1, <2>2, PtTypes DEF MatchInv, AnswerMatchesRequest, rxVars
<1> QED
  BY <1>1, <1>2

\* The caller: transact() returns the response of a completed transaction.
LEMMA InCallMatch ==
    ASSUME TypeOK, MatchInv, InCall
    PROVE  MatchInv'
<1>1. UNCHANGED <<rxVars, pt, calls>>
  BY DEF InCall, Send, SendFault, WaitReturn, Finish, WaitTimeout, Retry,
         GiveUp, ptVars, callHist, hist
<1>2. callerPc' = "finish" => pt.completed
  BY DEF InCall, Send, SendFault, WaitReturn, Finish, WaitTimeout, Retry,
         GiveUp
<1>3. AnswerMatchesRequest'
  <2>1. CASE Finish
    BY <2>1 DEF Finish, MatchInv, AnswerMatchesRequest
  <2>2. CASE SendFault \/ GiveUp
    BY <2>2 DEF SendFault, GiveUp, AnswerMatchesRequest
  <2>3. CASE Send \/ WaitReturn \/ WaitTimeout \/ Retry
    BY <2>3
       DEF Send, WaitReturn, WaitTimeout, Retry, MatchInv,
           AnswerMatchesRequest
  <2> QED
    BY <2>1, <2>2, <2>3 DEF InCall
<1> QED
  BY <1>1, <1>2, <1>3 DEF MatchInv, rxVars

\* The receive thread: it delivers to the transaction it matched against.
LEMMA RxMatchInv ==
    ASSUME TypeOK, MatchInv, Rx
    PROVE  MatchInv'
<1>1. UNCHANGED <<callerPc, result, calls>>
  BY DEF Rx, RxCheck, RxReceive, RxTimeout, RxFault, RxMatch, RxDeliver,
         RxEnqueue, callerVars, callHist, hist
<1>2. CASE RxMatch
  BY <1>1, <1>2, PtTypes DEF RxMatch, MatchInv, AnswerMatchesRequest, ptVars
<1>3. CASE RxDeliver
  <2>1. CASE rxPt = pt.no
    <3>1. pt'.no = pt.no /\ pt'.expected = pt.expected
      BY <1>3, <2>1, PtTypes DEF RxDeliver, HoldsNewest
    <3>2. pt'.response = rxFrame /\ pt'.completed
      BY <1>3, <2>1, PtTypes DEF RxDeliver, HoldsNewest
    <3> QED
      BY <1>1, <1>3, <2>1, <3>1, <3>2, PtTypes
         DEF RxDeliver, AfterDelivery, MatchInv, AnswerMatchesRequest
  <2>2. CASE rxPt # pt.no
    BY <1>1, <1>3, <2>2, PtTypes
       DEF RxDeliver, AfterDelivery, HoldsNewest, MatchInv,
           AnswerMatchesRequest
  <2> QED
    BY <2>1, <2>2
<1>4. CASE RxCheck \/ RxReceive \/ RxTimeout \/ RxFault \/ RxEnqueue
  <2>1. UNCHANGED <<rxPt, pt>> /\ rxPc' # "deliver"
    BY <1>4
       DEF RxCheck, RxReceive, RxTimeout, RxFault, RxEnqueue, AfterError,
           rxVars, ptVars
  <2> QED
    BY <1>1, <2>1 DEF MatchInv, AnswerMatchesRequest
<1> QED
  BY <1>2, <1>3, <1>4 DEF Rx

\* Everything else leaves transactions and answers alone.
LEMMA OtherMatch ==
    ASSUME TypeOK, MatchInv, Session \/ Events \/ Bus \/ UNCHANGED vars
    PROVE  MatchInv'
<1>1. UNCHANGED <<pt, rxPt, rxFrame, result, calls>>
  BY DEF Session, ConnectOpen, DrainFrame, DrainFault, StartThread,
         DisconnectStop, DisconnectFinish, Events, TakeEvent, WaitForEvent,
         WakeWithEvent, WakeWithout, PopEvent, Bus, DeviceServe, LoseCommand,
         LoseAnswer, DeviceEvent, vars, callerVars, rxVars, ptVars, callHist,
         hist
<1>2. /\ rxPc' = "deliver" => rxPc = "deliver"
      /\ callerPc' = "finish" => callerPc = "finish"
  BY DEF Session, ConnectOpen, DrainFrame, DrainFault, StartThread,
         DisconnectStop, DisconnectFinish, Events, TakeEvent, WaitForEvent,
         WakeWithEvent, WakeWithout, Bus, DeviceServe, LoseCommand,
         LoseAnswer, DeviceEvent, vars, callerVars, rxVars
<1> QED
  BY <1>1, <1>2 DEF MatchInv, AnswerMatchesRequest

\* MatchInv holds throughout.
LEMMA MatchHolds == Spec => []MatchInv
<1>1. Init => MatchInv
  BY DEF Init, MatchInv, AnswerMatchesRequest
<1>2. ASSUME TypeOK, MatchInv, [Next]_vars
      PROVE  MatchInv'
  <2>1. CASE ReadRegister \/ SendWriteImmediate
    BY <1>2, <2>1, RequestMatch DEF ReadRegister, SendWriteImmediate
  <2> QED
    BY <1>2, <2>1, InCallMatch, RxMatchInv, OtherMatch DEF Next
<1> QED
  BY <1>1, <1>2, TypeCorrect, PTL DEF Spec

\* transact() never returns a frame that does not match its request.
THEOREM AnswersMatch == Spec => []AnswerMatchesRequest
<1>1. MatchInv => AnswerMatchesRequest
  BY DEF MatchInv
<1> QED
  BY <1>1, MatchHolds, PTL

-----------------------------------------------------------------------------
(* pending_transaction_ and the calls                                      *)

\* pending_transaction_ is set exactly while transact() runs, as long as
\* send() does not fail: SendFault is the only step that leaves it set.
THEOREM PendingInCall == Spec => []PendingOnlyInCall
<1>1. Init => PendingOnlyInCall
  BY DEF Init, PendingOnlyInCall, InTransact
<1>2. ASSUME TypeOK, PendingOnlyInCall, [Next]_vars
      PROVE  PendingOnlyInCall'
  <2>0. used.faults \in Nat
    BY <1>2 DEF TypeOK, Counters, Limit
  <2>1. CASE ReadRegister \/ SendWriteImmediate
    <3>1. PICK f \in Requests :
              Transact(f) \/ Post(f) \/ Refused(f) \/ PostFault(f)
      BY <2>1 DEF ReadRegister, SendWriteImmediate
    <3>2. CASE Transact(f)
      BY <3>2 DEF Transact, PendingOnlyInCall, InTransact
    <3>3. CASE Post(f) \/ Refused(f)
      BY <1>2, <3>3 DEF Post, Refused, PendingOnlyInCall, ptVars
    <3>4. CASE PostFault(f)
      <4>1. used'.faults = used.faults + 1
        BY <1>2, <3>4 DEF PostFault, Spend, TypeOK, Counters, Limit
      <4> QED
        BY <2>0, <4>1 DEF PendingOnlyInCall
    <3> QED
      BY <3>1, <3>2, <3>3, <3>4
  <2>2. CASE SendFault
    <3>1. used'.faults = used.faults + 1
      BY <1>2, <2>2 DEF SendFault, Spend, TypeOK, Counters, Limit
    <3> QED
      BY <2>0, <3>1 DEF PendingOnlyInCall
  <2>3. CASE Send \/ WaitReturn \/ Finish \/ WaitTimeout \/ Retry \/ GiveUp
    BY <1>2, <2>3
       DEF Send, WaitReturn, Finish, WaitTimeout, Retry, GiveUp,
           PendingOnlyInCall, InTransact, ptVars, hist
  <2>4. CASE Events \/ Bus \/ UNCHANGED vars
    <3>1. pending' = pending /\ (callerPc' # callerPc
              => callerPc \notin InTransact /\ callerPc' \notin InTransact)
      BY <2>4
         DEF Events, TakeEvent, WaitForEvent, WakeWithEvent, WakeWithout,
             Bus, DeviceServe, LoseCommand, LoseAnswer, DeviceEvent, vars,
             callerVars, ptVars, InTransact
    <3>2. used'.faults = used.faults
      BY <1>2, <2>4
         DEF Events, TakeEvent, WaitForEvent, WakeWithEvent, WakeWithout,
             PopEvent, Bus, DeviceServe, LoseCommand, LoseAnswer,
             DeviceEvent, Spend, TypeOK, Counters, Limit, vars, hist
    <3> QED
      BY <1>2, <3>1, <3>2 DEF PendingOnlyInCall
  <2>5. CASE Session
    <3>1. CASE DrainFault \/ ConnectOpen
      BY <1>2, <2>0, <3>1
         DEF DrainFault, ConnectOpen, Spend, TypeOK, Counters, Limit,
             PendingOnlyInCall, InTransact, ptVars
    <3>2. CASE DrainFrame \/ StartThread \/ DisconnectStop
                 \/ DisconnectFinish
      BY <1>2, <3>2
         DEF DrainFrame, StartThread, DisconnectStop, DisconnectFinish,
             PendingOnlyInCall, InTransact, callerVars, ptVars, hist
    <3> QED
      BY <2>5, <3>1, <3>2 DEF Session
  <2>6. CASE Rx
    <3>1. UNCHANGED <<callerPc, pending>>
      BY <2>6
         DEF Rx, RxCheck, RxReceive, RxTimeout, RxFault, RxMatch,
             RxDeliver, RxEnqueue, callerVars, ptVars
    <3>2. used'.faults = used.faults \/ used'.faults = used.faults + 1
      BY <1>2, <2>6
         DEF Rx, RxCheck, RxReceive, RxTimeout, RxFault, RxMatch,
             RxDeliver, RxEnqueue, Spend, TypeOK, Counters, Limit, hist
    <3> QED
      BY <1>2, <2>0, <3>1, <3>2 DEF PendingOnlyInCall
  <2> QED
    BY <1>2, <2>1, <2>2, <2>3, <2>4, <2>5, <2>6 DEF Next, InCall
<1> QED
  BY <1>1, <1>2, TypeCorrect, PTL DEF Spec

-----------------------------------------------------------------------------
(* Sessions                                                                *)

\* Inductive: with the transport closed there is no thread, no buffered
\* frame, no event and no pending transaction, whatever the application does
\* next; every call but disconnect() needs the transport open.
ClosedInv ==
    /\ callerPc \in {"drain", "waitevent"} \cup InTransact => open
    /\ ~ open => rxPc = "none" /\ events = <<>> /\ toHost = <<>> /\ ~ pending

\* The receive thread never uses a closed transport, and a session leaves
\* nothing behind for the next one.
THEOREM SessionsAreSeparate == Spec => []SessionsSeparate
<1>1. Init => ClosedInv
  BY DEF Init, ClosedInv, InTransact
<1>2. ASSUME ClosedInv, [Next]_vars
      PROVE  ClosedInv'
  <2>1. CASE ReadRegister \/ SendWriteImmediate
    <3>1. PICK f \in Requests :
              Transact(f) \/ Post(f) \/ Refused(f) \/ PostFault(f)
      BY <2>1 DEF ReadRegister, SendWriteImmediate
    <3>2. CASE Transact(f)
      BY <1>2, <3>2
         DEF Transact, ClosedInv, InTransact, rxVars, lineVars, busVars
    <3>3. CASE Post(f) \/ Refused(f) \/ PostFault(f)
      BY <1>2, <3>3
         DEF Post, Refused, PostFault, ClosedInv, rxVars, ptVars, lineVars,
             busVars
    <3> QED
      BY <3>1, <3>2, <3>3
  <2>2. CASE InCall
    BY <1>2, <2>2
       DEF InCall, Send, SendFault, WaitReturn, Finish, WaitTimeout, Retry,
           GiveUp, ClosedInv, InTransact, rxVars, ptVars, lineVars, busVars
  <2>3. CASE Events
    BY <1>2, <2>3
       DEF Events, TakeEvent, WaitForEvent, WakeWithEvent, WakeWithout,
           PopEvent, ClosedInv, InTransact, callerVars, rxVars, ptVars,
           lineVars, busVars
  <2>4. CASE Session
    BY <1>2, <2>4
       DEF Session, ConnectOpen, DrainFrame, DrainFault, StartThread,
           DisconnectStop, DisconnectFinish, ClosedInv, InTransact,
           callerVars, rxVars, ptVars, lineVars, busVars
  <2>5. CASE Rx
    BY <1>2, <2>5
       DEF Rx, RxCheck, RxReceive, RxTimeout, RxFault, RxMatch, RxDeliver,
           RxEnqueue, ClosedInv, callerVars, rxVars, ptVars, lineVars,
           busVars
  <2>6. CASE Bus \/ UNCHANGED vars
    <3>1. ~ open => toHost' = toHost
      BY <2>6
         DEF Bus, DeviceServe, LoseCommand, LoseAnswer, DeviceEvent, Arrive,
             vars, busVars
    <3>2. UNCHANGED <<callerPc, rxPc, open, events, pending>>
      BY <2>6
         DEF Bus, DeviceServe, LoseCommand, LoseAnswer, DeviceEvent, vars,
             callerVars, rxVars, ptVars, lineVars
    <3> QED
      BY <1>2, <3>1, <3>2 DEF ClosedInv
  <2> QED
    BY <1>2, <2>1, <2>2, <2>3, <2>4, <2>5, <2>6 DEF Next
<1>3. ClosedInv => SessionsSeparate
  BY DEF ClosedInv, SessionsSeparate
<1> QED
  BY <1>1, <1>2, <1>3, PTL DEF Spec

-----------------------------------------------------------------------------
(* The engine implements the port                                          *)

\* Inductive: what the caller's place says about the transport and about the
\* number of transmissions so far.
TriesInv ==
    /\ callerPc \in {"drain", "waitevent"} \cup InTransact => open
    /\ callerPc = "send" => sent = attempt
    /\ callerPc \in {"wait", "finish", "timedout"} => sent = attempt + 1

\* TriesInv holds throughout: one transmission per attempt.
LEMMA TriesCounted == Spec => []TriesInv
<1>1. Init => TriesInv
  BY DEF Init, TriesInv, InTransact
<1>2. ASSUME TypeOK, TriesInv, [Next]_vars
      PROVE  TriesInv'
  <2>0. attempt \in Nat
    BY <1>2, ConfigAssumption DEF TypeOK
  <2>1. CASE ReadRegister \/ SendWriteImmediate
    <3>1. PICK f \in Requests :
              Transact(f) \/ Post(f) \/ Refused(f) \/ PostFault(f)
      BY <2>1 DEF ReadRegister, SendWriteImmediate
    <3>2. CASE Transact(f)
      BY <3>2 DEF Transact, TriesInv, lineVars
    <3>3. CASE Post(f) \/ Refused(f) \/ PostFault(f)
      BY <3>3 DEF Post, Refused, PostFault, TriesInv, InTransact
    <3> QED
      BY <3>1, <3>2, <3>3
  <2>2. CASE InCall
    BY <1>2, <2>0, <2>2
       DEF InCall, Send, SendFault, WaitReturn, Finish, WaitTimeout, Retry,
           GiveUp, TriesInv, InTransact, lineVars, callHist, hist
  <2>3. CASE Events \/ Session
    BY <1>2, <2>3
       DEF Events, TakeEvent, WaitForEvent, WakeWithEvent, WakeWithout,
           Session, ConnectOpen, DrainFrame, DrainFault, StartThread,
           DisconnectStop, DisconnectFinish, PopEvent, TriesInv, InTransact,
           callerVars, lineVars, callHist, hist
  <2>4. CASE Rx \/ Bus \/ UNCHANGED vars
    <3>1. UNCHANGED <<callerPc, attempt, open, sent>>
      BY <2>4
         DEF Rx, RxCheck, RxReceive, RxTimeout, RxFault, RxMatch, RxDeliver,
             RxEnqueue, Bus, DeviceServe, LoseCommand, LoseAnswer,
             DeviceEvent, vars, callerVars, lineVars, callHist, hist
    <3> QED
      BY <1>2, <3>1 DEF TriesInv
  <2> QED
    BY <1>2, <2>1, <2>2, <2>3, <2>4 DEF Next
<1> QED
  BY <1>1, <1>2, TypeCorrect, PTL DEF Spec

\* Every step of the two threads, the bus and the gripper is a step of the
\* port or leaves it as it is.
THEOREM EngineImplementsPort == Spec => Port!Spec
<1>1. Init => Port!Init
  BY DataTypes DEF Init, Port!Init, InTransact, DefaultWire
<1>2. ASSUME TypeOK, TriesInv, MatchInv, [Next]_vars
      PROVE  [Port!Next]_(Port!vars)
  <2>0. /\ attempt \in 0 .. MaxRetries /\ MaxRetries \in Nat
        /\ pt.expected \in Frame /\ result.request \in Frame
        /\ pt.response.frame \in Frame /\ DefaultWire.frame \in Frame
    BY <1>2, ConfigAssumption, DataTypes
       DEF TypeOK, Transaction, Result, Wire
  <2>1. CASE ReadRegister \/ SendWriteImmediate
    <3>1. PICK f \in Requests :
              Transact(f) \/ Post(f) \/ Refused(f) \/ PostFault(f)
      BY <2>1 DEF ReadRegister, SendWriteImmediate
    <3>2. f \in Frame
      BY DataTypes
    <3>3. CASE Transact(f)
      <4>1. Port!Begin
        BY <3>2, <3>3 DEF Transact, Port!Begin, InTransact
      <4> QED
        BY <4>1 DEF Port!Next
    <3>4. CASE Post(f) \/ Refused(f) \/ PostFault(f)
      <4>1. Port!PostOrRefuse
        BY <2>0, <3>2, <3>4
           DEF Post, Refused, PostFault, Port!PostOrRefuse, InTransact,
               lineVars
      <4> QED
        BY <4>1 DEF Port!Next
    <3> QED
      BY <3>1, <3>3, <3>4
  <2>2. CASE Send
    <3>1. Port!Transmit
      BY <1>2, <2>0, <2>2
         DEF Send, TriesInv, Port!Transmit, InTransact, ptVars
    <3> QED
      BY <3>1 DEF Port!Next, Port!Progress
  <2>3. CASE SendFault
    <3>1. Port!Break
      BY <1>2, <2>0, <2>3
         DEF SendFault, TriesInv, Port!Break, InTransact, lineVars, callHist
    <3> QED
      BY <3>1 DEF Port!Next, Port!Progress
  <2>4. CASE Finish
    <3>1. Port!Answer
      BY <1>2, <2>0, <2>4
         DEF Finish, TriesInv, MatchInv, Port!Answer, InTransact, lineVars
    <3> QED
      BY <3>1 DEF Port!Next, Port!Progress
  <2>5. CASE GiveUp
    <3>1. Port!TimeOut
      BY <1>2, <2>0, <2>5
         DEF GiveUp, AttemptsLeft, TriesInv, Port!TimeOut, InTransact,
             lineVars, callHist, hist
    <3> QED
      BY <3>1 DEF Port!Next, Port!Progress
  <2>6. CASE WaitReturn \/ WaitTimeout \/ Retry
    <3>1. UNCHANGED Port!vars
      BY <2>6
         DEF WaitReturn, WaitTimeout, Retry, Port!vars, InTransact, ptVars,
             lineVars, callHist, hist
    <3> QED
      BY <3>1
  <2>7. CASE ConnectOpen
    <3>1. Port!Open
      BY <2>7 DEF ConnectOpen, Port!Open, InTransact, callHist
    <3> QED
      BY <3>1 DEF Port!Next
  <2>8. CASE DisconnectFinish
    <3>1. Port!Close
      BY <2>8 DEF DisconnectFinish, Port!Close, InTransact, callHist
    <3> QED
      BY <3>1 DEF Port!Next
  <2>9. CASE \/ DrainFrame \/ DrainFault \/ StartThread \/ DisconnectStop
             \/ Events \/ Rx \/ Bus \/ UNCHANGED vars
    <3>1. UNCHANGED <<open, result, sent>>
      BY <2>9
         DEF DrainFrame, DrainFault, StartThread, DisconnectStop, Events,
             TakeEvent, WaitForEvent, WakeWithEvent, WakeWithout, PopEvent,
             Rx, RxCheck, RxReceive, RxTimeout, RxFault, RxMatch, RxDeliver,
             RxEnqueue, Bus, DeviceServe, LoseCommand, LoseAnswer,
             DeviceEvent, vars, callerVars, lineVars, callHist, hist
    <3>2. /\ callerPc \in InTransact <=> callerPc' \in InTransact
          /\ pt'.expected = pt.expected
      BY <1>2, <2>9, PtTypes
         DEF DrainFrame, DrainFault, StartThread, DisconnectStop, Events,
             TakeEvent, WaitForEvent, WakeWithEvent, WakeWithout, Rx,
             RxCheck, RxReceive, RxTimeout, RxFault, RxMatch, RxDeliver,
             RxEnqueue, Bus, DeviceServe, LoseCommand, LoseAnswer,
             DeviceEvent, vars, callerVars, ptVars, InTransact
    <3>3. UNCHANGED Port!vars
      BY <3>1, <3>2 DEF Port!vars
    <3> QED
      BY <3>3
  <2> QED
    BY <1>2, <2>1, <2>2, <2>3, <2>4, <2>5, <2>6, <2>7, <2>8, <2>9
       DEF Next, InCall, Session
<1> QED
  BY <1>1, <1>2, TypeCorrect, TriesCounted, MatchHolds, PTL
     DEF Spec, Port!Spec

-----------------------------------------------------------------------------
(***************************************************************************)
(* Where the frames end up.  What receive_event() returns comes in the     *)
(* order in which it arrived, none of the gripper's own frames is lost on  *)
(* the way, and none is an answer that transact() returned as well.  Until *)
(* a wait times out the answer that transact() returns is the one to this  *)
(* very call, and a read returns the value written last.                   *)
(***************************************************************************)

(* Sequences, one element at a time                                        *)

\* What Append leaves and adds.
LEMMA Appending ==
    ASSUME NEW S, NEW s \in Seq(S), NEW e \in S, NEW t, t = Append(s, e)
    PROVE  /\ t \in Seq(S) /\ Len(s) \in Nat /\ Len(t) = Len(s) + 1
           /\ \A i \in 1 .. Len(s) : t[i] = s[i]
           /\ t[Len(s) + 1] = e
BY SMT, AppendProperties

\* What Tail leaves and Head takes.
LEMMA Taking ==
    ASSUME NEW S, NEW s \in Seq(S), s # <<>>, NEW t, t = Tail(s)
    PROVE  /\ t \in Seq(S) /\ Len(s) \in Nat /\ Len(t) = Len(s) - 1
           /\ \A i \in 1 .. Len(t) : t[i] = s[i + 1]
           /\ 1 \in 1 .. Len(s) /\ Head(s) = s[1] /\ s[1] \in S
BY SMT, HeadTailProperties

\* t is s, followed by e.
Joined(t, s, e) ==
    /\ Len(t) = Len(s) + Len(e)
    /\ \A i \in 1 .. Len(t) :
           t[i] = IF i =< Len(s) THEN s[i] ELSE e[i - Len(s)]

\* What stands where when one sequence follows another.
LEMMA Joining ==
    ASSUME NEW S, NEW s \in Seq(S), NEW e \in Seq(S)
    PROVE  s \o e \in Seq(S) /\ Joined(s \o e, s, e)
BY SMT, ConcatProperties DEF Joined

-----------------------------------------------------------------------------
(* The inductive invariant                                                 *)

\* The receive thread has a frame in hand.
Hand == rxPc \in {"match", "deliver", "enqueue"}

\* The frames on their way to the application, the oldest first: what it took,
\* the event queue, the frame in hand, the receive buffer.  Every one of them
\* has a number of its own, up to emitted.
QueueInv ==
    /\ \A u \in taken : u =< emitted
    /\ \A i \in 1 .. Len(events) : events[i].uid =< emitted
    /\ \A i \in 1 .. Len(toHost) : toHost[i].uid =< emitted
    /\ Hand => rxFrame.uid =< emitted
    /\ \A i, j \in 1 .. Len(events) : i < j => events[i].uid < events[j].uid
    /\ \A i, j \in 1 .. Len(toHost) : i < j => toHost[i].uid < toHost[j].uid
    /\ \A i \in 1 .. Len(events), j \in 1 .. Len(toHost) :
           events[i].uid < toHost[j].uid
    /\ \A u \in taken : /\ \A i \in 1 .. Len(events) : u < events[i].uid
                        /\ \A i \in 1 .. Len(toHost) : u < toHost[i].uid
                        /\ Hand => u < rxFrame.uid
    /\ Hand => /\ \A i \in 1 .. Len(events) : events[i].uid < rxFrame.uid
               /\ \A i \in 1 .. Len(toHost) : rxFrame.uid < toHost[i].uid

\* The answer of the newest transaction has left the way to the application.
AnswerInv ==
    pt.completed =>
        /\ pt.response.uid =< emitted
        /\ pt.response.uid \notin taken
        /\ \A i \in 1 .. Len(events) : events[i].uid # pt.response.uid
        /\ \A i \in 1 .. Len(toHost) : toHost[i].uid # pt.response.uid
        /\ Hand => rxFrame.uid # pt.response.uid

\* What carries the number of an unsolicited frame is one, so that no request
\* matches it.
MarkInv ==
    /\ pending => pt.expected \in Requests
    /\ \A u \in unsolicited : u =< emitted
    /\ callerPc = "drain" => unsolicited = {}
    /\ \A i \in 1 .. Len(toHost) :
           toHost[i].uid \in unsolicited => toHost[i].frame \in Unsolicited
    /\ Hand /\ rxFrame.uid \in unsolicited => rxFrame.frame \in Unsolicited
    /\ UnsolicitedDistinct /\ rxPc = "deliver"
           => rxFrame.uid \notin unsolicited

\* Every unsolicited frame is somewhere on its way, or taken.
KeptInv ==
    UnsolicitedDistinct /\ ~ overflow =>
        \A u \in unsolicited :
            \/ u \in taken
            \/ \E i \in 1 .. Len(events) : events[i].uid = u
            \/ Hand /\ rxFrame.uid = u
            \/ \E i \in 1 .. Len(toHost) : toHost[i].uid = u

FlowInv == QueueInv /\ AnswerInv /\ MarkInv /\ KeptInv

\* Numbers and sequences of the invariant are what they are taken for.
LEMMA FlowTypes ==
    ASSUME TypeOK
    PROVE  /\ events \in Seq(Wire) /\ toHost \in Seq(Wire)
           /\ Len(events) \in Nat /\ Len(toHost) \in Nat
           /\ emitted \in Nat /\ rxFrame \in Wire /\ rxFrame.uid \in Nat
           /\ pt.response.uid \in Nat
           /\ \A i \in 1 .. Len(events) : events[i].uid \in Nat
           /\ \A i \in 1 .. Len(toHost) : toHost[i].uid \in Nat
           /\ \A u \in taken : u \in Nat
           /\ \A u \in unsolicited : u \in Nat
<1>1. /\ events \in Seq(Wire) /\ toHost \in Seq(Wire)
      /\ emitted \in Nat /\ rxFrame \in Wire /\ pt.response \in Wire
      /\ taken \subseteq Nat /\ unsolicited \subseteq Nat
  BY DEF TypeOK, Transaction
<1>2. /\ \A i \in 1 .. Len(events) : events[i] \in Wire
      /\ \A i \in 1 .. Len(toHost) : toHost[i] \in Wire
      /\ Len(events) \in Nat /\ Len(toHost) \in Nat
  BY <1>1, ElementOfSeq, LenProperties
<1> QED
  BY <1>1, <1>2 DEF Wire

-----------------------------------------------------------------------------
(* The steps                                                               *)

\* Steps that change neither a queue nor what is in hand.
LEMMA StillStep ==
    ASSUME TypeOK, FlowInv,
           UNCHANGED <<events, toHost, taken, unsolicited, overflow, emitted>>,
           UNCHANGED <<pt, rxFrame>>,
           pending' => pending,
           callerPc' # "drain" \/ callerPc' = callerPc,
           rxPc' = rxPc \/ (~ Hand /\ ~ Hand')
    PROVE  FlowInv'
<1>1. Hand' = Hand /\ (rxPc' = "deliver" => rxPc = "deliver")
  BY DEF Hand
<1>2. QueueInv' /\ AnswerInv' /\ KeptInv'
  BY <1>1 DEF FlowInv, QueueInv, AnswerInv, KeptInv, UnsolicitedDistinct
<1>3. MarkInv'
  BY <1>1 DEF FlowInv, MarkInv, UnsolicitedDistinct
<1> QED BY <1>2, <1>3 DEF FlowInv


\* Such are the steps of a transact() that was begun, of requests that are
\* not transacted, and of the waits.
LEMMA StillSteps ==
    ASSUME TypeOK, FlowInv,
           \/ \E f \in Requests : Post(f) \/ Refused(f) \/ PostFault(f)
           \/ InCall \/ WaitForEvent \/ WakeWithout
           \/ DrainFault \/ DisconnectStop
           \/ RxCheck \/ RxTimeout \/ RxFault \/ LoseCommand \/ LoseAnswer
           \/ UNCHANGED vars
    PROVE  FlowInv'
<1>1. CASE \/ \E f \in Requests : Post(f) \/ Refused(f) \/ PostFault(f)
           \/ WaitForEvent \/ WakeWithout \/ DrainFault \/ DisconnectStop
           \/ LoseCommand \/ LoseAnswer \/ UNCHANGED vars
  <2>1. /\ UNCHANGED <<events, toHost, taken, unsolicited, overflow, emitted>>
        /\ UNCHANGED <<pt, rxFrame, pending, rxPc>>
        /\ callerPc' # "drain" \/ callerPc' = callerPc
    BY <1>1 DEF Post, Refused, PostFault, WaitForEvent, WakeWithout,
            DrainFault, DisconnectStop, LoseCommand, LoseAnswer, vars,
            callerVars, rxVars, ptVars, busVars, callHist, eventHist, hist
  <2> QED BY <2>1, StillStep
<1>2. CASE InCall
  <2>1. /\ UNCHANGED <<events, toHost, taken, unsolicited, overflow, emitted>>
        /\ UNCHANGED <<pt, rxFrame, rxPc>>
        /\ pending' => pending
        /\ callerPc' # "drain" \/ callerPc' = callerPc
    BY <1>2 DEF InCall, Send, SendFault, WaitReturn, Finish, WaitTimeout,
            Retry, GiveUp, callerVars, rxVars, ptVars, busVars, callHist,
            eventHist, hist
  <2> QED BY <2>1, StillStep
<1>3. CASE RxCheck \/ RxTimeout \/ RxFault
  <2>1. /\ UNCHANGED <<events, toHost, taken, unsolicited, overflow, emitted>>
        /\ UNCHANGED <<pt, rxFrame, pending, callerPc>>
        /\ ~ Hand /\ ~ Hand'
    BY <1>3 DEF RxCheck, RxTimeout, RxFault, AfterError, Hand,
            callerVars, rxVars, ptVars, busVars, callHist, eventHist, hist
  <2> QED BY <2>1, StillStep
<1> QED BY <1>1, <1>2, <1>3

\* A request that is transacted has no answer yet.
LEMMA TransactStep ==
    ASSUME TypeOK, FlowInv, NEW f \in Requests, Transact(f)
    PROVE  FlowInv'
<1>1. /\ UNCHANGED <<events, toHost, taken, unsolicited, overflow, emitted>>
      /\ UNCHANGED <<rxFrame, rxPc>>
      /\ callerPc' = "send" /\ pt'.expected = f /\ ~ pt'.completed
  BY DEF Transact, rxVars, busVars, eventHist
<1>2. Hand' = Hand
  BY <1>1 DEF Hand
<1>3. QueueInv' /\ AnswerInv' /\ KeptInv'
  BY <1>1, <1>2 DEF FlowInv, QueueInv, AnswerInv, KeptInv, UnsolicitedDistinct
<1>4. MarkInv'
  BY <1>1, <1>2 DEF FlowInv, MarkInv, UnsolicitedDistinct
<1> QED BY <1>3, <1>4 DEF FlowInv

\* connect() forgets what was taken and what was sent in the last session.
LEMMA ConnectStep ==
    ASSUME TypeOK, FlowInv, ConnectOpen
    PROVE  FlowInv'
<1>1. /\ UNCHANGED <<events, toHost, emitted, pt, pending, rxFrame, rxPc>>
      /\ taken' = {} /\ unsolicited' = {}
  BY DEF ConnectOpen, rxVars, ptVars, busVars
<1>2. Hand' = Hand
  BY <1>1 DEF Hand
<1>3. QueueInv' /\ AnswerInv' /\ KeptInv'
  BY <1>1, <1>2 DEF FlowInv, QueueInv, AnswerInv, KeptInv
<1>4. MarkInv'
  BY <1>1, <1>2 DEF FlowInv, MarkInv, UnsolicitedDistinct
<1> QED BY <1>3, <1>4 DEF FlowInv

\* A frame read while draining is none of this session's events.
LEMMA DrainStep ==
    ASSUME TypeOK, FlowInv, DrainFrame
    PROVE  FlowInv'
<1>1. /\ UNCHANGED <<events, emitted, pt, pending, rxFrame, rxPc, taken,
                     unsolicited, overflow, callerPc>>
      /\ toHost # <<>> /\ toHost' = Tail(toHost) /\ callerPc = "drain"
  BY DEF DrainFrame, callerVars, rxVars, ptVars, eventHist, hist
<1>2. Hand' = Hand
  BY <1>1 DEF Hand
<1>3. /\ Len(toHost) \in Nat /\ Len(toHost') = Len(toHost) - 1
      /\ \A i \in 1 .. Len(toHost') : toHost'[i] = toHost[i + 1]
  BY <1>1, Taking, FlowTypes
<1>4. \A i \in 1 .. Len(toHost') : i + 1 \in 1 .. Len(toHost)
  BY <1>3
<1>5. unsolicited' = {}
  BY <1>1 DEF FlowInv, MarkInv
<1>6. QueueInv'
  <2>1. \A i, j \in 1 .. Len(toHost') : i < j =>
            toHost'[i].uid < toHost'[j].uid
    BY <1>3, <1>4 DEF FlowInv, QueueInv
  <2> QED BY <1>1, <1>2, <1>3, <1>4, <2>1 DEF FlowInv, QueueInv
<1>7. AnswerInv' /\ KeptInv'
  BY <1>1, <1>2, <1>3, <1>4, <1>5 DEF FlowInv, AnswerInv, KeptInv
<1>8. MarkInv'
  BY <1>1, <1>2, <1>5 DEF FlowInv, MarkInv, UnsolicitedDistinct
<1> QED BY <1>6, <1>7, <1>8 DEF FlowInv

\* The thread starts with nothing in hand, and nothing was sent before.
LEMMA StartStep ==
    ASSUME TypeOK, FlowInv, StartThread
    PROVE  FlowInv'
<1>1. /\ UNCHANGED <<events, toHost, emitted, pt, pending, rxFrame, taken,
                     unsolicited, overflow>>
      /\ callerPc = "drain" /\ rxPc' = "check"
  BY DEF StartThread, ptVars, busVars, eventHist, hist
<1>2. ~ Hand' /\ unsolicited' = {}
  BY <1>1 DEF Hand, FlowInv, MarkInv
<1>3. QueueInv' /\ AnswerInv' /\ KeptInv'
  BY <1>1, <1>2 DEF FlowInv, QueueInv, AnswerInv, KeptInv
<1>4. MarkInv'
  BY <1>1, <1>2 DEF FlowInv, MarkInv, UnsolicitedDistinct
<1> QED BY <1>3, <1>4 DEF FlowInv

\* disconnect() empties both queues and has joined the thread.
LEMMA FinishStep ==
    ASSUME TypeOK, FlowInv, DisconnectFinish
    PROVE  FlowInv'
<1>1. /\ UNCHANGED <<emitted, pt, rxFrame, taken, overflow>>
      /\ events' = <<>> /\ toHost' = <<>> /\ unsolicited' = {}
      /\ rxPc' = "none" /\ ~ pending' /\ callerPc' = "idle"
  BY DEF DisconnectFinish
<1>2. ~ Hand' /\ 1 .. Len(events') = {} /\ 1 .. Len(toHost') = {}
  BY <1>1 DEF Hand
<1>3. QueueInv' /\ AnswerInv' /\ KeptInv'
  BY <1>1, <1>2 DEF FlowInv, QueueInv, AnswerInv, KeptInv
<1>4. MarkInv'
  BY <1>1, <1>2 DEF FlowInv, MarkInv, UnsolicitedDistinct
<1> QED BY <1>3, <1>4 DEF FlowInv

\* receive_event() takes the oldest frame there is.
LEMMA PopStep ==
    ASSUME TypeOK, FlowInv, TakeEvent \/ WakeWithEvent
    PROVE  FlowInv'
<1>1. /\ UNCHANGED <<emitted, pt, pending, rxFrame, rxPc, toHost, overflow,
                     unsolicited>>
      /\ events # <<>> /\ events' = Tail(events)
      /\ taken' = taken \cup {Head(events).uid}
      /\ callerPc' # "drain"
  BY DEF TakeEvent, WakeWithEvent, PopEvent, callerVars, rxVars, ptVars,
         busVars
<1>2. Hand' = Hand
  BY <1>1 DEF Hand
<1>3. /\ Len(events) \in Nat /\ Len(events') = Len(events) - 1
      /\ \A i \in 1 .. Len(events') : events'[i] = events[i + 1]
      /\ 1 \in 1 .. Len(events) /\ Head(events) = events[1]
  BY <1>1, Taking, FlowTypes
<1>4. \A i \in 1 .. Len(events') : i + 1 \in 1 .. Len(events) /\ 1 < i + 1
  BY <1>3
<1>5. \A u \in taken' : u \in taken \/ u = events[1].uid
  BY <1>1, <1>3
<1>6. QueueInv'
  <2>1. \A i, j \in 1 .. Len(events') : i < j =>
            events'[i].uid < events'[j].uid
    BY <1>3, <1>4 DEF FlowInv, QueueInv
  <2>2. \A i \in 1 .. Len(events') : events[1].uid < events'[i].uid
    BY <1>3, <1>4 DEF FlowInv, QueueInv
  <2> QED
    BY <1>1, <1>2, <1>3, <1>4, <1>5, <2>1, <2>2 DEF FlowInv, QueueInv
<1>7. AnswerInv'
  BY <1>1, <1>2, <1>3, <1>4, <1>5 DEF FlowInv, AnswerInv
<1>8. MarkInv'
  BY <1>1, <1>2 DEF FlowInv, MarkInv, UnsolicitedDistinct
<1>9. KeptInv'
  <2>1. SUFFICES ASSUME UnsolicitedDistinct, ~ overflow, NEW u \in unsolicited,
                        u \notin taken',
                        NEW i \in 1 .. Len(events), events[i].uid = u
                 PROVE  \E j \in 1 .. Len(events') : events'[j].uid = u
    BY <1>1, <1>2 DEF FlowInv, KeptInv, UnsolicitedDistinct
  <2>2. i # 1
    BY <1>1, <1>3, <2>1
  <2>3. i - 1 \in 1 .. Len(events') /\ events'[i - 1].uid = u
    BY <1>3, <2>1, <2>2
  <2> QED BY <2>3
<1> QED BY <1>6, <1>7, <1>8, <1>9 DEF FlowInv


\* The frame the receive thread reads is the next one on the way.
LEMMA ReceiveStep ==
    ASSUME TypeOK, FlowInv, RxReceive
    PROVE  FlowInv'
<1>1. /\ UNCHANGED <<emitted, pt, pending, events, taken, overflow,
                     unsolicited, callerPc>>
      /\ toHost # <<>> /\ toHost' = Tail(toHost)
      /\ rxFrame' = Head(toHost) /\ rxPc = "receive" /\ rxPc' = "match"
  BY DEF RxReceive, callerVars, ptVars, eventHist, hist
<1>2. ~ Hand /\ Hand'
  BY <1>1 DEF Hand
<1>3. /\ Len(toHost) \in Nat /\ Len(toHost') = Len(toHost) - 1
      /\ \A i \in 1 .. Len(toHost') : toHost'[i] = toHost[i + 1]
      /\ 1 \in 1 .. Len(toHost) /\ rxFrame' = toHost[1]
  BY <1>1, Taking, FlowTypes
<1>4. \A i \in 1 .. Len(toHost') : i + 1 \in 1 .. Len(toHost) /\ 1 < i + 1
  BY <1>3
<1>5. QueueInv'
  <2>1. \A i, j \in 1 .. Len(toHost') : i < j =>
            toHost'[i].uid < toHost'[j].uid
    <3>1. \A i, j \in 1 .. Len(toHost') : i < j => i + 1 < j + 1
      BY <1>3
    <3> QED BY <1>3, <1>4, <3>1 DEF FlowInv, QueueInv
  <2>2. \A i \in 1 .. Len(toHost') : toHost[1].uid < toHost'[i].uid
    BY <1>3, <1>4 DEF FlowInv, QueueInv
  <2> QED
    BY <1>1, <1>2, <1>3, <1>4, <2>1, <2>2 DEF FlowInv, QueueInv
<1>6. AnswerInv'
  BY <1>1, <1>2, <1>3, <1>4 DEF FlowInv, AnswerInv
<1>7. MarkInv'
  BY <1>1, <1>2, <1>3, <1>4 DEF FlowInv, MarkInv, UnsolicitedDistinct
<1>8. KeptInv'
  <2>1. SUFFICES ASSUME UnsolicitedDistinct, ~ overflow, NEW u \in unsolicited,
                        rxFrame'.uid # u,
                        NEW i \in 1 .. Len(toHost), toHost[i].uid = u
                 PROVE  \E j \in 1 .. Len(toHost') : toHost'[j].uid = u
    BY <1>1, <1>2 DEF FlowInv, KeptInv, UnsolicitedDistinct
  <2>2. i # 1
    BY <1>3, <2>1
  <2>3. i - 1 \in 1 .. Len(toHost') /\ toHost'[i - 1].uid = u
    BY <1>3, <2>1, <2>2
  <2> QED BY <2>3
<1> QED BY <1>5, <1>6, <1>7, <1>8 DEF FlowInv

\* No request matches a frame the gripper sent of its own accord.
LEMMA MatchStep ==
    ASSUME TypeOK, FlowInv, RxMatch
    PROVE  FlowInv'
<1>1. /\ UNCHANGED <<events, toHost, emitted, pt, pending, rxFrame, taken,
                     unsolicited, overflow, callerPc>>
      /\ rxPc = "match" /\ rxPc' \in {"deliver", "enqueue"}
      /\ rxPc' = "deliver" =>
             pending /\ FrameMatches(pt.expected, rxFrame.frame)
  BY DEF RxMatch, callerVars, ptVars, busVars, eventHist, hist
<1>2. Hand /\ Hand'
  BY <1>1 DEF Hand
<1>3. QueueInv' /\ AnswerInv' /\ KeptInv'
  BY <1>1, <1>2 DEF FlowInv, QueueInv, AnswerInv, KeptInv, UnsolicitedDistinct
<1>4. UnsolicitedDistinct /\ rxPc' = "deliver" =>
          rxFrame.uid \notin unsolicited
  BY <1>1, <1>2 DEF FlowInv, MarkInv, UnsolicitedDistinct
<1>5. MarkInv'
  BY <1>1, <1>2, <1>4 DEF FlowInv, MarkInv, UnsolicitedDistinct
<1> QED BY <1>3, <1>5 DEF FlowInv

\* An answer leaves the way to the application; it is no unsolicited frame.
LEMMA DeliverStep ==
    ASSUME TypeOK, FlowInv, RxDeliver
    PROVE  FlowInv'
<1>1. /\ UNCHANGED <<events, toHost, emitted, pending, rxFrame, taken,
                     unsolicited, overflow, callerPc>>
      /\ rxPc = "deliver" /\ rxPc' = "check"
      /\ pt'.expected = pt.expected
      /\ \/ pt' = pt
         \/ pt'.completed /\ pt'.response = rxFrame
  BY PtTypes DEF RxDeliver, AfterDelivery, callerVars, busVars, eventHist,
         hist, TypeOK, Transaction
<1>2. Hand /\ ~ Hand'
  BY <1>1 DEF Hand
<1>3. QueueInv' /\ KeptInv'
  BY <1>1, <1>2 DEF FlowInv, QueueInv, MarkInv, KeptInv, UnsolicitedDistinct
<1>4. AnswerInv'
  <2>1. CASE pt' = pt
    BY <1>1, <1>2, <2>1 DEF FlowInv, AnswerInv
  <2>2. CASE pt'.completed /\ pt'.response = rxFrame
    <3>1. /\ rxFrame.uid =< emitted /\ rxFrame.uid \notin taken
          /\ \A i \in 1 .. Len(events) : events[i].uid # rxFrame.uid
          /\ \A i \in 1 .. Len(toHost) : toHost[i].uid # rxFrame.uid
      BY <1>2, FlowTypes DEF FlowInv, QueueInv
    <3> QED BY <1>1, <1>2, <2>2, <3>1 DEF AnswerInv
  <2> QED BY <1>1, <2>1, <2>2
<1>5. MarkInv'
  BY <1>1, <1>2 DEF FlowInv, MarkInv, UnsolicitedDistinct
<1> QED BY <1>3, <1>4, <1>5 DEF FlowInv

\* The frame in hand goes behind the queue, unless the queue is full.
LEMMA EnqueueStep ==
    ASSUME TypeOK, FlowInv, RxEnqueue
    PROVE  FlowInv'
<1>1. /\ UNCHANGED <<toHost, emitted, pt, pending, rxFrame, taken,
                     unsolicited, callerPc>>
      /\ rxPc = "enqueue" /\ rxPc' = "check"
      /\ \/ events' = Append(events, rxFrame) /\ overflow' = overflow
         \/ events' = events /\ overflow'
  BY DEF RxEnqueue, Pushed, callerVars, ptVars, busVars, callHist, hist
<1>2. Hand /\ ~ Hand'
  BY <1>1 DEF Hand
<1>3. CASE events' = events /\ overflow'
  BY <1>1, <1>2, <1>3
     DEF FlowInv, QueueInv, AnswerInv, MarkInv, KeptInv, UnsolicitedDistinct
<1>4. CASE events' = Append(events, rxFrame) /\ overflow' = overflow
  <2>1. /\ Len(events) \in Nat /\ Len(events') = Len(events) + 1
        /\ \A i \in 1 .. Len(events) : events'[i] = events[i]
        /\ events'[Len(events) + 1] = rxFrame
    BY <1>4, Appending, FlowTypes
  <2>2. /\ \A i \in 1 .. Len(events') :
               i \in 1 .. Len(events) \/ i = Len(events) + 1
        /\ \A i \in 1 .. Len(events) : i \in 1 .. Len(events')
        /\ Len(events) + 1 \in 1 .. Len(events')
    BY <2>1
  <2>3. QueueInv'
    <3>1. \A i, j \in 1 .. Len(events') : i < j =>
              events'[i].uid < events'[j].uid
      BY <1>2, <2>1, <2>2 DEF FlowInv, QueueInv
    <3> QED
      BY <1>1, <1>2, <2>1, <2>2, <3>1 DEF FlowInv, QueueInv
  <2>4. AnswerInv'
    BY <1>1, <1>2, <2>1, <2>2 DEF FlowInv, AnswerInv
  <2>5. MarkInv'
    BY <1>1, <1>2 DEF FlowInv, MarkInv, UnsolicitedDistinct
  <2>6. KeptInv'
    BY <1>1, <1>2, <1>4, <2>1, <2>2 DEF FlowInv, KeptInv, UnsolicitedDistinct
  <2> QED BY <2>3, <2>4, <2>5, <2>6 DEF FlowInv
<1> QED BY <1>1, <1>3, <1>4

\* A frame that arrives is behind all others, and has a new number.
LEMMA ArriveStep ==
    ASSUME TypeOK, FlowInv, NEW f \in Frame, NEW tag \in Nat, Arrive(f, tag),
           emitted' = emitted + 1,
           UNCHANGED <<callerPc, rxVars, ptVars, events, taken, overflow>>,
           \/ unsolicited' = unsolicited
           \/ /\ unsolicited' = unsolicited \cup {emitted + 1}
              /\ open /\ callerPc # "drain" /\ f \in Unsolicited
    PROVE  FlowInv'
<1>1. /\ UNCHANGED <<pt, pending, rxFrame, rxPc>>
      /\ Hand' = Hand
  BY DEF rxVars, ptVars, Hand
<1>2. /\ emitted \in Nat
      /\ \A u \in unsolicited : u \in Nat /\ u =< emitted
  BY FlowTypes DEF FlowInv, MarkInv
<1>3. CASE ~ open
  <2>1. toHost' = toHost /\ unsolicited' = unsolicited
    BY <1>3 DEF Arrive
  <2>2. QueueInv'
    BY <1>1, <2>1, FlowTypes DEF FlowInv, QueueInv
  <2>3. AnswerInv'
    BY <1>1, <2>1, FlowTypes DEF FlowInv, AnswerInv
  <2>4. MarkInv' /\ KeptInv'
    BY <1>1, <1>2, <2>1 DEF FlowInv, MarkInv, KeptInv, UnsolicitedDistinct
  <2> QED BY <2>2, <2>3, <2>4 DEF FlowInv
<1>4. CASE open
  <2> DEFINE w == [frame |-> f, tag |-> tag, uid |-> emitted + 1]
  <2>1. w \in Wire /\ w.uid = emitted + 1 /\ w.frame = f
    BY <1>2 DEF Wire
  <2>2. toHost' = Append(toHost, w)
    BY <1>4 DEF Arrive
  <2> HIDE DEF w
  <2>3. /\ Len(toHost) \in Nat /\ Len(toHost') = Len(toHost) + 1
        /\ \A i \in 1 .. Len(toHost) : toHost'[i] = toHost[i]
        /\ toHost'[Len(toHost) + 1] = w
    BY <2>1, <2>2, Appending, FlowTypes
  <2>4. /\ \A i \in 1 .. Len(toHost') :
               i \in 1 .. Len(toHost) \/ i = Len(toHost) + 1
        /\ \A i \in 1 .. Len(toHost) : i \in 1 .. Len(toHost')
        /\ Len(toHost) + 1 \in 1 .. Len(toHost')
    BY <2>3
  <2>5. /\ \A i \in 1 .. Len(events) : events[i].uid < w.uid
        /\ \A i \in 1 .. Len(toHost) : toHost[i].uid < w.uid
        /\ \A u \in taken : u < w.uid
        /\ Hand => rxFrame.uid < w.uid
        /\ pt.completed => pt.response.uid < w.uid
        /\ \A u \in unsolicited : u < w.uid
    BY <1>2, <2>1, FlowTypes DEF FlowInv, QueueInv, AnswerInv
  <2>6. QueueInv'
    <3>1. \A i, j \in 1 .. Len(toHost') : i < j =>
              toHost'[i].uid < toHost'[j].uid
      BY <2>3, <2>4, <2>5 DEF FlowInv, QueueInv
    <3>2. \A i \in 1 .. Len(events), j \in 1 .. Len(toHost') :
              events[i].uid < toHost'[j].uid
      BY <2>3, <2>4, <2>5 DEF FlowInv, QueueInv
    <3>3. \A i \in 1 .. Len(toHost') :
              /\ \A u \in taken : u < toHost'[i].uid
              /\ Hand => rxFrame.uid < toHost'[i].uid
      BY <2>3, <2>4, <2>5 DEF FlowInv, QueueInv
    <3>4. /\ \A u \in taken : u =< emitted'
          /\ \A i \in 1 .. Len(events) : events[i].uid =< emitted'
          /\ \A i \in 1 .. Len(toHost') : toHost'[i].uid =< emitted'
          /\ Hand => rxFrame.uid =< emitted'
      <4>1. emitted' = w.uid /\ w.uid \in Nat
        BY <1>2, <2>1, FlowTypes
      <4>2. ASSUME NEW i \in 1 .. Len(toHost')
            PROVE  toHost'[i].uid =< w.uid
        <5>1. CASE i \in 1 .. Len(toHost)
          <6>1. /\ toHost'[i].uid = toHost[i].uid
                /\ toHost[i].uid \in Nat /\ toHost[i].uid < w.uid
            BY <2>3, <2>5, <5>1, FlowTypes
          <6> QED BY <4>1, <6>1
        <5>2. CASE i = Len(toHost) + 1
          <6>1. toHost'[i].uid = w.uid
            BY <2>3, <5>2
          <6> QED BY <4>1, <6>1
        <5> QED BY <2>4, <5>1, <5>2
      <4>3. \A i \in 1 .. Len(toHost') : toHost'[i].uid =< w.uid
        BY <4>2
      <4>4. /\ \A u \in taken : u =< w.uid
            /\ \A i \in 1 .. Len(events) : events[i].uid =< w.uid
            /\ Hand => rxFrame.uid =< w.uid
        BY <2>5, <4>1, FlowTypes
      <4> QED BY <4>1, <4>3, <4>4
    <3> QED BY <1>1, <3>1, <3>2, <3>3, <3>4 DEF FlowInv, QueueInv
  <2>7. AnswerInv'
    <3>1. pt.completed => pt.response.uid # w.uid
      BY <1>2, <2>1, <2>5, FlowTypes
    <3>2. pt.completed =>
              \A i \in 1 .. Len(toHost') : toHost'[i].uid # pt.response.uid
      BY <2>3, <2>4, <3>1 DEF FlowInv, AnswerInv
    <3>3. pt.completed => pt.response.uid =< emitted'
      BY <1>2, <2>1, <2>5, FlowTypes
    <3> QED BY <1>1, <3>2, <3>3 DEF FlowInv, AnswerInv
  <2>8. MarkInv'
    <3>1. \A i \in 1 .. Len(toHost') :
              toHost'[i].uid \in unsolicited' =>
                  toHost'[i].frame \in Unsolicited
      <4>1. w.uid \in unsolicited' => w.frame \in Unsolicited
        BY <1>2, <2>1, <2>5, FlowTypes
      <4>2. \A i \in 1 .. Len(toHost) :
                toHost[i].uid \in unsolicited' => toHost[i].uid \in unsolicited
        BY <1>2, <2>1, <2>5, FlowTypes
      <4> QED BY <2>3, <2>4, <4>1, <4>2 DEF FlowInv, MarkInv
    <3>2. /\ Hand /\ rxFrame.uid \in unsolicited' =>
                 rxFrame.uid \in unsolicited
          /\ \A u \in unsolicited' : u =< emitted'
      BY <1>2, <2>1, <2>5, FlowTypes
    <3>3. rxPc = "deliver" => Hand
      BY DEF Hand
    <3> QED
      BY <1>1, <3>1, <3>2, <3>3 DEF FlowInv, MarkInv, UnsolicitedDistinct
  <2>9. KeptInv'
    BY <1>1, <2>1, <2>3, <2>4 DEF FlowInv, KeptInv, UnsolicitedDistinct
  <2> QED BY <2>6, <2>7, <2>8, <2>9 DEF FlowInv
<1> QED BY <1>3, <1>4


\* The gripper answers or reports: a frame arrives.
LEMMA DeviceStep ==
    ASSUME TypeOK, FlowInv, DeviceServe \/ DeviceEvent
    PROVE  FlowInv'
<1>1. CASE DeviceServe
  <2> DEFINE f == Head(toDev).frame
             served == IF f.rw = kWrite
                         THEN [regs EXCEPT ![Address(f)] = f.value]
                         ELSE regs
             answer == [f EXCEPT !.value = served[Address(f)]]
  <2>1. f \in Frame /\ Head(toDev).tag \in Nat
    BY <1>1, QueueType DEF DeviceServe, TypeOK
  <2>2. Address(f) \in Addresses /\ f.value \in Values
    BY <2>1, DataTypes
  <2>3. served \in [Addresses -> Values]
    BY <2>2 DEF TypeOK
  <2>4. answer \in Frame
    <3>1. served[Address(f)] \in Values
      BY <2>2, <2>3
    <3> HIDE DEF served
    <3> QED BY <2>1, <3>1 DEF Frame
  <2>5. /\ Arrive(answer, Head(toDev).tag)
        /\ emitted' = emitted + 1
        /\ UNCHANGED <<callerPc, rxVars, ptVars, events, taken, overflow>>
        /\ unsolicited' = unsolicited
    BY <1>1 DEF DeviceServe, callerVars, eventHist
  <2> HIDE DEF answer
  <2> QED BY <2>1, <2>4, <2>5, ArriveStep
<1>2. CASE DeviceEvent
  <2>1. PICK u \in Unsolicited : Arrive(u, 0)
    BY <1>2 DEF DeviceEvent
  <2>2. u \in Frame
    BY DataTypes
  <2>3. /\ emitted' = emitted + 1
        /\ UNCHANGED <<callerPc, rxVars, ptVars, events, taken, overflow>>
        /\ \/ unsolicited' = unsolicited
           \/ /\ unsolicited' = unsolicited \cup {emitted + 1}
              /\ open /\ callerPc # "drain"
    BY <1>2 DEF DeviceEvent, callerVars
  <2> QED BY <2>1, <2>2, <2>3, ArriveStep
<1> QED BY <1>1, <1>2

\* The invariant holds in every state.
LEMMA FlowHolds == Spec => []FlowInv
<1>1. Init => FlowInv
  <2>1. Init => 1 .. Len(events) = {} /\ 1 .. Len(toHost) = {}
    BY DEF Init
  <2> QED
    BY <2>1 DEF Init, FlowInv, QueueInv, AnswerInv, MarkInv, KeptInv, Hand
<1>2. TypeOK /\ FlowInv /\ [Next]_vars => FlowInv'
  <2> SUFFICES ASSUME TypeOK, FlowInv, [Next]_vars PROVE FlowInv'
    OBVIOUS
  <2>1. CASE ReadRegister \/ SendWriteImmediate
    BY <2>1, TransactStep, StillSteps DEF ReadRegister, SendWriteImmediate
  <2>2. CASE InCall \/ UNCHANGED vars
    BY <2>2, StillSteps
  <2>3. CASE Events
    BY <2>3, PopStep, StillSteps DEF Events
  <2>4. CASE Session
    BY <2>4, ConnectStep, DrainStep, StartStep, FinishStep, StillSteps
       DEF Session
  <2>5. CASE Rx
    BY <2>5, ReceiveStep, MatchStep, DeliverStep, EnqueueStep, StillSteps
       DEF Rx
  <2>6. CASE Bus
    BY <2>6, DeviceStep, StillSteps DEF Bus
  <2> QED
    BY <2>1, <2>2, <2>3, <2>4, <2>5, <2>6 DEF Next
<1> QED
  BY <1>1, <1>2, TypeCorrect, PTL DEF Spec

-----------------------------------------------------------------------------
(* Results                                                                 *)

\* Which number stands where in the event queue, the hand and the buffer.
LEMMA PipelineIs ==
    ASSUME TypeOK
    PROVE  /\ Len(InHand) = IF Hand THEN 1 ELSE 0
           /\ DOMAIN Pipeline = 1 .. (Len(events) + Len(InHand) + Len(toHost))
           /\ \A i \in DOMAIN Pipeline : Pipeline[i] =
                  IF i =< Len(events) THEN events[i]
                  ELSE IF i =< Len(events) + Len(InHand) THEN rxFrame
                  ELSE toHost[i - Len(events) - Len(InHand)]
<1>1. /\ events \in Seq(Wire) /\ toHost \in Seq(Wire)
      /\ InHand \in Seq(Wire)
      /\ Len(InHand) = IF Hand THEN 1 ELSE 0
      /\ Hand => InHand[1] = rxFrame
  BY FlowTypes DEF InHand, Hand
<1> DEFINE front == events \o InHand
<1>2. front = events \o InHand /\ Pipeline = front \o toHost
  BY DEF Pipeline
<1> HIDE DEF front
<1>3. front \in Seq(Wire) /\ Joined(front, events, InHand)
  BY Zenon, <1>1, <1>2, Joining
<1>4. Pipeline \in Seq(Wire) /\ Joined(Pipeline, front, toHost)
  BY Zenon, <1>1, <1>2, <1>3, Joining
<1>5. DOMAIN Pipeline = 1 .. Len(Pipeline)
  BY <1>4, LenProperties
<1>6. Len(events) \in Nat /\ Len(InHand) \in Nat /\ Len(toHost) \in Nat
  BY <1>1, LenProperties
<1> QED BY <1>1, <1>3, <1>4, <1>5, <1>6 DEF Joined


\* The application gets frames in the order in which they arrived, for every
\* length of the queue and however many overflow it: what receive_event()
\* returns next is younger than all it returned in this session.
THEOREM EventsInOrder == Spec => []ArrivalOrder
<1>1. TypeOK /\ FlowInv => ArrivalOrder
  <2> SUFFICES ASSUME TypeOK, FlowInv PROVE ArrivalOrder
    OBVIOUS
  <2> DEFINE E == Len(events)
             H == Len(InHand)
  <2>1. /\ E \in Nat /\ Len(toHost) \in Nat /\ H \in {0, 1}
        /\ H = 1 <=> Hand
        /\ DOMAIN Pipeline = 1 .. (E + H + Len(toHost))
    <3>1. H = IF Hand THEN 1 ELSE 0
      BY PipelineIs
    <3>2. Hand \in BOOLEAN
      BY DEF Hand
    <3>3. DOMAIN Pipeline = 1 .. (E + H + Len(toHost))
      BY PipelineIs
    <3> QED BY <3>1, <3>2, <3>3, FlowTypes
  <2> HIDE DEF E, H
  <2>2. ASSUME NEW i \in DOMAIN Pipeline
        PROVE  \/ i \in 1 .. E /\ Pipeline[i] = events[i]
               \/ i = E + 1 /\ H = 1 /\ Hand /\ Pipeline[i] = rxFrame
               \/ /\ i - E - H \in 1 .. Len(toHost)
                  /\ Pipeline[i] = toHost[i - E - H]
    <3>1. i \in 1 .. E \/ (i = E + 1 /\ H = 1)
          \/ i - E - H \in 1 .. Len(toHost)
      BY <2>1
    <3> QED BY <2>1, <3>1, PipelineIs DEF E, H
  <2>3. ASSUME NEW i \in DOMAIN Pipeline, NEW j \in DOMAIN Pipeline, i < j
        PROVE  Pipeline[i].uid < Pipeline[j].uid
    <3>1. CASE i \in 1 .. E /\ Pipeline[i] = events[i]
      BY <2>1, <2>2, <2>3, <3>1 DEF FlowInv, QueueInv, E
    <3>2. CASE i = E + 1 /\ H = 1 /\ Hand /\ Pipeline[i] = rxFrame
      BY <2>1, <2>2, <2>3, <3>2 DEF FlowInv, QueueInv
    <3>3. CASE /\ i - E - H \in 1 .. Len(toHost)
               /\ Pipeline[i] = toHost[i - E - H]
      <4>1. /\ j - E - H \in 1 .. Len(toHost)
            /\ Pipeline[j] = toHost[j - E - H]
            /\ i - E - H < j - E - H
        BY <2>1, <2>2, <2>3, <3>3
      <4> QED BY <3>3, <4>1 DEF FlowInv, QueueInv
    <3> QED BY <2>2, <3>1, <3>2, <3>3
  <2>4. \A u \in taken, i \in DOMAIN Pipeline : u < Pipeline[i].uid
    BY <2>2 DEF FlowInv, QueueInv, E
  <2> QED BY <2>3, <2>4 DEF ArrivalOrder, Uids
<1> QED
  BY <1>1, TypeCorrect, FlowHolds, PTL

\* No frame of the gripper's own is lost between the bus and the application
\* unless the queue overflows: no request takes one for its answer, no wait
\* swallows one, and connecting drains only what came before.
THEOREM EventsAreKept == Spec => []NoEventLost
<1>1. TypeOK /\ FlowInv => NoEventLost
  <2> SUFFICES ASSUME TypeOK, FlowInv, UnsolicitedDistinct, ~ overflow,
                      NEW u \in unsolicited, u \notin taken
               PROVE  \E i \in DOMAIN Pipeline : Pipeline[i].uid = u
    BY DEF NoEventLost, Uids
  <2>0. Len(events) \in Nat /\ Len(toHost) \in Nat
    BY FlowTypes
  <2>1. CASE \E i \in 1 .. Len(events) : events[i].uid = u
    BY <2>0, <2>1, PipelineIs
  <2>2. CASE Hand /\ rxFrame.uid = u
    <3>1. /\ Len(events) + 1 \in DOMAIN Pipeline
          /\ Pipeline[Len(events) + 1] = rxFrame
      <4>1. Len(InHand) = 1
        BY <2>2, PipelineIs
      <4>2. Len(events) + 1 \in DOMAIN Pipeline
        BY <2>0, <4>1, PipelineIs
      <4> QED BY <2>0, <4>1, <4>2, PipelineIs
    <3> QED BY <2>2, <3>1
  <2>3. CASE \E i \in 1 .. Len(toHost) : toHost[i].uid = u
    <3>1. PICK i \in 1 .. Len(toHost) : toHost[i].uid = u
      BY <2>3
    <3>2. /\ i + Len(events) + Len(InHand) \in DOMAIN Pipeline
          /\ Pipeline[i + Len(events) + Len(InHand)] = toHost[i]
      BY <2>0, PipelineIs
    <3> QED BY <3>1, <3>2
  <2> QED
    BY <2>1, <2>2, <2>3 DEF FlowInv, KeptInv
<1> QED
  BY <1>1, TypeCorrect, FlowHolds, PTL

\* A frame that transact() returned, or may still return, is never returned
\* by receive_event() too, whichever of the two threads comes first.
THEOREM AnswersAreNoEvents == Spec => []AnswerIsNoEvent
<1>1. TypeOK /\ FlowInv => AnswerIsNoEvent
  <2> SUFFICES ASSUME TypeOK, FlowInv PROVE AnswerIsNoEvent
    OBVIOUS
  <2>1. DOMAIN events = 1 .. Len(events)
    BY FlowTypes, LenProperties
  <2> QED
    BY <2>1 DEF FlowInv, AnswerInv, AnswerIsNoEvent, Uids
<1> QED
  BY <1>1, TypeCorrect, FlowHolds, PTL


-----------------------------------------------------------------------------
(* Whose answer transact() returns                                         *)

\* A frame that was sent for a transact() and not posted, or answers one.
Asked(w) == w.tag # 0 /\ (WaitWriteEcho \/ w.frame.rw = kRead)

\* transact() is waiting, without an answer yet, for the one w was sent for.
Awaited(w) == callerPc = "wait" /\ ~ pt.completed /\ w.tag = pt.no

\* What is sent carries the number of its call, what does not is unsolicited;
\* only frames transact() sends are ever compared with those that arrive.
TagInv ==
    /\ callerPc \in InTransact => pending
    /\ pending => /\ pt.expected \in Requests /\ pt.no # 0
                  /\ WaitWriteEcho \/ pt.expected.rw = kRead
    /\ \A i \in 1 .. Len(toDev) : toDev[i].tag # 0
    /\ \A i \in 1 .. Len(toHost) :
           toHost[i].tag = 0 => toHost[i].frame \in Unsolicited
    /\ Hand /\ rxFrame.tag = 0 => rxFrame.frame \in Unsolicited

\* While no wait has timed out there is at most one frame that was asked for,
\* on the bus, in the buffer or in hand, and then transact() waits for it.
OneAsked ==
    /\ \A i \in 1 .. Len(toDev) : Asked(toDev[i]) => Awaited(toDev[i])
    /\ \A i \in 1 .. Len(toHost) : Asked(toHost[i]) => Awaited(toHost[i])
    /\ Hand /\ Asked(rxFrame) =>
           /\ Awaited(rxFrame)
           /\ \A i \in 1 .. Len(toDev) : ~ Asked(toDev[i])
           /\ \A i \in 1 .. Len(toHost) : ~ Asked(toHost[i])
    /\ \A i, j \in 1 .. Len(toDev) :
           Asked(toDev[i]) /\ Asked(toDev[j]) => i = j
    /\ \A i, j \in 1 .. Len(toHost) :
           Asked(toHost[i]) /\ Asked(toHost[j]) => i = j
    /\ \A i \in 1 .. Len(toDev), j \in 1 .. Len(toHost) :
           ~ (Asked(toDev[i]) /\ Asked(toHost[j]))

Answered ==
    /\ rxPc = "deliver" => Asked(rxFrame)
    /\ callerPc # "timedout" /\ (callerPc = "send" => ~ pt.completed)
    /\ callerPc = "finish" \/ (callerPc = "wait" /\ pt.completed)
           => pt.response.tag = pt.no

OwnInv == TagInv /\ (~ late /\ UnsolicitedDistinct => OneAsked /\ Answered)

\* Steps that move no frame, of a call that does not begin or wait.
LEMMA OwnStill ==
    ASSUME OwnInv,
           UNCHANGED <<toDev, toHost, rxFrame, pt>>,
           pending' = pending \/ (~ pending' /\ callerPc' \notin InTransact),
           late' = late \/ late',
           rxPc' = rxPc \/ (~ Hand' /\ rxPc' # "deliver"),
           \/ callerPc' = callerPc
           \/ callerPc' \notin InTransact
              /\ (callerPc # "wait" \/ late' \/ pt.completed)
           \/ callerPc' = "finish" /\ callerPc = "wait" /\ pt.completed
           \/ callerPc' \in {"send", "timedout"} /\ callerPc \in InTransact
              /\ late'
    PROVE  OwnInv'
<1>1. TagInv'
  BY DEF OwnInv, TagInv, Hand, InTransact
<1>2. ASSUME ~ late', UnsolicitedDistinct
      PROVE  OneAsked' /\ Answered'
  <2>1. ~ late /\ OneAsked /\ Answered
    BY <1>2 DEF OwnInv
  <2>2. OneAsked'
    BY <1>2, <2>1 DEF OneAsked, Asked, Awaited, Hand, InTransact
  <2>3. Answered'
    BY <1>2, <2>1 DEF Answered, Asked, InTransact, Hand
  <2> QED BY <2>2, <2>3
<1> QED BY <1>1, <1>2 DEF OwnInv, UnsolicitedDistinct

\* Such are most steps of the application and of the receive thread.
LEMMA OwnStillSteps ==
    ASSUME TypeOK, OwnInv,
           \/ \E f \in Requests : Refused(f) \/ PostFault(f)
           \/ SendFault \/ WaitReturn \/ Finish \/ WaitTimeout
           \/ Events \/ ConnectOpen \/ DrainFault \/ DisconnectStop
           \/ StartThread \/ RxCheck \/ RxTimeout \/ RxFault \/ RxEnqueue
           \/ UNCHANGED vars
    PROVE  OwnInv'
<1>1. CASE \/ \E f \in Requests : Refused(f) \/ PostFault(f)
           \/ Events \/ ConnectOpen \/ DrainFault \/ DisconnectStop
           \/ UNCHANGED vars
  <2>1. /\ UNCHANGED <<toDev, toHost, rxFrame, pt, pending, late, rxPc>>
        /\ \/ callerPc' = callerPc
           \/ callerPc' \notin InTransact /\ callerPc # "wait"
    BY <1>1 DEF Refused, PostFault, Events, TakeEvent, WaitForEvent,
            WakeWithEvent, WakeWithout, PopEvent, ConnectOpen, DrainFault,
            DisconnectStop, vars, callerVars, rxVars, ptVars, busVars,
            callHist, eventHist, hist, InTransact
  <2> QED BY <2>1, OwnStill
<1>2. CASE SendFault \/ WaitReturn \/ Finish \/ WaitTimeout
  <2>1. /\ UNCHANGED <<toDev, toHost, rxFrame, pt, rxPc>>
        /\ pending' = pending \/ (~ pending' /\ callerPc' \notin InTransact)
        /\ late' = late \/ late'
    BY <1>2 DEF SendFault, WaitReturn, Finish, WaitTimeout, rxVars, ptVars,
            busVars, callHist, hist, InTransact
  <2>2. \/ callerPc' \notin InTransact /\ callerPc # "wait"
        \/ callerPc' = "finish" /\ callerPc = "wait" /\ pt.completed
        \/ callerPc' = "timedout" /\ callerPc \in InTransact /\ late'
    BY <1>2 DEF SendFault, WaitReturn, Finish, WaitTimeout, InTransact
  <2> QED BY <2>1, <2>2, OwnStill
<1>3. CASE StartThread \/ RxCheck \/ RxTimeout \/ RxFault \/ RxEnqueue
  <2>1. /\ UNCHANGED <<toDev, toHost, rxFrame, pt, pending, late>>
        /\ ~ Hand' /\ rxPc' # "deliver"
        /\ \/ callerPc' = callerPc
           \/ callerPc' \notin InTransact /\ callerPc # "wait"
    BY <1>3 DEF StartThread, RxCheck, RxTimeout, RxFault, AfterError,
            RxEnqueue, Hand, callerVars, rxVars, ptVars, busVars, callHist,
            eventHist, hist, InTransact
  <2> QED BY <2>1, OwnStill
<1> QED BY <1>1, <1>2, <1>3


\* A transact() that timed out has seen to it that late is set.
LEMMA OwnLateStep ==
    ASSUME TypeOK, OwnInv, Retry \/ GiveUp
    PROVE  OwnInv'
<1>1. /\ UNCHANGED <<toDev, toHost, rxFrame, pt, rxPc, late>>
      /\ pending' = pending \/ (~ pending' /\ callerPc' \notin InTransact)
      /\ callerPc = "timedout"
  BY DEF Retry, GiveUp, rxVars, ptVars, busVars, callHist, hist, InTransact
<1>2. TagInv'
  BY <1>1 DEF OwnInv, TagInv, Hand, InTransact
<1>3. ~ (~ late' /\ UnsolicitedDistinct)
  BY <1>1 DEF OwnInv, Answered
<1> QED BY <1>2, <1>3 DEF OwnInv, UnsolicitedDistinct

\* A call that begins finds no frame that an earlier one asked for.
LEMMA OwnCallStep ==
    ASSUME TypeOK, OwnInv, NEW f \in Requests, Transact(f),
           WaitWriteEcho \/ f.rw = kRead
    PROVE  OwnInv'
<1>1. /\ UNCHANGED <<toDev, toHost, rxFrame, rxPc, late>>
      /\ callerPc = "idle" /\ callerPc' = "send" /\ pending'
      /\ pt'.expected = f /\ pt'.no = calls + 1 /\ ~ pt'.completed
      /\ calls \in Nat
  BY DEF Transact, rxVars, busVars, TypeOK
<1>2. TagInv'
  BY <1>1 DEF OwnInv, TagInv, Hand
<1>3. ASSUME ~ late', UnsolicitedDistinct
      PROVE  OneAsked' /\ Answered'
  BY <1>1, <1>3 DEF OwnInv, OneAsked, Answered, Asked, Awaited, Hand
<1> QED BY <1>2, <1>3 DEF OwnInv, UnsolicitedDistinct

\* transact() sends its frame, the only one that is asked for; a frame that
\* is posted is not asked for.
LEMMA OwnSendStep ==
    ASSUME TypeOK, OwnInv,
           \/ Send
           \/ \E f \in Requests : ~ WaitWriteEcho /\ f.rw = kWrite /\ Post(f)
    PROVE  OwnInv'
<1>1. /\ UNCHANGED <<toHost, rxFrame, rxPc, late, pt, pending>>
      /\ \E w \in Wire :
             /\ toDev' = Append(toDev, w)
             /\ \/ /\ callerPc = "send" /\ callerPc' = "wait"
                   /\ w.tag = pt.no /\ w.frame = pt.expected
                \/ /\ callerPc = "idle" /\ callerPc' = callerPc
                   /\ w.tag # 0 /\ ~ Asked(w)
  <2>1. CASE Send
    <3> DEFINE w == [frame |-> pt.expected, tag |-> pt.no, uid |-> 0]
    <3>1. w \in Wire
      BY PtTypes DEF Wire, TypeOK, Transaction
    <3> QED BY <2>1, <3>1 DEF Send, rxVars, ptVars, eventHist
  <2>2. CASE \E f \in Requests : ~ WaitWriteEcho /\ f.rw = kWrite /\ Post(f)
    <3>0. PICK f \in Requests : ~ WaitWriteEcho /\ f.rw = kWrite /\ Post(f)
      BY <2>2
    <3> DEFINE w == [frame |-> f, tag |-> calls + 1, uid |-> 0]
    <3>1. calls \in Nat /\ f \in Frame
      BY DataTypes DEF TypeOK
    <3>2. w \in Wire /\ w.tag # 0 /\ ~ Asked(w)
      BY <3>0, <3>1 DEF Wire, Asked, kRead, kWrite
    <3>3. /\ toDev' = Append(toDev, w)
          /\ callerPc = "idle" /\ callerPc' = callerPc
          /\ UNCHANGED <<toHost, rxFrame, rxPc, late, pt, pending>>
      BY <3>0 DEF Post, rxVars, ptVars
    <3> HIDE DEF w
    <3> QED BY <3>2, <3>3
  <2> QED BY <2>1, <2>2
<1>2. PICK w \in Wire :
          /\ toDev' = Append(toDev, w)
          /\ \/ /\ callerPc = "send" /\ callerPc' = "wait"
                /\ w.tag = pt.no /\ w.frame = pt.expected
             \/ /\ callerPc = "idle" /\ callerPc' = callerPc
                /\ w.tag # 0 /\ ~ Asked(w)
  BY <1>1
<1>3. /\ Len(toDev) \in Nat /\ Len(toDev') = Len(toDev) + 1
      /\ \A i \in 1 .. Len(toDev) : toDev'[i] = toDev[i]
      /\ toDev'[Len(toDev) + 1] = w
  BY <1>2, Appending DEF TypeOK
<1>4. /\ \A i \in 1 .. Len(toDev') :
             i \in 1 .. Len(toDev) \/ i = Len(toDev) + 1
      /\ \A i \in 1 .. Len(toDev) : i \in 1 .. Len(toDev')
      /\ Len(toDev) + 1 \in 1 .. Len(toDev')
  BY <1>3
<1>5. TagInv'
  BY <1>1, <1>2, <1>3, <1>4 DEF OwnInv, TagInv, Hand, InTransact
<1>6. ASSUME ~ late', UnsolicitedDistinct
      PROVE  OneAsked' /\ Answered'
  <2>1. OneAsked /\ Answered
    BY <1>1, <1>6 DEF OwnInv
  <2>2. /\ \A i \in 1 .. Len(toDev) : ~ Asked(toDev[i])
        /\ \A i \in 1 .. Len(toHost) : ~ Asked(toHost[i])
        /\ Hand => ~ Asked(rxFrame)
    BY <1>2, <2>1 DEF OneAsked, Awaited
  <2>3. callerPc = "send" => ~ pt.completed
    BY <2>1 DEF Answered
  <2>4. \A i \in 1 .. Len(toDev') : Asked(toDev'[i]) =>
            /\ i = Len(toDev) + 1 /\ callerPc' = "wait"
            /\ toDev'[i].tag = pt.no /\ ~ pt.completed
    BY <1>2, <1>3, <1>4, <2>2, <2>3
  <2>5. OneAsked'
    BY <1>1, <2>2, <2>4 DEF OneAsked, Awaited, Hand, Asked
  <2>6. Answered'
    BY <1>1, <1>2, <2>1, <2>3 DEF Answered, Asked
  <2> QED BY <2>5, <2>6
<1> QED BY <1>5, <1>6 DEF OwnInv, UnsolicitedDistinct

\* disconnect() empties the buffer and has joined the thread.
LEMMA OwnFinishStep ==
    ASSUME TypeOK, OwnInv, DisconnectFinish
    PROVE  OwnInv'
<1>1. /\ UNCHANGED <<toDev, rxFrame, pt, late>>
      /\ toHost' = <<>> /\ rxPc' = "none" /\ ~ pending'
      /\ callerPc = "join" /\ callerPc' = "idle"
  BY DEF DisconnectFinish, callHist
<1>2. ~ Hand' /\ 1 .. Len(toHost') = {}
  BY <1>1 DEF Hand
<1>3. TagInv'
  BY <1>1, <1>2 DEF OwnInv, TagInv, InTransact
<1>4. ASSUME ~ late', UnsolicitedDistinct
      PROVE  OneAsked' /\ Answered'
  BY <1>1, <1>2, <1>4 DEF OwnInv, OneAsked, Answered, Asked, Awaited
<1> QED BY <1>3, <1>4 DEF OwnInv, UnsolicitedDistinct


\* What leaves the bus or the buffer is one frame less that was asked for.
LEMMA OwnDropStep ==
    ASSUME TypeOK, OwnInv, DrainFrame \/ LoseCommand \/ LoseAnswer
    PROVE  OwnInv'
<1>1. /\ UNCHANGED <<rxFrame, rxPc, pt, pending, late, callerPc>>
      /\ \/ toHost # <<>> /\ toHost' = Tail(toHost) /\ toDev' = toDev
         \/ toDev # <<>> /\ toDev' = Tail(toDev) /\ toHost' = toHost
  BY DEF DrainFrame, LoseCommand, LoseAnswer, callerVars, rxVars, ptVars,
         callHist, hist
<1>2. CASE toHost # <<>> /\ toHost' = Tail(toHost) /\ toDev' = toDev
  <2>1. /\ Len(toHost') = Len(toHost) - 1 /\ Len(toHost) \in Nat
        /\ \A i \in 1 .. Len(toHost') : toHost'[i] = toHost[i + 1]
    BY <1>2, Taking DEF TypeOK
  <2>2. \A i \in 1 .. Len(toHost') : i + 1 \in 1 .. Len(toHost)
    BY <2>1
  <2>3. TagInv'
    BY <1>1, <1>2, <2>1, <2>2 DEF OwnInv, TagInv, Hand
  <2>4. ASSUME ~ late', UnsolicitedDistinct
        PROVE  OneAsked' /\ Answered'
    <3>1. OneAsked /\ Answered
      BY <1>1, <2>4 DEF OwnInv
    <3>2. \A i, j \in 1 .. Len(toHost') :
              Asked(toHost'[i]) /\ Asked(toHost'[j]) => i = j
      <4>1. \A i, j \in 1 .. Len(toHost') : i + 1 = j + 1 => i = j
        BY <2>1
      <4> QED BY <2>1, <2>2, <3>1, <4>1 DEF OneAsked
    <3>3. \A i \in 1 .. Len(toHost') :
              \E k \in 1 .. Len(toHost) : toHost'[i] = toHost[k]
      BY <2>1, <2>2
    <3>4. OneAsked'
      BY <1>1, <1>2, <3>1, <3>2, <3>3 DEF OneAsked, Awaited, Hand, Asked
    <3>5. Answered'
      BY <1>1, <3>1 DEF Answered, Asked
    <3> QED BY <3>4, <3>5
  <2> QED BY <2>3, <2>4 DEF OwnInv, UnsolicitedDistinct
<1>3. CASE toDev # <<>> /\ toDev' = Tail(toDev) /\ toHost' = toHost
  <2>1. /\ Len(toDev') = Len(toDev) - 1 /\ Len(toDev) \in Nat
        /\ \A i \in 1 .. Len(toDev') : toDev'[i] = toDev[i + 1]
    BY <1>3, Taking DEF TypeOK
  <2>2. \A i \in 1 .. Len(toDev') : i + 1 \in 1 .. Len(toDev)
    BY <2>1
  <2>3. TagInv'
    BY <1>1, <1>3, <2>1, <2>2 DEF OwnInv, TagInv, Hand
  <2>4. ASSUME ~ late', UnsolicitedDistinct
        PROVE  OneAsked' /\ Answered'
    <3>1. OneAsked /\ Answered
      BY <1>1, <2>4 DEF OwnInv
    <3>2. \A i, j \in 1 .. Len(toDev') :
              Asked(toDev'[i]) /\ Asked(toDev'[j]) => i = j
      <4>1. \A i, j \in 1 .. Len(toDev') : i + 1 = j + 1 => i = j
        BY <2>1
      <4> QED BY <2>1, <2>2, <3>1, <4>1 DEF OneAsked
    <3>3. \A i \in 1 .. Len(toDev') :
              \E k \in 1 .. Len(toDev) : toDev'[i] = toDev[k]
      BY <2>1, <2>2
    <3>4. OneAsked'
      BY <1>1, <1>3, <3>1, <3>2, <3>3 DEF OneAsked, Awaited, Hand, Asked
    <3>5. Answered'
      BY <1>1, <3>1 DEF Answered, Asked
    <3> QED BY <3>4, <3>5
  <2> QED BY <2>3, <2>4 DEF OwnInv, UnsolicitedDistinct
<1> QED BY <1>1, <1>2, <1>3

\* The receive thread takes the next frame out of the buffer.
LEMMA OwnReceiveStep ==
    ASSUME TypeOK, OwnInv, RxReceive
    PROVE  OwnInv'
<1>1. /\ UNCHANGED <<toDev, pt, pending, late, callerPc>>
      /\ toHost # <<>> /\ toHost' = Tail(toHost)
      /\ rxFrame' = Head(toHost) /\ rxPc = "receive" /\ rxPc' = "match"
  BY DEF RxReceive, callerVars, ptVars, callHist, hist
<1>2. ~ Hand /\ Hand'
  BY <1>1 DEF Hand
<1>3. /\ Len(toHost') = Len(toHost) - 1 /\ Len(toHost) \in Nat
      /\ \A i \in 1 .. Len(toHost') : toHost'[i] = toHost[i + 1]
      /\ 1 \in 1 .. Len(toHost) /\ rxFrame' = toHost[1]
  BY <1>1, Taking DEF TypeOK
<1>4. \A i \in 1 .. Len(toHost') : i + 1 \in 1 .. Len(toHost) /\ i + 1 # 1
  BY <1>3
<1>5. TagInv'
  BY <1>1, <1>2, <1>3, <1>4 DEF OwnInv, TagInv
<1>6. ASSUME ~ late', UnsolicitedDistinct
      PROVE  OneAsked' /\ Answered'
  <2>1. OneAsked /\ Answered
    BY <1>1, <1>6 DEF OwnInv
  <2>2. \A i, j \in 1 .. Len(toHost') :
            Asked(toHost'[i]) /\ Asked(toHost'[j]) => i = j
    <3>1. \A i, j \in 1 .. Len(toHost') : i + 1 = j + 1 => i = j
      BY <1>3
    <3> QED BY <1>3, <1>4, <2>1, <3>1 DEF OneAsked
  <2>3. Asked(rxFrame') =>
            /\ Awaited(rxFrame')
            /\ \A i \in 1 .. Len(toDev) : ~ Asked(toDev[i])
            /\ \A i \in 1 .. Len(toHost') : ~ Asked(toHost'[i])
    BY <1>3, <1>4, <2>1 DEF OneAsked
  <2>4. OneAsked'
    BY <1>1, <1>3, <1>4, <2>1, <2>2, <2>3 DEF OneAsked, Awaited, Asked
  <2>5. Answered'
    BY <1>1, <2>1 DEF Answered, Asked
  <2> QED BY <2>4, <2>5
<1> QED BY <1>5, <1>6 DEF OwnInv, UnsolicitedDistinct

\* What matches is neither unsolicited nor the echo of a posted write.
LEMMA OwnMatchStep ==
    ASSUME TypeOK, OwnInv, RxMatch
    PROVE  OwnInv'
<1>1. /\ UNCHANGED <<toDev, toHost, rxFrame, pt, pending, late, callerPc>>
      /\ rxPc = "match" /\ rxPc' \in {"deliver", "enqueue"}
      /\ rxPc' = "deliver" =>
             pending /\ FrameMatches(pt.expected, rxFrame.frame)
  BY DEF RxMatch, callerVars, ptVars, busVars, callHist, hist
<1>2. Hand /\ Hand'
  BY <1>1 DEF Hand
<1>3. TagInv'
  BY <1>1, <1>2 DEF OwnInv, TagInv
<1>4. ASSUME ~ late', UnsolicitedDistinct
      PROVE  OneAsked' /\ Answered'
  <2>1. OneAsked /\ Answered
    BY <1>1, <1>4 DEF OwnInv
  <2>2. OneAsked'
    BY <1>1, <1>2, <2>1 DEF OneAsked, Awaited, Asked
  <2>3. rxPc' = "deliver" => Asked(rxFrame)
    <3>1. SUFFICES ASSUME rxPc' = "deliver" PROVE Asked(rxFrame)
      OBVIOUS
    <3>2. /\ pt.expected \in Requests
          /\ FrameMatches(pt.expected, rxFrame.frame)
          /\ WaitWriteEcho \/ pt.expected.rw = kRead
      BY <1>1, <3>1 DEF OwnInv, TagInv
    <3>3. rxFrame.tag # 0
      BY <1>2, <1>4, <3>2 DEF OwnInv, TagInv, UnsolicitedDistinct
    <3> QED BY <3>2, <3>3 DEF Asked, FrameMatches
  <2>4. Answered'
    BY <1>1, <2>1, <2>3 DEF Answered, Asked
  <2> QED BY <2>2, <2>4
<1> QED BY <1>3, <1>4 DEF OwnInv, UnsolicitedDistinct

\* What is delivered is the frame that was asked for.
LEMMA OwnDeliverStep ==
    ASSUME TypeOK, OwnInv, RxDeliver
    PROVE  OwnInv'
<1>1. /\ UNCHANGED <<toDev, toHost, rxFrame, pending, late, callerPc>>
      /\ rxPc = "deliver" /\ rxPc' = "check"
      /\ pt'.expected = pt.expected /\ pt'.no = pt.no
      /\ \/ pt' = pt
         \/ pt'.completed /\ pt'.response = rxFrame
  BY DEF RxDeliver, AfterDelivery, callerVars, busVars, callHist, hist,
         TypeOK, Transaction
<1>2. Hand /\ ~ Hand'
  BY <1>1 DEF Hand
<1>3. TagInv'
  BY <1>1, <1>2 DEF OwnInv, TagInv
<1>4. ASSUME ~ late', UnsolicitedDistinct
      PROVE  OneAsked' /\ Answered'
  <2>1. OneAsked /\ Answered
    BY <1>1, <1>4 DEF OwnInv
  <2>2. /\ Awaited(rxFrame)
        /\ \A i \in 1 .. Len(toDev) : ~ Asked(toDev[i])
        /\ \A i \in 1 .. Len(toHost) : ~ Asked(toHost[i])
    BY <1>1, <1>2, <2>1 DEF OneAsked, Answered
  <2>3. OneAsked'
    BY <1>1, <1>2, <2>2 DEF OneAsked, Asked
  <2>4. Answered'
    BY <1>1, <2>1, <2>2 DEF Answered, Awaited
  <2> QED BY <2>3, <2>4
<1> QED BY <1>3, <1>4 DEF OwnInv, UnsolicitedDistinct


\* The gripper's own frame is at the end of the buffer; nobody asked for it.
LEMMA OwnEventStep ==
    ASSUME TypeOK, OwnInv, DeviceEvent
    PROVE  OwnInv'
<1>1. PICK u \in Unsolicited : Arrive(u, 0)
  BY DEF DeviceEvent
<1>2. UNCHANGED <<toDev, rxFrame, rxPc, pt, pending, late, callerPc>>
  BY DEF DeviceEvent, callerVars, rxVars, ptVars, callHist
<1>3. CASE ~ open
  <2>1. toHost' = toHost
    BY <1>1, <1>3 DEF Arrive
  <2> QED BY <1>2, <2>1, OwnStill
<1>4. CASE open
  <2> DEFINE w == [frame |-> u, tag |-> 0, uid |-> emitted + 1]
  <2>1. w \in Wire /\ w.frame \in Unsolicited /\ w.tag = 0 /\ ~ Asked(w)
    BY DataTypes DEF Wire, TypeOK, Asked
  <2>2. toHost' = Append(toHost, w)
    BY <1>1, <1>4 DEF Arrive
  <2> HIDE DEF w
  <2>3. /\ Len(toHost) \in Nat /\ Len(toHost') = Len(toHost) + 1
        /\ \A i \in 1 .. Len(toHost) : toHost'[i] = toHost[i]
        /\ toHost'[Len(toHost) + 1] = w
    BY <2>1, <2>2, Appending DEF TypeOK
  <2>4. \A i \in 1 .. Len(toHost') :
            \/ i \in 1 .. Len(toHost) /\ toHost'[i] = toHost[i]
            \/ toHost'[i] = w
    BY <2>3
  <2>5. TagInv'
    BY <1>2, <2>1, <2>4 DEF OwnInv, TagInv, Hand
  <2>6. ASSUME ~ late', UnsolicitedDistinct
        PROVE  OneAsked' /\ Answered'
    <3>1. OneAsked /\ Answered
      BY <1>2, <2>6 DEF OwnInv
    <3>2. \A i \in 1 .. Len(toHost') : Asked(toHost'[i]) =>
              i \in 1 .. Len(toHost) /\ toHost'[i] = toHost[i]
      BY <2>1, <2>4
    <3>3. OneAsked'
      BY <1>2, <3>1, <3>2 DEF OneAsked, Awaited, Hand, Asked
    <3>4. Answered'
      BY <1>2, <3>1 DEF Answered, Asked
    <3> QED BY <3>3, <3>4
  <2> QED BY <2>5, <2>6 DEF OwnInv, UnsolicitedDistinct
<1> QED BY <1>3, <1>4

\* The answer of the gripper takes the place of the command.
LEMMA OwnServeStep ==
    ASSUME TypeOK, OwnInv, DeviceServe
    PROVE  OwnInv'
<1> DEFINE c == Head(toDev)
           f == c.frame
           served == IF f.rw = kWrite
                       THEN [regs EXCEPT ![Address(f)] = f.value]
                       ELSE regs
           w == [frame |-> [f EXCEPT !.value = served[Address(f)]],
                 tag |-> c.tag, uid |-> emitted + 1]
<1>1. /\ UNCHANGED <<rxFrame, rxPc, pt, pending, late, callerPc>>
      /\ toDev # <<>> /\ toDev' = Tail(toDev)
      /\ toHost' = IF open THEN Append(toHost, w) ELSE toHost
  BY DEF DeviceServe, Arrive, callerVars, rxVars, ptVars, callHist
<1>2. /\ Len(toDev') = Len(toDev) - 1 /\ Len(toDev) \in Nat
      /\ \A i \in 1 .. Len(toDev') : toDev'[i] = toDev[i + 1]
      /\ 1 \in 1 .. Len(toDev) /\ c = toDev[1] /\ c \in Wire
  BY <1>1, Taking DEF TypeOK
<1>3. w \in Wire /\ w.tag = c.tag /\ (Asked(w) <=> Asked(c))
  <2>1. f \in Frame /\ c.tag \in Nat /\ emitted \in Nat
    BY <1>2 DEF Wire, TypeOK
  <2>2. Address(f) \in Addresses /\ f.value \in Values
    BY <2>1, DataTypes
  <2>3. served \in [Addresses -> Values]
    BY <2>2 DEF TypeOK
  <2>4. served[Address(f)] \in Values
    BY <2>2, <2>3
  <2>5. ASSUME NEW g \in Frame, NEW v \in Values
        PROVE  /\ [g EXCEPT !.value = v] \in Frame
               /\ [g EXCEPT !.value = v].rw = g.rw
    BY DEF Frame
  <2>6. /\ [f EXCEPT !.value = served[Address(f)]] \in Frame
        /\ [f EXCEPT !.value = served[Address(f)]].rw = f.rw
    BY <2>1, <2>4, <2>5
  <2> DEFINE a == [f EXCEPT !.value = served[Address(f)]]
  <2>7. a \in Frame /\ a.rw = f.rw /\ w = [frame |-> a, tag |-> c.tag,
                                          uid |-> emitted + 1]
    BY <2>6
  <2> HIDE DEF a, c, w, f, served
  <2>8. w.frame = a /\ w.tag = c.tag /\ w \in Wire
    BY <2>1, <2>7 DEF Wire
  <2>9. f = c.frame
    BY DEF f
  <2> QED BY <2>7, <2>8, <2>9 DEF Asked
<1> HIDE DEF w, c
<1>4. \A i \in 1 .. Len(toDev') :
          i + 1 \in 1 .. Len(toDev) /\ i + 1 # 1 /\ toDev'[i] = toDev[i + 1]
  BY <1>2
<1>5. \A i, j \in 1 .. Len(toDev') : i + 1 = j + 1 => i = j
  BY <1>2
<1>6. /\ Len(toHost) \in Nat
      /\ \A i \in 1 .. Len(toHost') :
             \/ i \in 1 .. Len(toHost) /\ toHost'[i] = toHost[i]
             \/ i = Len(toHost) + 1 /\ toHost'[i] = w
  <2>1. CASE open
    <3>1. /\ Len(toHost) \in Nat /\ Len(toHost') = Len(toHost) + 1
          /\ \A i \in 1 .. Len(toHost) : toHost'[i] = toHost[i]
          /\ toHost'[Len(toHost) + 1] = w
      BY <1>1, <1>3, <2>1, Appending DEF TypeOK
    <3> QED BY <3>1
  <2>2. CASE ~ open
    BY <1>1, <2>2 DEF TypeOK
  <2> QED BY <2>1, <2>2
<1>7. TagInv'
  BY <1>1, <1>2, <1>3, <1>4, <1>6 DEF OwnInv, TagInv, Hand
<1>8. ASSUME ~ late', UnsolicitedDistinct
      PROVE  OneAsked' /\ Answered'
  <2>1. OneAsked /\ Answered
    BY <1>1, <1>8 DEF OwnInv
  <2>2. Asked(w) => /\ Awaited(w)
                    /\ \A i \in 1 .. Len(toDev') : ~ Asked(toDev'[i])
                    /\ \A i \in 1 .. Len(toHost) : ~ Asked(toHost[i])
                    /\ Hand => ~ Asked(rxFrame)
    BY <1>2, <1>3, <1>4, <2>1 DEF OneAsked, Awaited
  <2>3. \A i, j \in 1 .. Len(toDev') :
            Asked(toDev'[i]) /\ Asked(toDev'[j]) => i = j
    BY <1>4, <1>5, <2>1 DEF OneAsked
  <2>4. \A i, j \in 1 .. Len(toHost') :
            Asked(toHost'[i]) /\ Asked(toHost'[j]) => i = j
    BY <1>6, <2>1, <2>2 DEF OneAsked
  <2>5. \A i \in 1 .. Len(toDev') : \E k \in 1 .. Len(toDev) :
            toDev'[i] = toDev[k]
    BY <1>4
  <2>6. \A i \in 1 .. Len(toHost') :
            toHost'[i] = w \/ \E k \in 1 .. Len(toHost) :
                                  toHost'[i] = toHost[k]
    BY <1>6
  <2>7. /\ \A i \in 1 .. Len(toDev') : Asked(toDev'[i]) => Awaited(toDev'[i])
        /\ \A i \in 1 .. Len(toHost') :
               Asked(toHost'[i]) => Awaited(toHost'[i])
        /\ \A i \in 1 .. Len(toDev'), j \in 1 .. Len(toHost') :
               ~ (Asked(toDev'[i]) /\ Asked(toHost'[j]))
    BY <2>1, <2>2, <2>5, <2>6 DEF OneAsked
  <2>8. Hand /\ Asked(rxFrame) =>
            /\ Awaited(rxFrame)
            /\ \A i \in 1 .. Len(toDev') : ~ Asked(toDev'[i])
            /\ \A i \in 1 .. Len(toHost') : ~ Asked(toHost'[i])
    BY <2>1, <2>2, <2>5, <2>6 DEF OneAsked
  <2>9. OneAsked'
    BY <1>1, <2>3, <2>4, <2>7, <2>8 DEF OneAsked, Awaited, Hand, Asked
  <2>10. Answered'
    BY <1>1, <2>1 DEF Answered, Asked
  <2> QED BY <2>9, <2>10
<1> QED BY <1>7, <1>8 DEF OwnInv, UnsolicitedDistinct

\* The invariant holds in every state.
LEMMA OwnHolds == Spec => []OwnInv
<1>1. Init => OwnInv
  <2>1. Init => /\ 1 .. Len(toDev) = {} /\ 1 .. Len(toHost) = {}
                /\ ~ Hand /\ callerPc \notin InTransact /\ ~ pending
                /\ ~ pt.completed
    BY DEF Init, Hand, InTransact
  <2> QED
    BY <2>1 DEF Init, OwnInv, TagInv, OneAsked, Answered, InTransact
<1>2. TypeOK /\ OwnInv /\ [Next]_vars => OwnInv'
  <2> SUFFICES ASSUME TypeOK, OwnInv, [Next]_vars PROVE OwnInv'
    OBVIOUS
  <2>1. CASE ReadRegister \/ SendWriteImmediate
    BY <2>1, OwnCallStep, OwnSendStep, OwnStillSteps
       DEF ReadRegister, SendWriteImmediate
  <2>2. CASE InCall \/ UNCHANGED vars
    BY <2>2, OwnSendStep, OwnLateStep, OwnStillSteps DEF InCall
  <2>3. CASE Events
    BY <2>3, OwnStillSteps
  <2>4. CASE Session
    BY <2>4, OwnDropStep, OwnFinishStep, OwnStillSteps DEF Session
  <2>5. CASE Rx
    BY <2>5, OwnReceiveStep, OwnMatchStep, OwnDeliverStep, OwnStillSteps
       DEF Rx
  <2>6. CASE Bus
    BY <2>6, OwnServeStep, OwnDropStep, OwnEventStep DEF Bus
  <2> QED
    BY <2>1, <2>2, <2>3, <2>4, <2>5, <2>6 DEF Next
<1> QED
  BY <1>1, <1>2, TypeCorrect, PTL DEF Spec

\* Until a wait times out transact() returns the answer to this very call,
\* with any mix of posted writes, unsolicited frames, losses and failures of
\* send() before it: a late answer is the only way to get another one's.
THEOREM AnswersAreOwn == Spec => []OwnAnswer
<1>1. OwnInv => OwnAnswer
  BY DEF OwnInv, Answered, OwnAnswer
<1> QED
  BY <1>1, OwnHolds, PTL


-----------------------------------------------------------------------------
(* What a read returns                                                     *)

\* toDev[i] is a write of the register at the address.
Writes(i, a) == toDev[i].frame.rw = kWrite /\ Address(toDev[i].frame) = a

\* What a register will hold when all that is on the bus has been served is
\* one of the values the application may expect there.
Settled ==
    \A a \in Addresses :
        /\ \A i \in 1 .. Len(toDev) :
               Writes(i, a) /\ (\A j \in 1 .. Len(toDev) :
                                    j > i => ~ Writes(j, a))
                   => toDev[i].frame.value \in written[a]
        /\ (\A i \in 1 .. Len(toDev) : ~ Writes(i, a)) => regs[a] \in written[a]

\* g answers the pending request: it has a value that may be expected; if the
\* request is a write the register holds what was to be written.
Good(g) ==
    IF pt.expected.rw = kRead
      THEN g.value \in written[Address(pt.expected)]
      ELSE regs[Address(pt.expected)] = pt.expected.value

\* The frame that is asked for is the last one on the bus, and its answer is
\* good wherever it is.
GoodInv ==
    /\ callerPc = "send" /\ pt.expected.rw = kWrite
           => pt.expected.value \in written[Address(pt.expected)]
    /\ \A i \in 1 .. Len(toDev) : Asked(toDev[i]) =>
           i = Len(toDev) /\ toDev[i].frame = pt.expected
    /\ \A i \in 1 .. Len(toHost) : Asked(toHost[i]) => Good(toHost[i].frame)
    /\ Hand /\ Asked(rxFrame) => Good(rxFrame.frame)
    /\ callerPc = "finish" \/ (callerPc = "wait" /\ pt.completed)
           => Good(pt.response.frame)

Timely == ~ late /\ UnsolicitedDistinct /\ used.losses = 0
ValueInv == Timely => Settled /\ GoodInv

\* Neither a timeout nor a loss is ever forgotten.
LEMMA Earlier ==
    ASSUME TypeOK, [Next]_vars, Timely'
    PROVE  Timely
<1>1. late => late'
  BY DEF Next, ReadRegister, SendWriteImmediate, Transact, Post, Refused,
         PostFault, InCall, Send, SendFault, WaitReturn, Finish, WaitTimeout,
         Retry, GiveUp, Events, TakeEvent, WaitForEvent, WakeWithEvent,
         WakeWithout, PopEvent, Session, ConnectOpen, DrainFrame, DrainFault,
         StartThread, DisconnectStop, DisconnectFinish, Rx, RxCheck,
         RxReceive, RxTimeout, RxFault, RxMatch, RxDeliver, RxEnqueue, Bus,
         DeviceServe, LoseCommand, LoseAnswer, DeviceEvent, vars, callHist,
         hist
<1>2. used' = used \/ \E kind \in DOMAIN Limit : Spend(kind)
  BY DEF Next, ReadRegister, SendWriteImmediate, Transact, Post, Refused,
         PostFault, InCall, Send, SendFault, WaitReturn, Finish, WaitTimeout,
         Retry, GiveUp, Events, TakeEvent, WaitForEvent, WakeWithEvent,
         WakeWithout, PopEvent, Session, ConnectOpen, DrainFrame, DrainFault,
         StartThread, DisconnectStop, DisconnectFinish, Rx, RxCheck,
         RxReceive, RxTimeout, RxFault, RxMatch, RxDeliver, RxEnqueue, Bus,
         DeviceServe, LoseCommand, LoseAnswer, DeviceEvent, vars, hist, Limit
<1>3. used'.losses = 0 => used.losses = 0
  <2>1. CASE used' = used
    BY <2>1
  <2>2. ASSUME NEW kind \in DOMAIN Limit, Spend(kind)
        PROVE  used'.losses = 0 => used.losses = 0
    BY <2>2 DEF Spend, TypeOK, Counters, Limit
  <2> QED BY <1>2, <2>1, <2>2
<1> QED BY <1>1, <1>3 DEF Timely, UnsolicitedDistinct

\* Steps that move no frame and write nothing.
LEMMA ValueStill ==
    ASSUME Settled, GoodInv,
           UNCHANGED <<toDev, toHost, rxFrame, pt, regs, written>>,
           rxPc' = rxPc \/ ~ Hand',
           \/ callerPc' = callerPc
           \/ callerPc' \notin {"send", "wait", "finish"}
           \/ callerPc' = "finish" /\ callerPc = "wait" /\ pt.completed
    PROVE  Settled' /\ GoodInv'
<1>1. Settled'
  BY DEF Settled, Writes
<1>2. GoodInv'
  BY DEF GoodInv, Good, Asked, Hand
<1> QED BY <1>1, <1>2

\* Such are most steps of the application and of the receive thread.
LEMMA ValueStillSteps ==
    ASSUME Settled, GoodInv,
           \/ \E f \in Requests : Refused(f) \/ PostFault(f)
           \/ SendFault \/ WaitReturn \/ GiveUp
           \/ Events \/ ConnectOpen \/ DrainFault \/ DisconnectStop
           \/ StartThread \/ RxCheck \/ RxTimeout \/ RxFault \/ RxEnqueue
           \/ UNCHANGED vars
    PROVE  Settled' /\ GoodInv'
<1>1. CASE \/ \E f \in Requests : Refused(f) \/ PostFault(f)
           \/ SendFault \/ WaitReturn \/ GiveUp
           \/ Events \/ ConnectOpen \/ DrainFault \/ DisconnectStop
           \/ UNCHANGED vars
  <2>1. /\ UNCHANGED <<toDev, toHost, rxFrame, pt, regs, written, rxPc>>
        /\ \/ callerPc' = callerPc
           \/ callerPc' \notin {"send", "wait", "finish"}
           \/ callerPc' = "finish" /\ callerPc = "wait" /\ pt.completed
    BY <1>1 DEF Refused, PostFault, SendFault, WaitReturn, GiveUp, Events,
            TakeEvent, WaitForEvent, WakeWithEvent, WakeWithout, PopEvent,
            ConnectOpen, DrainFault, DisconnectStop, vars, callerVars,
            rxVars, ptVars, busVars, callHist, eventHist, hist
  <2> QED BY <2>1, ValueStill
<1>2. CASE StartThread \/ RxCheck \/ RxTimeout \/ RxFault \/ RxEnqueue
  <2>1. /\ UNCHANGED <<toDev, toHost, rxFrame, pt, regs, written>>
        /\ ~ Hand'
        /\ \/ callerPc' = callerPc
           \/ callerPc' \notin {"send", "wait", "finish"}
    BY <1>2 DEF StartThread, RxCheck, RxTimeout, RxFault, AfterError,
            RxEnqueue, Hand, callerVars, rxVars, ptVars, busVars, callHist,
            eventHist, hist
  <2> QED BY <2>1, ValueStill
<1> QED BY <1>1, <1>2


\* A call that begins adds to what may be expected.
LEMMA ValueCallStep ==
    ASSUME TypeOK, OneAsked, Answered, Settled, GoodInv,
           NEW f \in Requests, Transact(f)
    PROVE  Settled' /\ GoodInv'
<1>1. /\ UNCHANGED <<toDev, toHost, rxFrame, rxPc, regs>>
      /\ callerPc = "idle" /\ callerPc' = "send"
      /\ pt'.expected = f /\ written' = NoteAttempt(f)
  BY DEF Transact, rxVars, busVars
<1>2. /\ f \in Frame /\ Address(f) \in Addresses
      /\ written \in [Addresses -> SUBSET Values]
  BY DataTypes DEF TypeOK
<1>3. /\ \A a \in Addresses : written[a] \subseteq written'[a]
      /\ f.rw = kWrite => f.value \in written'[Address(f)]
  BY <1>1, <1>2 DEF NoteAttempt
<1>4. Settled'
  BY <1>1, <1>3 DEF Settled, Writes
<1>5. GoodInv'
  BY <1>1, <1>3 DEF GoodInv, OneAsked, Awaited, Asked, Hand
<1> QED BY <1>4, <1>5

\* What is posted or sent is the last write of its register on the bus.
LEMMA ValueSendStep ==
    ASSUME TypeOK, OneAsked, Answered, Settled, GoodInv,
           \/ Send
           \/ \E f \in Requests : ~ WaitWriteEcho /\ f.rw = kWrite /\ Post(f)
    PROVE  Settled' /\ GoodInv'
<1>1. PICK w \in Wire :
          /\ UNCHANGED <<toHost, rxFrame, rxPc, pt, regs>>
          /\ toDev' = Append(toDev, w)
          /\ \/ /\ callerPc = "send" /\ callerPc' = "wait"
                /\ w.frame = pt.expected /\ written' = written
             \/ /\ callerPc = "idle" /\ callerPc' = callerPc
                /\ w.frame.rw = kWrite /\ ~ Asked(w)
                /\ written' = [written EXCEPT ![Address(w.frame)] =
                                                  {w.frame.value}]
  <2>1. CASE Send
    <3> DEFINE w == [frame |-> pt.expected, tag |-> pt.no, uid |-> 0]
    <3>1. w \in Wire
      BY PtTypes DEF Wire, TypeOK, Transaction
    <3>2. w.frame = pt.expected
      OBVIOUS
    <3>3. /\ UNCHANGED <<toHost, rxFrame, rxPc, pt, regs, written>>
          /\ toDev' = Append(toDev, w)
          /\ callerPc = "send" /\ callerPc' = "wait"
      BY <2>1 DEF Send, rxVars, ptVars
    <3> HIDE DEF w
    <3> QED BY <3>1, <3>2, <3>3
  <2>2. CASE \E f \in Requests : ~ WaitWriteEcho /\ f.rw = kWrite /\ Post(f)
    <3>0. PICK f \in Requests : ~ WaitWriteEcho /\ f.rw = kWrite /\ Post(f)
      BY <2>2
    <3> DEFINE w == [frame |-> f, tag |-> calls + 1, uid |-> 0]
    <3>1. calls \in Nat /\ f \in Frame
      BY DataTypes DEF TypeOK
    <3>2. w \in Wire /\ w.frame = f /\ ~ Asked(w)
      BY <3>0, <3>1 DEF Wire, Asked, kRead, kWrite
    <3>3. /\ toDev' = Append(toDev, w)
          /\ callerPc = "idle" /\ callerPc' = callerPc
          /\ UNCHANGED <<toHost, rxFrame, rxPc, pt, regs>>
          /\ written' = [written EXCEPT ![Address(f)] = {f.value}]
      BY <3>0 DEF Post, rxVars, ptVars, NoteSuccess
    <3> HIDE DEF w
    <3> QED BY <3>0, <3>2, <3>3
  <2> QED BY <2>1, <2>2
<1>2. /\ Len(toDev) \in Nat /\ Len(toDev') = Len(toDev) + 1
      /\ \A i \in 1 .. Len(toDev) : toDev'[i] = toDev[i]
      /\ toDev'[Len(toDev) + 1] = w
  BY <1>1, Appending DEF TypeOK
<1>3. /\ \A i \in 1 .. Len(toDev') :
             i \in 1 .. Len(toDev) \/ i = Len(toDev) + 1
      /\ \A i \in 1 .. Len(toDev) :
             i \in 1 .. Len(toDev') /\ Len(toDev) + 1 > i
      /\ Len(toDev) + 1 \in 1 .. Len(toDev')
  BY <1>2
<1>4. /\ \A i \in 1 .. Len(toDev) : ~ Asked(toDev[i])
      /\ \A i \in 1 .. Len(toHost) : ~ Asked(toHost[i])
      /\ Hand => ~ Asked(rxFrame)
  BY <1>1 DEF OneAsked, Awaited
<1>5. /\ Address(w.frame) \in Addresses /\ w.frame.value \in Values
      /\ w.frame \in Frame
      /\ written \in [Addresses -> SUBSET Values]
  BY DataTypes DEF Wire, TypeOK
<1>6. w.frame.rw = kWrite => w.frame.value \in written'[Address(w.frame)]
  BY <1>1, <1>5 DEF GoodInv
<1>7. /\ \A a \in Addresses : a # Address(w.frame) => written'[a] = written[a]
      /\ w.frame.rw # kWrite => written' = written
  BY <1>1, <1>5
<1>8. ASSUME NEW a \in Addresses
      PROVE  /\ \A i \in 1 .. Len(toDev') :
                    Writes(i, a)' /\ (\A j \in 1 .. Len(toDev') :
                                          j > i => ~ Writes(j, a)')
                        => toDev'[i].frame.value \in written'[a]
             /\ (\A i \in 1 .. Len(toDev') : ~ Writes(i, a)')
                    => regs[a] \in written'[a]
  <2>1. CASE w.frame.rw = kWrite /\ Address(w.frame) = a
    BY <1>2, <1>3, <1>6, <2>1 DEF Writes
  <2>2. CASE ~ (w.frame.rw = kWrite /\ Address(w.frame) = a)
    <3>1. written'[a] = written[a]
      BY <1>7, <2>2
    <3>2. \A i \in 1 .. Len(toDev) : Writes(i, a)' <=> Writes(i, a)
      BY <1>2 DEF Writes
    <3>3. \A i \in 1 .. Len(toDev') : Writes(i, a)' => i \in 1 .. Len(toDev)
      BY <1>2, <1>3, <2>2 DEF Writes
    <3>4. ASSUME NEW i \in 1 .. Len(toDev'), Writes(i, a)',
                 \A j \in 1 .. Len(toDev') : j > i => ~ Writes(j, a)'
          PROVE  toDev'[i].frame.value \in written'[a]
      <4>1. i \in 1 .. Len(toDev) /\ Writes(i, a)
        BY <3>2, <3>3, <3>4
      <4>2. \A j \in 1 .. Len(toDev) : j > i => ~ Writes(j, a)
        BY <1>3, <3>2, <3>4
      <4>3. toDev[i].frame.value \in written[a]
        BY <4>1, <4>2 DEF Settled
      <4> QED BY <1>2, <3>1, <4>1, <4>3
    <3>5. (\A i \in 1 .. Len(toDev') : ~ Writes(i, a)')
              => regs[a] \in written'[a]
      BY <1>3, <3>1, <3>2 DEF Settled
    <3> QED BY <3>4, <3>5
  <2> QED BY <2>1, <2>2
<1>9. Settled'
  BY <1>1, <1>8 DEF Settled
<1>10. \A i \in 1 .. Len(toDev') : Asked(toDev'[i]) =>
           i = Len(toDev') /\ toDev'[i].frame = pt.expected
  BY <1>1, <1>2, <1>3, <1>4
<1>11. GoodInv'
  BY <1>1, <1>4, <1>10 DEF GoodInv, Answered, Asked, Hand
<1> QED BY <1>9, <1>11

\* A write that was answered is what the register holds.
LEMMA ValueFinishStep ==
    ASSUME TypeOK, TagInv, OneAsked, Settled, GoodInv, Finish
    PROVE  Settled' /\ GoodInv'
<1>1. /\ UNCHANGED <<toDev, toHost, rxFrame, rxPc, pt, regs>>
      /\ callerPc = "finish" /\ callerPc' = "idle"
      /\ written' = NoteSuccess(pt.expected)
  BY DEF Finish, rxVars, busVars
<1>2. GoodInv'
  BY <1>1 DEF GoodInv, OneAsked, Awaited, Asked, Hand
<1>3. CASE pt.expected.rw # kWrite
  <2>1. Settled'
    BY <1>1, <1>3 DEF NoteSuccess, Settled, Writes
  <2> QED BY <1>2, <2>1
<1>4. CASE pt.expected.rw = kWrite
  <2>1. WaitWriteEcho
    BY <1>1, <1>4 DEF TagInv, InTransact, kRead, kWrite
  <2>2. \A i \in 1 .. Len(toDev) : FALSE
    BY <1>1, <2>1 DEF TagInv, OneAsked, Asked, Awaited
  <2>3. regs[Address(pt.expected)] = pt.expected.value
    BY <1>1, <1>4 DEF GoodInv, Good, kRead, kWrite
  <2>4. \A a \in Addresses : regs[a] \in written'[a]
    <3>1. \A a \in Addresses : regs[a] \in written[a]
      BY <2>2 DEF Settled
    <3>2. /\ written \in [Addresses -> SUBSET Values]
          /\ Address(pt.expected) \in Addresses
      BY PtTypes, DataTypes DEF TypeOK, Transaction
    <3> QED BY <1>1, <1>4, <2>3, <3>1, <3>2 DEF NoteSuccess
  <2>5. Settled'
    BY <1>1, <2>2, <2>4 DEF Settled
  <2> QED BY <1>2, <2>5
<1> QED BY <1>2, <1>3, <1>4

\* Emptying the buffer, and taking a frame out of it, leaves the rest.
LEMMA ValueTakeStep ==
    ASSUME TypeOK, Settled, GoodInv,
           DrainFrame \/ DisconnectFinish \/ RxReceive
    PROVE  Settled' /\ GoodInv'
<1>1. /\ UNCHANGED <<toDev, regs, pt, written>>
      /\ \/ callerPc' = callerPc
         \/ callerPc' = "idle"
      /\ \/ toHost' = <<>>
         \/ toHost # <<>> /\ toHost' = Tail(toHost)
      /\ \/ ~ Hand'
         \/ rxFrame' = rxFrame /\ rxPc' = rxPc
         \/ toHost # <<>> /\ rxFrame' = Head(toHost)
  BY DEF DrainFrame, DisconnectFinish, RxReceive, callerVars, rxVars, ptVars,
         callHist, hist, Hand
<1>2. /\ \A i \in 1 .. Len(toHost') :
             \E k \in 1 .. Len(toHost) : toHost'[i] = toHost[k]
      /\ toHost # <<>> =>
             \E k \in 1 .. Len(toHost) : Head(toHost) = toHost[k]
  <2>1. CASE toHost' = <<>>
    <3>1. 1 .. Len(toHost') = {}
      BY <2>1
    <3>2. toHost # <<>> => 1 \in 1 .. Len(toHost) /\ Head(toHost) = toHost[1]
      BY Taking DEF TypeOK
    <3> QED BY <3>1, <3>2
  <2>2. CASE toHost # <<>> /\ toHost' = Tail(toHost)
    <3>1. /\ Len(toHost') = Len(toHost) - 1 /\ Len(toHost) \in Nat
          /\ \A i \in 1 .. Len(toHost') : toHost'[i] = toHost[i + 1]
          /\ 1 \in 1 .. Len(toHost) /\ Head(toHost) = toHost[1]
      BY <2>2, Taking DEF TypeOK
    <3>2. \A i \in 1 .. Len(toHost') : i + 1 \in 1 .. Len(toHost)
      BY <3>1
    <3> QED BY <3>1, <3>2
  <2> QED BY <1>1, <2>1, <2>2
<1>3. Settled'
  BY <1>1 DEF Settled, Writes
<1>4. GoodInv'
  BY <1>1, <1>2 DEF GoodInv, Good, Asked, Hand
<1> QED BY <1>3, <1>4


\* Matching changes no value, and what is delivered is good.
LEMMA ValueMatchStep ==
    ASSUME TypeOK, Answered, Settled, GoodInv, RxMatch \/ RxDeliver
    PROVE  Settled' /\ GoodInv'
<1>1. /\ UNCHANGED <<toDev, toHost, rxFrame, regs, written, callerPc>>
      /\ pt'.expected = pt.expected
      /\ \/ pt' = pt
         \/ Asked(rxFrame) /\ pt'.response = rxFrame
      /\ Hand
  BY DEF RxMatch, RxDeliver, Answered, callerVars, ptVars, busVars, callHist,
         hist, TypeOK, Transaction, Hand
<1>2. Settled'
  BY <1>1 DEF Settled, Writes
<1>3. Asked(rxFrame) => Good(rxFrame.frame)
  BY <1>1 DEF GoodInv
<1>4. GoodInv'
  BY <1>1, <1>3 DEF GoodInv, Good, Asked, Hand
<1> QED BY <1>2, <1>4

\* An unsolicited frame was not asked for.
LEMMA ValueEventStep ==
    ASSUME TypeOK, Settled, GoodInv, DeviceEvent
    PROVE  Settled' /\ GoodInv'
<1>1. PICK u \in Unsolicited : Arrive(u, 0)
  BY DEF DeviceEvent
<1>2. UNCHANGED <<toDev, rxFrame, rxPc, pt, callerPc, regs, written>>
  BY DEF DeviceEvent, callerVars, rxVars, ptVars, callHist
<1>3. \A i \in 1 .. Len(toHost') : Asked(toHost'[i]) =>
          i \in 1 .. Len(toHost) /\ toHost'[i] = toHost[i]
  <2>1. CASE ~ open
    BY <1>1, <2>1 DEF Arrive
  <2>2. CASE open
    <3> DEFINE w == [frame |-> u, tag |-> 0, uid |-> emitted + 1]
    <3>1. w \in Wire /\ ~ Asked(w)
      BY DataTypes DEF Wire, TypeOK, Asked
    <3>2. toHost' = Append(toHost, w)
      BY <1>1, <2>2 DEF Arrive
    <3> HIDE DEF w
    <3>3. /\ Len(toHost) \in Nat /\ Len(toHost') = Len(toHost) + 1
          /\ \A i \in 1 .. Len(toHost) : toHost'[i] = toHost[i]
          /\ toHost'[Len(toHost) + 1] = w
      BY <3>1, <3>2, Appending DEF TypeOK
    <3>4. \A i \in 1 .. Len(toHost') :
              i \in 1 .. Len(toHost) \/ toHost'[i] = w
      BY <3>3
    <3> QED BY <3>1, <3>3, <3>4
  <2> QED BY <2>1, <2>2
<1>4. Settled'
  BY <1>2 DEF Settled, Writes
<1>5. GoodInv'
  BY <1>2, <1>3 DEF GoodInv, Good, Asked, Hand
<1> QED BY <1>4, <1>5

\* The gripper serves the commands in the order in which they were sent, so
\* that a read comes after all the writes before it.
LEMMA ValueServeStep ==
    ASSUME TypeOK, TagInv, OneAsked, Answered, Settled, GoodInv, DeviceServe
    PROVE  Settled' /\ GoodInv'
<1> DEFINE c == Head(toDev)
           f == c.frame
<1>0. PICK w : w = [frame |-> [f EXCEPT !.value = regs'[Address(f)]],
                    tag |-> c.tag, uid |-> emitted + 1]
  OBVIOUS
<1>1. /\ UNCHANGED <<rxFrame, rxPc, pt, callerPc, written>>
      /\ toDev # <<>> /\ toDev' = Tail(toDev)
      /\ toHost' = IF open THEN Append(toHost, w) ELSE toHost
      /\ regs' = IF f.rw = kWrite THEN [regs EXCEPT ![Address(f)] = f.value]
                                  ELSE regs
  BY <1>0 DEF DeviceServe, Arrive, callerVars, rxVars, ptVars, callHist
<1>2. /\ Len(toDev') = Len(toDev) - 1 /\ Len(toDev) \in Nat
      /\ \A i \in 1 .. Len(toDev') : toDev'[i] = toDev[i + 1]
      /\ 1 \in 1 .. Len(toDev) /\ c = toDev[1] /\ c \in Wire
  BY <1>1, Taking DEF TypeOK
<1>3. /\ f \in Frame /\ Address(f) \in Addresses /\ f.value \in Values
      /\ c.tag \in Nat /\ emitted \in Nat
      /\ regs \in [Addresses -> Values] /\ regs' \in [Addresses -> Values]
  <2>1. f \in Frame /\ c.tag \in Nat /\ emitted \in Nat
    BY <1>2 DEF Wire, TypeOK
  <2>2. Address(f) \in Addresses /\ f.value \in Values
    BY <2>1, DataTypes
  <2>3. regs \in [Addresses -> Values]
    BY DEF TypeOK
  <2> HIDE DEF f
  <2> QED BY <1>1, <2>1, <2>2, <2>3
<1>4. /\ w \in Wire /\ w.frame.value = regs'[Address(f)]
      /\ (Asked(w) <=> Asked(c))
  <2>1. ASSUME NEW g \in Frame, NEW v \in Values
        PROVE  /\ [g EXCEPT !.value = v] \in Frame
               /\ [g EXCEPT !.value = v].rw = g.rw
               /\ [g EXCEPT !.value = v].value = v
    BY DEF Frame
  <2> DEFINE a == [f EXCEPT !.value = regs'[Address(f)]]
  <2>2. /\ a \in Frame /\ a.rw = f.rw /\ a.value = regs'[Address(f)]
        /\ w = [frame |-> a, tag |-> c.tag, uid |-> emitted + 1]
    BY <1>0, <1>3, <2>1
  <2> HIDE DEF a, c, f
  <2>3. w.frame = a /\ w.tag = c.tag /\ w \in Wire
    BY <1>3, <2>2 DEF Wire
  <2>4. f = c.frame
    BY DEF f
  <2> QED BY <2>2, <2>3, <2>4 DEF Asked
<1>5. f = c.frame
  OBVIOUS
<1> HIDE DEF c, f
<1>6. /\ \A i \in 1 .. Len(toDev') :
             i + 1 \in 1 .. Len(toDev) /\ i + 1 > 1 /\ toDev'[i] = toDev[i + 1]
      /\ \A j \in 1 .. Len(toDev) : j > 1 =>
             j - 1 \in 1 .. Len(toDev') /\ toDev'[j - 1] = toDev[j]
  BY <1>2
<1>7. /\ \A a \in Addresses : (f.rw = kWrite /\ Address(f) = a)
                                  => regs'[a] = f.value
      /\ \A a \in Addresses : ~ (f.rw = kWrite /\ Address(f) = a)
                                  => regs'[a] = regs[a]
  BY <1>1, <1>3
<1>8. ASSUME NEW a \in Addresses
      PROVE  /\ \A i \in 1 .. Len(toDev') :
                    Writes(i, a)' /\ (\A j \in 1 .. Len(toDev') :
                                          j > i => ~ Writes(j, a)')
                        => toDev'[i].frame.value \in written[a]
             /\ (\A i \in 1 .. Len(toDev') : ~ Writes(i, a)')
                    => regs'[a] \in written[a]
  <2>1. ASSUME NEW i \in 1 .. Len(toDev'), Writes(i, a)',
               \A j \in 1 .. Len(toDev') : j > i => ~ Writes(j, a)'
        PROVE  toDev'[i].frame.value \in written[a]
    <3>1. i + 1 \in 1 .. Len(toDev) /\ Writes(i + 1, a)
      BY <1>6, <2>1 DEF Writes
    <3>2. ASSUME NEW j \in 1 .. Len(toDev), j > i + 1, Writes(j, a)
          PROVE  FALSE
      <4>1. /\ j - 1 \in 1 .. Len(toDev') /\ j - 1 > i
            /\ toDev'[j - 1] = toDev[j]
        BY <1>2, <1>6, <3>2
      <4>2. PICK k \in 1 .. Len(toDev') : k > i /\ toDev'[k] = toDev[j]
        BY <4>1
      <4>3. Writes(k, a)'
        BY <3>2, <4>2 DEF Writes
      <4> QED BY <2>1, <4>2, <4>3
    <3>3. toDev[i + 1].frame.value \in written[a]
      BY <3>1, <3>2 DEF Settled
    <3> QED BY <1>6, <3>3
  <2>2. ASSUME \A i \in 1 .. Len(toDev') : ~ Writes(i, a)'
        PROVE  regs'[a] \in written[a]
    <3>1. ASSUME NEW j \in 1 .. Len(toDev), j > 1, Writes(j, a)
          PROVE  FALSE
      <4>1. PICK k \in 1 .. Len(toDev') : toDev'[k] = toDev[j]
        BY <1>6, <3>1
      <4>2. Writes(k, a)'
        BY <3>1, <4>1 DEF Writes
      <4> QED BY <2>2, <4>2
    <3>2. Writes(1, a) <=> f.rw = kWrite /\ Address(f) = a
      BY <1>2, <1>5 DEF Writes
    <3>3. CASE Writes(1, a)
      <4>1. toDev[1].frame.value \in written[a]
        BY <1>2, <3>1, <3>3 DEF Settled
      <4> QED BY <1>2, <1>5, <1>7, <3>2, <3>3, <4>1
    <3>4. CASE ~ Writes(1, a)
      <4>1. \A i \in 1 .. Len(toDev) : ~ Writes(i, a)
        <5>1. \A i \in 1 .. Len(toDev) : i = 1 \/ i > 1
          BY <1>2
        <5> QED BY <3>1, <3>4, <5>1
      <4>2. regs[a] \in written[a]
        BY <4>1 DEF Settled
      <4> QED BY <1>7, <3>2, <3>4, <4>2
    <3> QED BY <3>3, <3>4
  <2> QED BY <2>1, <2>2
<1>9. Settled'
  BY <1>1, <1>8 DEF Settled
<1>10. \A i \in 1 .. Len(toHost') :
           \/ i \in 1 .. Len(toHost) /\ toHost'[i] = toHost[i]
           \/ toHost'[i] = w
  <2>1. CASE open
    <3>1. /\ Len(toHost) \in Nat /\ Len(toHost') = Len(toHost) + 1
          /\ \A i \in 1 .. Len(toHost) : toHost'[i] = toHost[i]
          /\ toHost'[Len(toHost) + 1] = w
      BY <1>1, <1>4, <2>1, Appending DEF TypeOK
    <3> QED BY <3>1
  <2>2. CASE ~ open
    BY <1>1, <2>2
  <2> QED BY <2>1, <2>2
<1>11. ASSUME Asked(c)
       PROVE  /\ Len(toDev) = 1
              /\ \A g : g = w.frame => Good(g)'
              /\ \A i \in 1 .. Len(toHost) : ~ Asked(toHost[i])
              /\ ~ (Hand /\ Asked(rxFrame))
              /\ callerPc = "wait" /\ ~ pt.completed
  <2>1. Len(toDev) = 1 /\ f = pt.expected
    BY <1>2, <1>5, <1>11 DEF GoodInv
  <2>2. /\ \A i \in 1 .. Len(toHost) : ~ Asked(toHost[i])
        /\ ~ (Hand /\ Asked(rxFrame))
        /\ callerPc = "wait" /\ ~ pt.completed
    BY <1>2, <1>11 DEF OneAsked, Awaited
  <2>3. CASE f.rw = kRead
    <3>1. \A i \in 1 .. Len(toDev) : toDev[i] = c
      BY <1>2, <2>1
    <3>2. f.rw # kWrite
      BY <2>3 DEF kRead, kWrite
    <3>3. \A i \in 1 .. Len(toDev) : ~ Writes(i, Address(f))
      BY <1>5, <3>1, <3>2 DEF Writes
    <3>4. regs[Address(f)] \in written[Address(f)]
      BY <1>3, <3>3 DEF Settled
    <3>5. w.frame.value \in written[Address(f)]
      BY <1>3, <1>4, <1>7, <3>2, <3>4
    <3> QED BY <1>1, <2>1, <2>2, <2>3, <3>5 DEF Good
  <2>4. CASE f.rw # kRead
    <3>1. f.rw = kWrite
      BY <1>3, <2>4 DEF Frame
    <3>2. regs'[Address(f)] = f.value
      BY <1>3, <1>7, <3>1
    <3> QED BY <1>1, <2>1, <2>2, <2>4, <3>2 DEF Good
  <2> QED BY <2>3, <2>4
<1>12. ASSUME ~ Asked(c), callerPc \in {"wait", "finish"}, NEW g, Good(g)
       PROVE  Good(g)'
  <2>1. c.tag # 0
    BY <1>2 DEF TagInv
  <2>2. ~ WaitWriteEcho
    BY <1>12, <2>1 DEF Asked
  <2>3. pt.expected.rw = kRead
    BY <1>12, <2>2 DEF TagInv, InTransact
  <2> QED BY <1>1, <1>12, <2>3 DEF Good
<1>13. \A i \in 1 .. Len(toDev') : Asked(toDev'[i]) =>
           i = Len(toDev') /\ toDev'[i].frame = pt.expected
  <2>1. \A i \in 1 .. Len(toDev') : i + 1 = Len(toDev) => i = Len(toDev')
    BY <1>2
  <2> QED BY <1>6, <2>1 DEF GoodInv
<1>14. ASSUME NEW i \in 1 .. Len(toHost'), Asked(toHost'[i]),
              NEW g, g = toHost'[i].frame
       PROVE  Good(g)'
  <2>1. CASE toHost'[i] = w
    BY <1>4, <1>11, <1>14, <2>1
  <2>2. CASE i \in 1 .. Len(toHost) /\ toHost'[i] = toHost[i]
    <3>1. ~ Asked(c) /\ callerPc = "wait" /\ Good(toHost[i].frame)
      BY <1>11, <1>14, <2>2 DEF OneAsked, Awaited, GoodInv
    <3>2. g = toHost[i].frame
      BY <1>14, <2>2
    <3> QED BY <1>12, <3>1, <3>2
  <2> QED BY <1>10, <2>1, <2>2
<1>15. Hand /\ Asked(rxFrame) => Good(rxFrame.frame)'
  BY <1>1, <1>11, <1>12 DEF OneAsked, Awaited, GoodInv, Good
<1>16. callerPc = "finish" \/ (callerPc = "wait" /\ pt.completed)
           => Good(pt.response.frame)'
  BY <1>1, <1>11, <1>12 DEF GoodInv, Good
<1>17. (\A i \in 1 .. Len(toHost) : Asked(toHost[i])
                                        => Good(toHost[i].frame))'
  BY <1>14 DEF Good, Asked
<1>18. GoodInv'
  BY <1>1, <1>13, <1>15, <1>16, <1>17 DEF GoodInv, Asked, Hand
<1> QED BY <1>9, <1>18

\* The invariant holds in every state.
LEMMA ValueHolds == Spec => []ValueInv
<1>1. Init => ValueInv
  <2>1. Init => /\ 1 .. Len(toDev) = {} /\ 1 .. Len(toHost) = {} /\ ~ Hand
                /\ \A a \in Addresses : regs[a] \in written[a]
    BY DEF Init, Hand
  <2> QED
    BY <2>1 DEF Init, ValueInv, Settled, GoodInv
<1>2. TypeOK /\ OwnInv /\ ValueInv /\ [Next]_vars => ValueInv'
  <2> SUFFICES ASSUME TypeOK, OwnInv, ValueInv, [Next]_vars, Timely'
               PROVE  Settled' /\ GoodInv'
    BY DEF ValueInv
  <2>0. Timely /\ TagInv /\ OneAsked /\ Answered /\ Settled /\ GoodInv
    BY Earlier DEF ValueInv, OwnInv, Timely
  <2>1. CASE ReadRegister \/ SendWriteImmediate
    BY <2>0, <2>1, ValueCallStep, ValueSendStep, ValueStillSteps
       DEF ReadRegister, SendWriteImmediate
  <2>2. CASE InCall
    <3>1. ~ (WaitTimeout \/ Retry)
      BY <2>0 DEF WaitTimeout, Retry, Timely, Answered
    <3> QED
      BY <2>0, <2>2, <3>1, ValueSendStep, ValueFinishStep, ValueStillSteps
         DEF InCall
  <2>3. CASE Events \/ UNCHANGED vars
    BY <2>0, <2>3, ValueStillSteps
  <2>4. CASE Session
    BY <2>0, <2>4, ValueTakeStep, ValueStillSteps DEF Session
  <2>5. CASE Rx
    BY <2>0, <2>5, ValueTakeStep, ValueMatchStep, ValueStillSteps DEF Rx
  <2>6. CASE Bus
    <3>1. ~ (LoseCommand \/ LoseAnswer)
      <4>1. Spend("losses") => used'.losses = used.losses + 1
        BY DEF Spend, TypeOK, Counters, Limit
      <4> QED BY <2>0, <4>1 DEF LoseCommand, LoseAnswer, Timely
    <3> QED
      BY <2>0, <2>6, <3>1, ValueServeStep, ValueEventStep DEF Bus
  <2> QED
    BY <2>1, <2>2, <2>3, <2>4, <2>5, <2>6 DEF Next
<1> QED
  BY <1>1, <1>2, TypeCorrect, OwnHolds, PTL DEF Spec

\* Until a wait times out or a frame is lost, a read returns what was written
\* last, posted or confirmed, or one of the values that writes which failed
\* may have left: waiting for no echo reorders nothing.
THEOREM ReadsAreFresh == Spec => []ReadsLastWrite
<1>1. TypeOK /\ ValueInv => ReadsLastWrite
  BY DEF ValueInv, Timely, GoodInv, Good, ReadsLastWrite
<1> QED
  BY <1>1, TypeCorrect, ValueHolds, PTL

=============================================================================
