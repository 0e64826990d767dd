----------------------- MODULE WriteCoalescingProofs ------------------------
(***************************************************************************)
(* Proofs about WriteCoalescing, for every set of ids, registers and       *)
(* values, every window and every number of calls, retries, lost frames    *)
(* and late answers.                                                       *)
(***************************************************************************)
EXTENDS WriteCoalescing, TLAPS

-----------------------------------------------------------------------------
(* Type correctness                                                        *)

\* Addresses are pairs of an id and a register, and there are some.
LEMMA AddressFacts ==
    /\ SomeAddress \in Addresses
    /\ \A i \in Ids, k \in Keys : <<i, k>> \in Addresses
    /\ \A a \in Addresses : /\ a[1] \in Ids /\ a[2] \in Keys
                            /\ a = <<a[1], a[2]>>
<1>1. \E a \in Addresses : TRUE
  <2>1. PICK k \in Keys : TRUE
    BY DataAssumption
  <2>2. <<DefaultId, k>> \in Addresses
    BY DataAssumption DEF Addresses
  <2> QED
    BY <2>2
<1>2. SomeAddress \in Addresses
  BY <1>1 DEF SomeAddress
<1> QED
  BY <1>2 DEF Addresses

\* The records that stand for no call, no request and an ending are typed.
LEMMA RecordTypes ==
    /\ NoCall \in Call /\ NoCall.at = 0
    /\ NoRequest \in Request
    /\ \A kind \in {"none", "write", "failed"} :
           Ended(kind) \in Ending /\ Ended(kind).kind = kind
BY AddressFacts, DataAssumption
   DEF NoCall, Call, NoRequest, Request, Directions, Ended, Ending

\* What sends, serves, loses and takes frames keeps the types of the line.
LEMMA LineTypes ==
    ASSUME LineTypeOK, NEW a \in Addresses
    PROVE  /\ \A rw \in Directions, v \in Values :
                  Transmit(a, rw, v) => LineTypeOK'
           /\ Serve(a) => LineTypeOK'
           /\ LoseRequest(a) => LineTypeOK'
           /\ Leave(a) => LineTypeOK'
<1>1. /\ line[a] \in Seq(Frame) /\ answers[a] \in Seq(Frame)
      /\ device[a] \in Values
  BY DEF LineTypeOK
<1>2. ASSUME NEW rw \in Directions, NEW v \in Values, Transmit(a, rw, v)
      PROVE  LineTypeOK'
  <2>1. [rw |-> rw, value |-> v] \in Frame
    BY DEF Frame
  <2>2. Append(line[a], [rw |-> rw, value |-> v]) \in Seq(Frame)
    BY <1>1, <2>1
  <2> QED
    BY <1>2, <2>2 DEF Transmit, LineTypeOK
<1>3. ASSUME line[a] # <<>>
      PROVE  Head(line[a]) \in Frame /\ Tail(line[a]) \in Seq(Frame)
  BY <1>1, <1>3
<1>4. ASSUME Serve(a) PROVE LineTypeOK'
  <2> DEFINE f == Head(line[a])
             v == IF f.rw = "write" THEN f.value ELSE device[a]
  <2>1. f \in Frame /\ Tail(line[a]) \in Seq(Frame)
    BY <1>3, <1>4 DEF Serve
  <2>2. v \in Values /\ [rw |-> f.rw, value |-> v] \in Frame
    BY <1>1, <2>1 DEF Frame
  <2>3. Append(answers[a], [rw |-> f.rw, value |-> v]) \in Seq(Frame)
    BY <1>1, <2>2
  <2>4. /\ line' = [line EXCEPT ![a] = Tail(@)]
        /\ device' = [device EXCEPT ![a] = v]
        /\ answers' = [answers EXCEPT
                           ![a] = Append(@, [rw |-> f.rw, value |-> v])]
        /\ UNCHANGED <<newest, lost>>
    BY <1>4 DEF Serve
  <2> HIDE DEF v, f
  <2> QED
    BY <2>1, <2>2, <2>3, <2>4 DEF LineTypeOK
<1>5. ASSUME LoseRequest(a) PROVE LineTypeOK'
  BY <1>3, <1>5 DEF LoseRequest, LineTypeOK
<1>6. ASSUME Leave(a) PROVE LineTypeOK'
  <2>1. Tail(answers[a]) \in Seq(Frame)
    BY <1>1, <1>6 DEF Leave
  <2> QED
    BY <1>6, <2>1 DEF Leave, LineTypeOK
<1> QED
  BY <1>2, <1>4, <1>5, <1>6

\* The parts of a step that several actions share keep their types.
LEMMA PartTypes ==
    ASSUME TypeOK
    PROVE  /\ \A i \in Ids, k \in Keys, v \in Values :
                  Accept(i, k, v) => /\ wanted' \in [Addresses -> Values]
                                     /\ last' \in Ending
           /\ \A i \in Ids, k \in Keys : InitEntry(i, k) => id' \in [Keys -> Ids]
           /\ Over => call' \in Call /\ call'.at =< now /\ pc' = "idle"
                      /\ todo' = {}
           /\ Fails => /\ call' \in Call /\ call'.at =< now /\ pc' = "idle"
                       /\ todo' = {} /\ last' \in Ending
                       /\ wanted' \in [Addresses -> Values]
           /\ Fault => faults' \in Nat
           /\ Settled => /\ request' \in Request /\ attempt' \in 0 .. MaxRetries
                         /\ stale' \subseteq Addresses \X Directions
<1>1. ASSUME NEW i \in Ids, NEW k \in Keys, NEW v \in Values, Accept(i, k, v)
      PROVE  wanted' \in [Addresses -> Values] /\ last' \in Ending
  BY <1>1, AddressFacts, RecordTypes DEF Accept, TypeOK
<1>2. ASSUME NEW i \in Ids, NEW k \in Keys, InitEntry(i, k)
      PROVE  id' \in [Keys -> Ids]
  BY <1>2 DEF InitEntry, TypeOK
<1>3. Over => /\ call' \in Call /\ call'.at =< now /\ pc' = "idle"
              /\ todo' = {}
  BY RecordTypes DEF Over, TypeOK
<1>4. Fails => last' \in Ending /\ wanted' \in [Addresses -> Values]
  BY RecordTypes DEF Fails, TypeOK
<1>5. Fault => faults' \in Nat
  BY DEF Fault, TypeOK
<1>6. Settled => /\ request' \in Request /\ attempt' \in 0 .. MaxRetries
                 /\ stale' \subseteq Addresses \X Directions
  BY RecordTypes, ConfigAssumption DEF Settled, TypeOK
<1> QED
  BY <1>1, <1>2, <1>3, <1>4, <1>5, <1>6 DEF Fails

\* A deferral that is not skipped stamps the entry with a time of the past.
LEMMA DeferTypes ==
    ASSUME TypeOK, NEW k \in Keys, NEW v \in Values, NEW at \in 0 .. now,
           SkipOrDefer(k, v, at)
    PROVE  /\ UNCHANGED <<lastSent, sentAt>>
           /\ pending \subseteq pending' /\ pending' \subseteq Keys
           /\ pendingValue' \in [Keys -> Values]
           /\ since' \in [Keys -> 0 .. now]
BY DEF SkipOrDefer, Defer, TypeOK

\* Every initial state is well typed.
LEMMA InitType == Init => TypeOK
<1> SUFFICES ASSUME Init PROVE TypeOK
  OBVIOUS
<1>1. LineTypeOK
  BY DataAssumption DEF Init, LineInit, LineTypeOK
<1>2. /\ call \in Call /\ call.at =< now /\ last \in Ending
      /\ request \in Request /\ attempt \in 0 .. MaxRetries
  BY RecordTypes, ConfigAssumption DEF Init
<1> QED
  BY <1>1, <1>2, DataAssumption, ConfigAssumption DEF Init, TypeOK

\* write_register keeps every type.
LEMMA WriteType ==
    ASSUME TypeOK, NEW i \in Ids, NEW k \in Keys, NEW v \in Values,
           \/ WriteSkipped(i, k, v) \/ WriteRefreshed(i, k, v)
           \/ WriteReplaced(i, k, v) \/ WriteExpired(i, k, v)
           \/ WriteDeferred(i, k, v)
    PROVE  TypeOK'
<1>0. <<i, k>> \in Addresses /\ now \in 0 .. now /\ calls \in Nat
  BY AddressFacts DEF TypeOK
<1>1. Quick => LineTypeOK'
  BY DEF Quick, TypeOK, LineTypeOK, lineVars
<1>2. CASE WriteSkipped(i, k, v)
  <2>1. /\ wanted' \in [Addresses -> Values] /\ last' \in Ending
        /\ id' \in [Keys -> Ids]
    BY <1>0, <1>2, PartTypes DEF WriteSkipped
  <2> QED
    BY <1>0, <1>1, <1>2, <2>1
       DEF WriteSkipped, Begin, Quick, TypeOK, flushVars, linkVars,
           transactVars
<1>3. CASE WriteRefreshed(i, k, v)
  <2>1. /\ wanted' \in [Addresses -> Values] /\ last' \in Ending
        /\ id' \in [Keys -> Ids]
    BY <1>0, <1>3, PartTypes DEF WriteRefreshed
  <2>2. since' \in [Keys -> 0 .. now]
    BY <1>0, <1>3 DEF WriteRefreshed, TypeOK
  <2> QED
    BY <1>0, <1>1, <1>3, <2>1, <2>2
       DEF WriteRefreshed, Begin, Quick, TypeOK, flushVars, linkVars,
           transactVars
<1>4. CASE WriteReplaced(i, k, v)
  <2>1. /\ wanted' \in [Addresses -> Values] /\ last' \in Ending
        /\ id' \in [Keys -> Ids]
    BY <1>0, <1>4, PartTypes DEF WriteReplaced
  <2>2. since' \in [Keys -> 0 .. now]
    BY <1>0, <1>4 DEF WriteReplaced, TypeOK
  <2> QED
    BY <1>0, <1>1, <1>4, <2>1, <2>2
       DEF WriteReplaced, Begin, Quick, TypeOK, flushVars, linkVars,
           transactVars
<1>5. CASE WriteExpired(i, k, v)
  <2>1. id' \in [Keys -> Ids]
    BY <1>0, <1>5, PartTypes DEF WriteExpired
  <2>2. call' \in Call /\ call'.at = now
    BY <1>0, <1>5 DEF WriteExpired, StartFlush, Call
  <2>3. LineTypeOK'
    BY <1>5 DEF WriteExpired, StartFlush, TypeOK, LineTypeOK, lineVars
  <2> QED
    BY <1>0, <1>5, <2>1, <2>2, <2>3
       DEF WriteExpired, Begin, StartFlush, TypeOK, linkVars, transactVars
<1>6. CASE WriteDeferred(i, k, v)
  <2>1. /\ wanted' \in [Addresses -> Values] /\ last' \in Ending
        /\ id' \in [Keys -> Ids]
    BY <1>0, <1>6, PartTypes DEF WriteDeferred
  <2>2. /\ UNCHANGED <<lastSent, sentAt>>
        /\ pending \subseteq pending' /\ pending' \subseteq Keys
        /\ pendingValue' \in [Keys -> Values]
        /\ since' \in [Keys -> 0 .. now]
    BY <1>0, <1>6, DeferTypes DEF WriteDeferred
  <2> QED
    BY <1>0, <1>1, <1>6, <2>1, <2>2
       DEF WriteDeferred, Begin, Quick, TypeOK, flushVars, linkVars,
           transactVars
<1> QED
  BY <1>2, <1>3, <1>4, <1>5, <1>6

\* So does a first transmission, with the wait that follows it.
LEMMA BegunTypes ==
    ASSUME TypeOK, NEW a \in Addresses, NEW rw \in Directions,
           NEW v \in Values, Begun(a, rw, v)
    PROVE  /\ LineTypeOK'
           /\ stale' \subseteq Addresses \X Directions
           /\ Await(a, rw, v) => /\ request' \in Request
                                 /\ attempt' \in 0 .. MaxRetries
<1>1. LineTypeOK'
  BY LineTypes DEF Begun, TypeOK
<1>2. stale' \subseteq Addresses \X Directions
  BY DEF Begun, TypeOK
<1>3. Await(a, rw, v) => /\ request' \in Request
                         /\ attempt' \in 0 .. MaxRetries
  BY ConfigAssumption DEF Await, Request
<1> QED
  BY <1>1, <1>2, <1>3

\* And what follows a send that returned.
LEMMA SentTypes ==
    ASSUME TypeOK, NEW k \in Keys, Sent(k)
    PROVE  /\ lastSent' \in [Keys -> Values] /\ sentAt' \in [Keys -> 0 .. now]
           /\ pending' \subseteq Keys /\ todo' \subseteq pending'
           /\ UNCHANGED <<id, pendingValue, since>>
<1>1. now \in 0 .. now /\ pendingValue[k] \in Values
  BY DEF TypeOK
<1> QED
  BY <1>1 DEF Sent, TypeOK

\* The steps of a flush keep every type.
LEMMA FlushType ==
    ASSUME TypeOK, FlushSend \/ WriteConfirmed \/ FlushFails \/ FlushDone
    PROVE  TypeOK'
<1>1. CASE FlushSend
  <2>1. PICK k \in todo :
            /\ pc = "flush"
            /\ Begun(<<id[k], k>>, "write", pendingValue[k])
            /\ IF waitEcho
               THEN /\ Await(<<id[k], k>>, "write", pendingValue[k])
                    /\ UNCHANGED <<cacheVars, todo>>
               ELSE Sent(k) /\ UNCHANGED <<pc, request, attempt>>
            /\ UNCHANGED <<linkVars, call, now, wanted, last, calls, faults>>
    BY <1>1 DEF FlushSend
  <2>2. /\ k \in Keys /\ pendingValue[k] \in Values
        /\ <<id[k], k>> \in Addresses /\ "write" \in Directions
    BY <2>1, AddressFacts DEF TypeOK, Directions
  <2>3. /\ LineTypeOK' /\ stale' \subseteq Addresses \X Directions
        /\ waitEcho => /\ request' \in Request
                       /\ attempt' \in 0 .. MaxRetries
    BY <2>1, <2>2, BegunTypes
  <2>4. CASE waitEcho
    BY <2>1, <2>3, <2>4 DEF Await, TypeOK, cacheVars, linkVars
  <2>5. CASE ~ waitEcho
    <3>1. /\ lastSent' \in [Keys -> Values] /\ sentAt' \in [Keys -> 0 .. now]
          /\ pending' \subseteq Keys /\ todo' \subseteq pending'
          /\ UNCHANGED <<id, pendingValue, since>>
      BY <2>1, <2>2, <2>5, SentTypes
    <3> QED
      BY <2>1, <2>3, <2>5, <3>1 DEF TypeOK, linkVars
  <2> QED
    BY <2>4, <2>5
<1>2. CASE WriteConfirmed
  <2>1. request.address \in Addresses /\ request.address[2] \in Keys
    BY AddressFacts DEF TypeOK, Request
  <2>2. LineTypeOK'
    BY <1>2, <2>1, LineTypes DEF WriteConfirmed, Answered, TypeOK
  <2>3. /\ request' \in Request /\ attempt' \in 0 .. MaxRetries
        /\ stale' \subseteq Addresses \X Directions
    BY <1>2, PartTypes DEF WriteConfirmed, Answered
  <2>4. /\ lastSent' \in [Keys -> Values] /\ sentAt' \in [Keys -> 0 .. now]
        /\ pending' \subseteq Keys /\ todo' \subseteq pending'
        /\ UNCHANGED <<id, pendingValue, since>>
    BY <1>2, <2>1, SentTypes DEF WriteConfirmed
  <2> QED
    BY <1>2, <2>2, <2>3, <2>4 DEF WriteConfirmed, TypeOK, linkVars
<1>3. CASE FlushFails
  <2>1. /\ Fails /\ Settled /\ pending' = pending
        /\ UNCHANGED faults \/ Fault
        /\ UNCHANGED <<lineVars, linkVars, id, lastSent, sentAt, pendingValue,
                       since, now, calls>>
    BY <1>3 DEF FlushFails, KeptPending, TimesOut
  <2>2. LineTypeOK'
    BY <2>1 DEF TypeOK, LineTypeOK, lineVars
  <2>3. /\ call' \in Call /\ call'.at =< now /\ pc' = "idle"
        /\ todo' = {} /\ last' \in Ending
        /\ wanted' \in [Addresses -> Values] /\ faults' \in Nat
        /\ request' \in Request /\ attempt' \in 0 .. MaxRetries
        /\ stale' \subseteq Addresses \X Directions
    BY <2>1, PartTypes DEF TypeOK
  <2> QED
    BY <2>1, <2>2, <2>3 DEF TypeOK, linkVars
<1>4. CASE FlushDone
  <2>1. LineTypeOK'
    BY <1>4 DEF FlushDone, TypeOK, LineTypeOK, lineVars
  <2>2. Over => /\ call' \in Call /\ call'.at =< now /\ pc' = "idle"
                /\ todo' = {}
    BY PartTypes
  <2> QED
    BY <1>4, <2>1, <2>2
       DEF FlushDone, TypeOK, cacheVars, linkVars, transactVars
<1> QED
  BY <1>1, <1>2, <1>3, <1>4

\* A second transmission, the line and the clock keep every type.
LEMMA LineType ==
    ASSUME TypeOK,
           Resend \/ IgnoreAnswer \/ ServeRequest \/ LoseFrame \/ Tick
    PROVE  TypeOK'
<1>1. CASE Resend
  <2>1. /\ request.address \in Addresses /\ request.rw \in Directions
        /\ request.value \in Values
    BY DEF TypeOK, Request
  <2>2. LineTypeOK'
    BY <1>1, <2>1, LineTypes DEF Resend, TypeOK
  <2>3. attempt' \in 0 .. MaxRetries /\ faults' \in Nat
    BY <1>1, ConfigAssumption DEF Resend, TimesOut, Fault, TypeOK
  <2> QED
    BY <1>1, <2>2, <2>3 DEF Resend, TypeOK, cacheVars, flushVars, linkVars
<1>2. CASE IgnoreAnswer \/ ServeRequest \/ LoseFrame
  <2>1. LineTypeOK'
    BY <1>2, LineTypes DEF IgnoreAnswer, ServeRequest, LoseFrame, TypeOK
  <2>2. faults' \in Nat
    BY <1>2 DEF IgnoreAnswer, ServeRequest, LoseFrame, Fault, TypeOK
  <2> QED
    BY <1>2, <2>1, <2>2
       DEF IgnoreAnswer, ServeRequest, LoseFrame, TypeOK, cacheVars,
           flushVars, linkVars, transactVars
<1>3. CASE Tick
  <2>1. \A k \in Keys : sentAt[k] \in 0 .. now + 1 /\ since[k] \in 0 .. now + 1
    BY DEF TypeOK
  <2>2. /\ sentAt \in [Keys -> 0 .. now + 1]
        /\ since \in [Keys -> 0 .. now + 1]
    BY <2>1 DEF TypeOK
  <2>3. now + 1 \in Nat /\ now + 1 >= Window /\ call.at =< now + 1
    BY ConfigAssumption DEF TypeOK, Call
  <2>4. LineTypeOK'
    BY <1>3 DEF Tick, TypeOK, LineTypeOK, lineVars
  <2> QED
    BY <1>3, <2>2, <2>3, <2>4
       DEF Tick, TypeOK, cacheVars, flushVars, linkVars, transactVars
<1> QED
  BY <1>1, <1>2, <1>3

\* The calls that flush keep every type, before and after the flush.
LEMMA CallType ==
    ASSUME TypeOK,
           \/ WriteResumed \/ ReadAnyRegister \/ ReadSend \/ ReadReturns
           \/ ReadFails \/ Flush \/ Disconnect \/ DisconnectResumed \/ Connect
    PROVE  TypeOK'
<1>0. /\ call.address \in Addresses /\ call.value \in Values
      /\ call.at \in 0 .. now /\ now \in Nat /\ 0 \in Values
      /\ call.address[1] \in Ids /\ call.address[2] \in Keys
      /\ "read" \in Directions /\ request.address \in Addresses
  BY AddressFacts, DataAssumption DEF TypeOK, Call, Request, Directions
<1>1. CASE WriteResumed
  <2>1. wanted' \in [Addresses -> Values] /\ last' \in Ending
    BY <1>0, <1>1, PartTypes DEF WriteResumed
  <2>2. /\ UNCHANGED <<lastSent, sentAt>>
        /\ pending \subseteq pending' /\ pending' \subseteq Keys
        /\ pendingValue' \in [Keys -> Values]
        /\ since' \in [Keys -> 0 .. now]
    BY <1>0, <1>1, DeferTypes DEF WriteResumed
  <2>3. call' \in Call /\ call'.at =< now /\ pc' = "idle" /\ todo' = {}
    BY <1>1, PartTypes DEF WriteResumed
  <2>4. LineTypeOK'
    BY <1>1 DEF WriteResumed, TypeOK, LineTypeOK, lineVars
  <2> QED
    BY <1>1, <2>1, <2>2, <2>3, <2>4
       DEF WriteResumed, TypeOK, linkVars, transactVars
<1>2. ASSUME NEW kind \in {"read", "flush", "disconnect"},
             NEW a \in Addresses, StartFlush(kind, a, 0, 0),
             UNCHANGED cacheVars, calls' \in Nat
      PROVE  TypeOK'
  <2>1. call' \in Call /\ call'.at =< now
    BY <1>0, <1>2 DEF StartFlush, Call
  <2>2. LineTypeOK'
    BY <1>2 DEF StartFlush, TypeOK, LineTypeOK, lineVars
  <2> QED
    BY <1>2, <2>1, <2>2
       DEF StartFlush, TypeOK, cacheVars, linkVars, transactVars
<1>3. CASE ReadAnyRegister
  <2>1. PICK i \in Ids, k \in Keys : ReadRegister(i, k)
    BY <1>3 DEF ReadAnyRegister
  <2>2. calls' \in Nat
    BY <2>1 DEF ReadRegister, Begin, TypeOK
  <2> QED
    BY <1>2, <2>1, <2>2, AddressFacts DEF ReadRegister
<1>4. CASE ReadSend
  <2>1. /\ LineTypeOK' /\ stale' \subseteq Addresses \X Directions
        /\ request' \in Request /\ attempt' \in 0 .. MaxRetries
    BY <1>0, <1>4, BegunTypes DEF ReadSend
  <2> QED
    BY <1>4, <2>1 DEF ReadSend, Await, TypeOK, cacheVars, linkVars
<1>5. CASE ReadReturns
  <2>1. LineTypeOK'
    BY <1>0, <1>5, LineTypes DEF ReadReturns, Answered, TypeOK
  <2>2. Head(answers[request.address]).value \in Values
    <3>1. /\ answers[request.address] \in Seq(Frame)
          /\ answers[request.address] # <<>>
      BY <1>0, <1>5
         DEF ReadReturns, Answered, Answers, TypeOK, LineTypeOK
    <3>2. Head(answers[request.address]) \in Frame
      BY <3>1
    <3> QED
      BY <3>2 DEF Frame
  <2>3. last' \in Ending
    BY <1>0, <1>5, <2>2 DEF ReadReturns, Ending
  <2>4. /\ request' \in Request /\ attempt' \in 0 .. MaxRetries
        /\ stale' \subseteq Addresses \X Directions
        /\ call' \in Call /\ call'.at =< now /\ pc' = "idle" /\ todo' = {}
    BY <1>5, PartTypes DEF ReadReturns, Answered
  <2> QED
    BY <1>5, <2>1, <2>3, <2>4 DEF ReadReturns, TypeOK, cacheVars, linkVars
<1>6. CASE ReadFails
  <2>1. /\ Fails /\ Settled
        /\ UNCHANGED faults \/ Fault
        /\ UNCHANGED <<lineVars, linkVars, cacheVars, now, calls>>
    BY <1>6 DEF ReadFails, TimesOut
  <2>2. LineTypeOK'
    BY <2>1 DEF TypeOK, LineTypeOK, lineVars
  <2>3. /\ call' \in Call /\ call'.at =< now /\ pc' = "idle"
        /\ todo' = {} /\ last' \in Ending
        /\ wanted' \in [Addresses -> Values] /\ faults' \in Nat
        /\ request' \in Request /\ attempt' \in 0 .. MaxRetries
        /\ stale' \subseteq Addresses \X Directions
    BY <2>1, PartTypes DEF TypeOK
  <2> QED
    BY <2>1, <2>2, <2>3 DEF TypeOK, linkVars, cacheVars
<1>7. CASE Flush
  BY <1>2, <1>7, AddressFacts DEF Flush, TypeOK
<1>8. CASE Disconnect
  <2>1. calls' \in Nat
    BY <1>8 DEF Disconnect, Begin, TypeOK
  <2> QED
    BY <1>2, <1>8, <2>1, AddressFacts DEF Disconnect
<1>9. CASE DisconnectResumed
  <2>1. call' \in Call /\ call'.at =< now /\ pc' = "idle" /\ todo' = {}
    BY <1>9, PartTypes DEF DisconnectResumed
  <2>2. LineTypeOK'
    BY <1>9 DEF DisconnectResumed, TypeOK, LineTypeOK, lineVars
  <2> QED
    BY <1>9, <2>1, <2>2 DEF DisconnectResumed, TypeOK, cacheVars, transactVars
<1>10. CASE Connect
  <2>1. LineTypeOK'
    BY <1>10 DEF Connect, TypeOK, LineTypeOK, lineVars
  <2> QED
    BY <1>10, <2>1
       DEF Connect, Begin, TypeOK, cacheVars, flushVars, transactVars
<1> QED
  BY <1>1, <1>3, <1>4, <1>5, <1>6, <1>7, <1>8, <1>9, <1>10

\* Type correctness: no call, failed or not, breaks a type or stamps an
\* entry with a time to come.
THEOREM TypeCorrect == Spec => []TypeOK
<1>1. ASSUME TypeOK, [Next]_vars
      PROVE  TypeOK'
  <2>1. CASE WriteRegister
    BY <1>1, <2>1, WriteType DEF WriteRegister
  <2>2. CASE UNCHANGED vars
    BY <1>1, <2>2
       DEF TypeOK, LineTypeOK, vars, lineVars, linkVars, cacheVars,
           transactVars, flushVars
  <2> QED
    BY <1>1, <2>1, <2>2, FlushType, LineType, CallType DEF Next
<1> QED
  BY InitType, <1>1, PTL DEF Spec

-----------------------------------------------------------------------------
(* What the line does to what was sent                                     *)

\* A frame more at the end, or one fewer at the beginning.
LEMMA HoldsAppend ==
    ASSUME NEW s \in Seq(Frame), NEW f \in Frame, NEW rw
    PROVE  Holds(Append(s, f), rw) <=> Holds(s, rw) \/ f.rw = rw
<1>1. /\ Len(Append(s, f)) = Len(s) + 1 /\ Len(s) \in Nat
      /\ \A j \in 1 .. Len(s) : Append(s, f)[j] = s[j]
      /\ Append(s, f)[Len(s) + 1] = f
  OBVIOUS
<1> QED
  BY <1>1 DEF Holds

LEMMA TailFacts ==
    ASSUME NEW s \in Seq(Frame), s # <<>>
    PROVE  /\ Len(Tail(s)) = Len(s) - 1 /\ Len(s) \in Nat \ {0}
           /\ Head(s) = s[1] /\ Head(s) \in Frame
           /\ \A j \in 1 .. Len(Tail(s)) : Tail(s)[j] = s[j + 1]
           /\ Tail(s) \in Seq(Frame)
OBVIOUS

LEMMA HoldsTail ==
    ASSUME NEW s \in Seq(Frame), s # <<>>, NEW rw
    PROVE  Holds(s, rw) <=> Head(s).rw = rw \/ Holds(Tail(s), rw)
<1>1. ASSUME NEW j \in 1 .. Len(s), s[j].rw = rw, j # 1
      PROVE  Holds(Tail(s), rw)
  <2>1. j - 1 \in 1 .. Len(Tail(s)) /\ Tail(s)[j - 1] = s[j]
    BY <1>1, TailFacts
  <2> QED
    BY <1>1, <2>1 DEF Holds
<1>2. ASSUME NEW j \in 1 .. Len(Tail(s)), Tail(s)[j].rw = rw
      PROVE  Holds(s, rw)
  <2>1. j + 1 \in 1 .. Len(s) /\ s[j + 1].rw = rw
    BY <1>2, TailFacts
  <2> QED
    BY <2>1 DEF Holds
<1>3. Head(s).rw = rw => Holds(s, rw)
  BY TailFacts DEF Holds
<1> QED
  BY <1>1, <1>2, <1>3, TailFacts DEF Holds

\* The last write in s, if there is one, carries v.
EndsWith(s, v) ==
    \A j \in 1 .. Len(s) :
        /\ s[j].rw = "write"
        /\ \A m \in 1 .. Len(s) : m > j => s[m].rw # "write"
        => s[j].value = v

\* Every write in s carries v.
Carries(s, v) == \A j \in 1 .. Len(s) : s[j].rw = "write" => s[j].value = v

LEMMA SequenceFacts ==
    ASSUME NEW s \in Seq(Frame), NEW f \in Frame, NEW v
    PROVE  /\ f.rw = "write" /\ f.value = v => EndsWith(Append(s, f), v)
           /\ f.rw # "write" /\ EndsWith(s, v) => EndsWith(Append(s, f), v)
           /\ s # <<>> /\ EndsWith(s, v) => EndsWith(Tail(s), v)
           /\ /\ s # <<>> /\ EndsWith(s, v)
              /\ Head(s).rw = "write" /\ ~ Holds(Tail(s), "write")
              => Head(s).value = v
           /\ Carries(s, v) /\ (f.rw = "write" => f.value = v)
              => Carries(Append(s, f), v)
           /\ s # <<>> /\ Carries(s, v)
              => /\ Carries(Tail(s), v)
                 /\ Head(s).rw = "write" => Head(s).value = v
           /\ ~ Holds(s, "write") => Carries(s, v)
<1>1. /\ Len(Append(s, f)) = Len(s) + 1 /\ Len(s) \in Nat
      /\ \A j \in 1 .. Len(s) : Append(s, f)[j] = s[j]
      /\ Append(s, f)[Len(s) + 1] = f
  OBVIOUS
<1>2. f.rw = "write" /\ f.value = v => EndsWith(Append(s, f), v)
  BY <1>1 DEF EndsWith
<1>3. f.rw # "write" /\ EndsWith(s, v) => EndsWith(Append(s, f), v)
  BY <1>1 DEF EndsWith
<1>4. ASSUME s # <<>>, EndsWith(s, v)
      PROVE  EndsWith(Tail(s), v)
  <2>1. ASSUME NEW j \in 1 .. Len(Tail(s)), Tail(s)[j].rw = "write",
               \A m \in 1 .. Len(Tail(s)) : m > j => Tail(s)[m].rw # "write"
        PROVE  Tail(s)[j].value = v
    <3>1. j + 1 \in 1 .. Len(s) /\ s[j + 1] = Tail(s)[j]
      BY <1>4, TailFacts
    <3>2. ASSUME NEW m \in 1 .. Len(s), m > j + 1
          PROVE  s[m].rw # "write"
      <4>1. /\ m - 1 \in 1 .. Len(Tail(s)) /\ m - 1 > j
            /\ Tail(s)[m - 1] = s[m]
        BY <1>4, <3>2, TailFacts
      <4> QED
        BY <2>1, <4>1
    <3> QED
      BY <1>4, <2>1, <3>1, <3>2 DEF EndsWith
  <2> QED
    BY <2>1 DEF EndsWith
<1>5. ASSUME s # <<>>, EndsWith(s, v), Head(s).rw = "write",
             ~ Holds(Tail(s), "write")
      PROVE  Head(s).value = v
  <2>1. ASSUME NEW m \in 1 .. Len(s), m > 1
        PROVE  s[m].rw # "write"
    <3>1. m - 1 \in 1 .. Len(Tail(s)) /\ Tail(s)[m - 1] = s[m]
      BY <1>5, <2>1, TailFacts
    <3> QED
      BY <1>5, <3>1 DEF Holds
  <2>2. 1 \in 1 .. Len(s) /\ Head(s) = s[1]
    BY <1>5, TailFacts
  <2> QED
    BY <1>5, <2>1, <2>2 DEF EndsWith
<1>6. Carries(s, v) /\ (f.rw = "write" => f.value = v)
      => Carries(Append(s, f), v)
  BY <1>1 DEF Carries
<1>7. ASSUME s # <<>>, Carries(s, v)
      PROVE  /\ Carries(Tail(s), v)
             /\ Head(s).rw = "write" => Head(s).value = v
  BY <1>7, TailFacts DEF Carries
<1>8. ~ Holds(s, "write") => Carries(s, v)
  BY DEF Holds, Carries
<1> QED
  BY <1>2, <1>3, <1>4, <1>5, <1>6, <1>7, <1>8

\* Once no write is on its way the register holds the newest one, if it was
\* not lost.
LineAgrees(a) ==
    /\ EndsWith(line[a], newest[a])
    /\ a \notin lost /\ ~ Holds(line[a], "write") => device[a] = newest[a]

\* Without an older write under way every echo stands for the newest one.
EchoAgrees(a) ==
    <<a, "write">> \notin stale =>
        /\ Carries(line[a], newest[a])
        /\ Holds(answers[a], "write") => device[a] = newest[a]

\* With echoes on the register holds what was sent last.
Confirmed(a) ==
    waitEcho /\ <<a, "write">> \notin stale => device[a] = newest[a]

\* Nothing the line does by itself changes any of that.
LEMMA LineStep ==
    ASSUME LineTypeOK, NEW a \in Addresses, NEW b \in Addresses,
           Serve(a) \/ LoseRequest(a) \/ Leave(a),
           LineAgrees(b), EchoAgrees(b), UNCHANGED <<stale, waitEcho>>
    PROVE  /\ LineAgrees(b)' /\ EchoAgrees(b)'
           /\ Confirmed(b) => Confirmed(b)'
           /\ UNCHANGED newest
<1>0. /\ line[b] \in Seq(Frame) /\ answers[b] \in Seq(Frame)
      /\ newest' = newest
  BY DEF LineTypeOK, Serve, LoseRequest, Leave
<1>1. CASE a # b
  <2>1. /\ line'[b] = line[b] /\ answers'[b] = answers[b]
        /\ device'[b] = device[b]
        /\ b \in lost' <=> b \in lost
    BY <1>1 DEF LineTypeOK, Serve, LoseRequest, Leave
  <2> QED
    BY <1>0, <2>1 DEF LineAgrees, EchoAgrees, Confirmed
<1>2. CASE a = b /\ Serve(a)
  <2> DEFINE f == Head(line[a])
             v == IF f.rw = "write" THEN f.value ELSE device[a]
             g == [rw |-> f.rw, value |-> v]
  <2>1. /\ line[a] # <<>> /\ line'[a] = Tail(line[a]) /\ device'[a] = v
        /\ answers'[a] = Append(answers[a], g) /\ lost' = lost
    BY <1>2 DEF Serve, LineTypeOK
  <2>2. f \in Frame /\ g \in Frame
    <3>1. f \in Frame
      BY <1>0, <1>2, <2>1, TailFacts
    <3>2. v \in Values
      BY <3>1 DEF Frame, LineTypeOK
    <3> QED
      BY <3>1, <3>2 DEF Frame
  <2>3. Holds(line[a], "write") <=>
            f.rw = "write" \/ Holds(Tail(line[a]), "write")
    BY <1>0, <1>2, <2>1, HoldsTail
  <2>4. Holds(answers'[a], "write") <=>
            Holds(answers[a], "write") \/ f.rw = "write"
    BY <1>0, <1>2, <2>1, <2>2, HoldsAppend
  <2>5. /\ EndsWith(Tail(line[a]), newest[a])
        /\ f.rw = "write" /\ ~ Holds(Tail(line[a]), "write")
               => f.value = newest[a]
    BY <1>0, <1>2, <2>1, <2>2, SequenceFacts DEF LineAgrees
  <2>6. LineAgrees(a)'
    BY <1>0, <1>2, <2>1, <2>3, <2>5 DEF LineAgrees
  <2>7. ASSUME <<a, "write">> \notin stale
        PROVE  /\ Carries(Tail(line[a]), newest[a])
               /\ f.rw = "write" => f.value = newest[a]
    BY <1>0, <1>2, <2>1, <2>2, <2>7, SequenceFacts DEF EchoAgrees
  <2>8. EchoAgrees(a)'
    BY <1>0, <1>2, <2>1, <2>4, <2>7 DEF EchoAgrees
  <2>9. Confirmed(a) => Confirmed(a)'
    BY <1>0, <2>1, <2>7 DEF Confirmed
  <2> QED
    BY <1>0, <1>2, <2>6, <2>8, <2>9
<1>3. CASE a = b /\ LoseRequest(a)
  <2> DEFINE f == Head(line[a])
  <2>1. /\ line[a] # <<>> /\ line'[a] = Tail(line[a]) /\ device' = device
        /\ answers' = answers
        /\ lost' = IF f.rw = "write" /\ ~ Holds(Tail(line[a]), "write")
                   THEN lost \cup {a} ELSE lost
    BY <1>3 DEF LoseRequest, LineTypeOK
  <2>2. f \in Frame
    BY <1>0, <1>3, <2>1, TailFacts
  <2>3. Holds(line[a], "write") <=>
            f.rw = "write" \/ Holds(Tail(line[a]), "write")
    BY <1>0, <1>3, <2>1, HoldsTail
  <2>4. /\ EndsWith(Tail(line[a]), newest[a])
        /\ <<a, "write">> \notin stale => Carries(Tail(line[a]), newest[a])
    BY <1>0, <1>3, <2>1, <2>2, SequenceFacts DEF LineAgrees, EchoAgrees
  <2> QED
    BY <1>0, <1>3, <2>1, <2>3, <2>4 DEF LineAgrees, EchoAgrees, Confirmed
<1>4. CASE a = b /\ Leave(a)
  <2>1. /\ answers[a] # <<>> /\ answers'[a] = Tail(answers[a])
        /\ UNCHANGED <<line, device, lost>>
    BY <1>4 DEF Leave, LineTypeOK
  <2>2. Holds(answers'[a], "write") => Holds(answers[a], "write")
    BY <1>0, <1>4, <2>1, HoldsTail
  <2> QED
    BY <1>0, <1>4, <2>1, <2>2 DEF LineAgrees, EchoAgrees, Confirmed
<1> QED
  BY <1>1, <1>2, <1>3, <1>4

\* A transmission is the newest one of its register; for the others, and
\* for the same value again, it changes nothing.
LEMMA TransmitStep ==
    ASSUME LineTypeOK, NEW a \in Addresses, NEW b \in Addresses,
           NEW rw \in Directions, NEW v \in Values, Transmit(a, rw, v),
           LineAgrees(b)
    PROVE  /\ LineAgrees(b)'
           /\ newest'[b] = IF rw = "write" /\ a = b THEN v ELSE newest[b]
           /\ (a = b /\ rw = "write" => newest[a] = v) => newest'[b] = newest[b]
           /\ /\ <<b, "write">> \in stale' <=> <<b, "write">> \in stale
              /\ a = b /\ rw = "write" => newest[a] = v
              /\ UNCHANGED waitEcho
              => /\ EchoAgrees(b) => EchoAgrees(b)'
                 /\ Confirmed(b) => Confirmed(b)'
<1> DEFINE f == [rw |-> rw, value |-> v]
<1>1. /\ line[b] \in Seq(Frame) /\ f \in Frame /\ f.rw = rw /\ f.value = v
      /\ UNCHANGED <<answers, device>>
  BY DEF LineTypeOK, Frame, Transmit
<1>2. newest'[b] = IF rw = "write" /\ a = b THEN v ELSE newest[b]
  BY DEF Transmit, LineTypeOK
<1>3. CASE a # b
  <2>1. /\ line'[b] = line[b] /\ newest'[b] = newest[b]
        /\ b \in lost' <=> b \in lost
    BY <1>3 DEF Transmit, LineTypeOK
  <2> QED
    BY <1>1, <1>2, <1>3, <2>1 DEF LineAgrees, EchoAgrees, Confirmed
<1>4. CASE a = b
  <2>1. line'[a] = Append(line[a], f)
    BY DEF Transmit, LineTypeOK
  <2>2. Holds(line'[a], "write") <=> Holds(line[a], "write") \/ rw = "write"
    BY <1>1, <1>4, <2>1, HoldsAppend
  <2>3. EndsWith(line'[a], newest'[a])
    BY <1>1, <1>2, <1>4, <2>1, SequenceFacts DEF LineAgrees
  <2>4. rw # "write" => lost' = lost
    BY DEF Transmit
  <2>5. LineAgrees(a)'
    BY <1>1, <1>2, <1>4, <2>2, <2>3, <2>4 DEF LineAgrees
  <2>6. ASSUME rw = "write" => newest[a] = v, Carries(line[a], newest[a])
        PROVE  Carries(line'[a], newest'[a])
    BY <1>1, <1>2, <1>4, <2>1, <2>6, SequenceFacts
  <2> QED
    BY <1>1, <1>2, <1>4, <2>5, <2>6 DEF EchoAgrees, Confirmed
<1> QED
  BY <1>3, <1>4

\* The first transmission of a write on a line free of older ones.
LEMMA BegunStep ==
    ASSUME LineTypeOK, NEW a \in Addresses, NEW b \in Addresses,
           NEW rw \in Directions, NEW v \in Values, Begun(a, rw, v),
           LineAgrees(b), EchoAgrees(b), UNCHANGED waitEcho
    PROVE  /\ LineAgrees(b)' /\ EchoAgrees(b)'
           /\ newest'[b] = IF rw = "write" /\ a = b THEN v ELSE newest[b]
           /\ (a # b \/ rw # "write") /\ Confirmed(b) => Confirmed(b)'
<1>1. Transmit(a, rw, v)
  BY DEF Begun
<1>2. CASE a # b \/ rw # "write"
  <2>1. <<b, "write">> \in stale' <=> <<b, "write">> \in stale
    BY <1>2 DEF Begun
  <2> QED
    BY <1>1, <1>2, <2>1, TransmitStep
<1>3. CASE a = b /\ rw = "write"
  <2>1. LineAgrees(b)' /\ newest'[b] = v
    BY <1>1, <1>3, TransmitStep
  <2>2. ASSUME <<b, "write">> \notin stale'
        PROVE  /\ Carries(line'[b], newest'[b])
               /\ ~ Holds(answers'[b], "write")
    <3>1. ~ Holds(line[b], "write") /\ ~ Holds(answers[b], "write")
      BY <1>3, <2>2 DEF Begun, OnTheWay
    <3>2. /\ line'[b] = Append(line[b], [rw |-> rw, value |-> v])
          /\ answers' = answers /\ line[b] \in Seq(Frame)
          /\ [rw |-> rw, value |-> v] \in Frame
      BY <1>1, <1>3 DEF Transmit, LineTypeOK, Frame
    <3>3. Carries(line'[b], v)
      BY <3>1, <3>2, SequenceFacts
    <3> QED
      BY <2>1, <3>1, <3>2, <3>3
  <2> QED
    BY <1>3, <2>1, <2>2 DEF EchoAgrees
<1> QED
  BY <1>2, <1>3

-----------------------------------------------------------------------------
(* The cache and the gripper agree                                         *)

\* What a flush has still to send is exactly what is pending, and what it
\* waits for is the echo of the newest value of a pending key.
FlowInv ==
    /\ pc = "flush" => todo = pending
    /\ pc = "resume" => pending = {}
    /\ pc = "wait" /\ request.rw = "read" => pending = {} /\ request.value = 0
    /\ pc = "wait" /\ request.rw = "write" =>
           LET k == request.address[2]
           IN  /\ waitEcho /\ todo = pending /\ k \in pending
               /\ request.address = <<id[k], k>>
               /\ request.value = pendingValue[k]
               /\ newest[request.address] = pendingValue[k]

LineInv == \A a \in Addresses : LineAgrees(a) /\ EchoAgrees(a)

\* A key that was sent and is not pending.
Clean(k) ==
    k \notin pending /\ sentAt[k] # 0
        => newest[<<id[k], k>>] = lastSent[k] /\ Confirmed(<<id[k], k>>)

\* Inductive.
CoherenceInv == FlowInv /\ LineInv /\ \A k \in Keys : Clean(k)

\* write_register keeps the invariant: it sends nothing.
LEMMA WriteCoherent ==
    ASSUME TypeOK, CoherenceInv, WriteRegister
    PROVE  CoherenceInv'
<1>1. PICK i \in Ids, k \in Keys, v \in Values :
          \/ WriteSkipped(i, k, v) \/ WriteRefreshed(i, k, v)
          \/ WriteReplaced(i, k, v) \/ WriteExpired(i, k, v)
          \/ WriteDeferred(i, k, v)
  BY DEF WriteRegister
<1>2. InitEntry(i, k) /\ pc = "idle"
  BY <1>1
     DEF WriteSkipped, WriteRefreshed, WriteReplaced, WriteExpired,
         WriteDeferred, Begin
<1>3. /\ UNCHANGED <<lastSent, sentAt>> /\ pending \subseteq pending'
      /\ UNCHANGED <<lineVars, linkVars, transactVars>>
  BY <1>1
     DEF WriteSkipped, WriteRefreshed, WriteReplaced, WriteExpired,
         WriteDeferred, SkipOrDefer, Defer, Quick, StartFlush
<1>4. UNCHANGED <<line, answers, device, newest, lost, stale, waitEcho>>
  BY <1>3 DEF lineVars, linkVars, transactVars
<1>5. \A j \in Keys : sentAt[j] # 0 => id'[j] = id[j]
  BY <1>2 DEF InitEntry, TypeOK
<1>6. pc' = "idle" \/ (pc' = "flush" /\ todo' = pending')
  BY <1>1, <1>2
     DEF WriteSkipped, WriteRefreshed, WriteReplaced, WriteExpired,
         WriteDeferred, Quick, StartFlush, flushVars
<1>7. LineInv'
  BY <1>4 DEF CoherenceInv, LineInv, LineAgrees, EchoAgrees, Addresses
<1>8. \A j \in Keys : Clean(j)'
  BY <1>3, <1>4, <1>5 DEF CoherenceInv, Clean, Confirmed
<1> QED
  BY <1>6, <1>7, <1>8 DEF CoherenceInv, FlowInv

\* An echo that ends a wait shows that the register holds the newest value.
LEMMA EchoConfirms ==
    ASSUME TypeOK, CoherenceInv, WriteConfirmed
    PROVE  LET a == request.address
               k == request.address[2]
           IN  /\ waitEcho /\ todo = pending /\ k \in pending
               /\ a = <<id[k], k>> /\ newest[a] = pendingValue[k]
               /\ k \in Keys /\ a \in Addresses /\ Confirmed(a)
               /\ Leave(a) /\ Sent(k) /\ pc' = "flush"
               /\ newest' = newest
               /\ UNCHANGED <<waitEcho, stale, wanted>>
<1> DEFINE a == request.address
           k == request.address[2]
<1>1. /\ pc = "wait" /\ request.rw = "write" /\ answers[a] # <<>>
      /\ Head(answers[a]).rw = "write" /\ Leave(a) /\ Sent(k)
      /\ pc' = "flush" /\ UNCHANGED <<waitEcho, stale, wanted>>
  BY DEF WriteConfirmed, Answered, Answers, Settled, linkVars
<1>2. /\ waitEcho /\ todo = pending /\ k \in pending /\ a = <<id[k], k>>
      /\ newest[a] = pendingValue[k] /\ k \in Keys /\ a \in Addresses
  BY <1>1, AddressFacts DEF CoherenceInv, FlowInv, TypeOK, Request
<1>3. Confirmed(a)
  <2>1. answers[a] \in Seq(Frame)
    BY <1>2 DEF TypeOK, LineTypeOK
  <2>2. Holds(answers[a], "write")
    BY <1>1, <2>1, HoldsTail
  <2> QED
    BY <1>2, <2>2 DEF CoherenceInv, LineInv, EchoAgrees, Confirmed
<1>4. newest' = newest
  BY <1>1 DEF Leave
<1> QED
  BY <1>1, <1>2, <1>3, <1>4

\* A confirmed write, or one sent without waiting, leaves its key clean; one
\* that throws leaves it pending.
LEMMA FlushCoherent ==
    ASSUME TypeOK, CoherenceInv,
           FlushSend \/ WriteConfirmed \/ FlushFails \/ FlushDone
    PROVE  CoherenceInv'
<1>0. /\ \A j \in Keys : <<id[j], j>> \in Addresses
      /\ LineTypeOK
  BY AddressFacts DEF TypeOK
<1>1. CASE FlushSend
  <2>1. PICK k \in todo :
            /\ pc = "flush"
            /\ Begun(<<id[k], k>>, "write", pendingValue[k])
            /\ IF waitEcho
               THEN /\ Await(<<id[k], k>>, "write", pendingValue[k])
                    /\ UNCHANGED <<cacheVars, todo>>
               ELSE Sent(k) /\ UNCHANGED <<pc, request, attempt>>
            /\ UNCHANGED linkVars
    BY <1>1 DEF FlushSend
  <2>2. /\ k \in Keys /\ k \in pending /\ pendingValue[k] \in Values
        /\ <<id[k], k>> \in Addresses /\ "write" \in Directions
        /\ todo = pending /\ waitEcho' = waitEcho
    BY <1>0, <2>1 DEF TypeOK, Directions, CoherenceInv, FlowInv, linkVars
  <2>3. /\ LineInv'
        /\ \A j \in Keys :
               /\ newest'[<<id[j], j>>] = IF j = k THEN pendingValue[k]
                                          ELSE newest[<<id[j], j>>]
               /\ j # k /\ Confirmed(<<id[j], j>>) => Confirmed(<<id[j], j>>)'
    <3>1. ASSUME NEW b \in Addresses
          PROVE  /\ LineAgrees(b)' /\ EchoAgrees(b)'
                 /\ newest'[b] = IF <<id[k], k>> = b THEN pendingValue[k]
                                 ELSE newest[b]
                 /\ <<id[k], k>> # b /\ Confirmed(b) => Confirmed(b)'
      BY <1>0, <2>1, <2>2, BegunStep DEF CoherenceInv, LineInv
    <3>2. LineInv'
      BY <3>1 DEF LineInv, Addresses
    <3>3. ASSUME NEW j \in Keys
          PROVE  <<id[j], j>> \in Addresses
                 /\ (<<id[k], k>> = <<id[j], j>> <=> j = k)
      BY <1>0, <2>2
    <3>4. ASSUME NEW j \in Keys
          PROVE  newest'[<<id[j], j>>] = IF j = k THEN pendingValue[k]
                                         ELSE newest[<<id[j], j>>]
      BY <3>1, <3>3
    <3>5. ASSUME NEW j \in Keys, j # k, Confirmed(<<id[j], j>>)
          PROVE  Confirmed(<<id[j], j>>)'
      <4>1. ASSUME NEW b \in Addresses, <<id[k], k>> # b, Confirmed(b),
                   id' = id
            PROVE  Confirmed(b)'
        BY <3>1, <4>1
      <4>2. id' = id
        BY <2>1 DEF Sent, cacheVars
      <4> QED
        BY <3>3, <3>5, <4>1, <4>2
    <3> QED
      BY <3>2, <3>4, <3>5
  <2>4. CASE waitEcho
    <3>1. /\ UNCHANGED <<id, lastSent, sentAt, pending, pendingValue, todo>>
          /\ pc' = "wait"
          /\ request' = [address |-> <<id[k], k>>, rw |-> "write",
                         value |-> pendingValue[k]]
      BY <2>1, <2>4 DEF Await, cacheVars
    <3>2. FlowInv'
      BY <2>2, <2>3, <2>4, <3>1 DEF FlowInv
    <3>3. \A j \in Keys : Clean(j)'
      BY <2>2, <2>3, <3>1 DEF CoherenceInv, Clean
    <3> QED
      BY <2>3, <3>2, <3>3 DEF CoherenceInv
  <2>5. CASE ~ waitEcho
    <3>1. /\ UNCHANGED <<id, pc>> /\ pending' = pending \ {k}
          /\ todo' = todo \ {k}
          /\ lastSent' = [lastSent EXCEPT ![k] = pendingValue[k]]
          /\ sentAt' = [sentAt EXCEPT ![k] = now]
      BY <2>1, <2>5 DEF Sent
    <3>2. FlowInv'
      BY <2>1, <2>2, <3>1 DEF FlowInv
    <3>3. ASSUME NEW j \in Keys
          PROVE  Clean(j)'
      <4>1. CASE j = k
        BY <2>2, <2>3, <2>5, <3>1, <4>1 DEF Clean, Confirmed, TypeOK
      <4>2. CASE j # k
        <5>1. /\ lastSent'[j] = lastSent[j] /\ sentAt'[j] = sentAt[j]
              /\ newest'[<<id[j], j>>] = newest[<<id[j], j>>]
              /\ Clean(j)
          BY <2>2, <2>3, <3>1, <4>2 DEF TypeOK, CoherenceInv
        <5> QED
          BY <2>2, <2>3, <2>5, <3>1, <4>2, <5>1 DEF Clean, Confirmed
      <4> QED
        BY <4>1, <4>2
    <3> QED
      BY <2>3, <3>2, <3>3 DEF CoherenceInv
  <2> QED
    BY <2>4, <2>5
<1>2. CASE WriteConfirmed
  <2> DEFINE a == request.address
             k == request.address[2]
  <2>1. Leave(a) /\ Sent(k) /\ pc' = "flush" /\ UNCHANGED <<waitEcho, stale>>
    BY <1>2, EchoConfirms
  <2>2. /\ waitEcho /\ todo = pending /\ k \in pending /\ a = <<id[k], k>>
        /\ newest[a] = pendingValue[k] /\ k \in Keys /\ a \in Addresses
    BY <1>2, EchoConfirms
  <2>3. Confirmed(a)
    BY <1>2, EchoConfirms
  <2>4. /\ LineInv' /\ newest' = newest
        /\ \A b \in Addresses : Confirmed(b) => Confirmed(b)'
    <3>1. ASSUME NEW b \in Addresses
          PROVE  /\ LineAgrees(b)' /\ EchoAgrees(b)' /\ newest' = newest
                 /\ Confirmed(b) => Confirmed(b)'
      BY <1>0, <2>1, <2>2, LineStep DEF CoherenceInv, LineInv
    <3>2. newest' = newest
      BY <2>1 DEF Leave
    <3> QED
      BY <3>1, <3>2 DEF LineInv, Addresses
  <2>5. /\ id' = id /\ pending' = pending \ {k} /\ todo' = todo \ {k}
        /\ lastSent' = [lastSent EXCEPT ![k] = pendingValue[k]]
        /\ sentAt' = [sentAt EXCEPT ![k] = now]
    BY <2>1 DEF Sent
  <2>6. ASSUME NEW j \in Keys
        PROVE  Clean(j)'
    <3>1. Confirmed(<<id[j], j>>) => Confirmed(<<id[j], j>>)'
      <4>1. ASSUME NEW b \in Addresses, id' = id, b = <<id[j], j>>,
                   Confirmed(b)
            PROVE  Confirmed(<<id[j], j>>)'
        BY <2>4, <4>1 DEF Confirmed
      <4> QED
        BY <1>0, <2>5, <4>1
    <3>2. CASE j = k
      BY <2>2, <2>3, <2>4, <2>5, <3>1, <3>2 DEF Clean, TypeOK
    <3>3. CASE j # k
      <4>1. /\ lastSent'[j] = lastSent[j] /\ sentAt'[j] = sentAt[j]
            /\ Clean(j)
        BY <2>2, <2>5, <3>3 DEF TypeOK, CoherenceInv
      <4> QED
        BY <2>4, <2>5, <3>1, <3>3, <4>1 DEF Clean
    <3> QED
      BY <3>2, <3>3
  <2>7. FlowInv'
    BY <2>1, <2>2, <2>5 DEF FlowInv
  <2> QED
    BY <2>4, <2>6, <2>7 DEF CoherenceInv
<1>3. CASE FlushFails
  <2>1. /\ pc' = "idle" /\ pending' = pending
        /\ UNCHANGED <<id, lastSent, sentAt, line, answers, device, newest,
                       lost, waitEcho, stale>>
    BY <1>3 DEF FlushFails, Fails, Over, Settled, KeptPending, lineVars,
                linkVars
  <2> QED
    BY <2>1
       DEF CoherenceInv, FlowInv, LineInv, LineAgrees, EchoAgrees, Clean,
           Confirmed, Addresses
<1>4. CASE FlushDone
  <2>1. /\ pc' = "idle" \/ (pc' = "resume" /\ pending' = {})
        /\ UNCHANGED <<id, lastSent, sentAt, pending, line, answers, device,
                       newest, lost, waitEcho, stale>>
    BY <1>4
       DEF FlushDone, Over, CoherenceInv, FlowInv, lineVars, linkVars,
           cacheVars, transactVars
  <2> QED
    BY <2>1
       DEF CoherenceInv, FlowInv, LineInv, LineAgrees, EchoAgrees, Clean,
           Confirmed, Addresses
<1> QED
  BY <1>1, <1>2, <1>3, <1>4

\* The steps that send no write for the first time, and no more of a key's
\* value than was sent before.
QuietStep ==
    \/ Resend \/ IgnoreAnswer \/ ServeRequest \/ LoseFrame \/ Tick
    \/ WriteResumed \/ ReadAnyRegister \/ ReadSend \/ ReadReturns \/ ReadFails
    \/ Flush \/ Disconnect \/ DisconnectResumed \/ Connect \/ UNCHANGED vars

\* They leave the newest value of every register and, if the gripper had it,
\* let it have it.
LEMMA QuietLine ==
    ASSUME TypeOK, CoherenceInv, QuietStep, NEW b \in Addresses
    PROVE  /\ LineAgrees(b)' /\ EchoAgrees(b)'
           /\ newest'[b] = newest[b]
           /\ Confirmed(b) => Confirmed(b)'
<1>0. /\ LineTypeOK /\ 0 \in Values /\ "read" \in Directions
      /\ call.address \in Addresses /\ request.address \in Addresses
      /\ LineAgrees(b) /\ EchoAgrees(b)
  BY DataAssumption
     DEF TypeOK, Call, Request, Directions, CoherenceInv, LineInv
<1>1. UNCHANGED waitEcho
  BY DEF QuietStep, Resend, IgnoreAnswer, ServeRequest, LoseFrame, Tick,
         WriteResumed, ReadAnyRegister, ReadRegister, ReadSend, ReadReturns,
         ReadFails, Flush, Disconnect, DisconnectResumed, Connect,
         StartFlush, vars, linkVars
<1>2. CASE Resend
  <2>1. /\ request.rw \in Directions /\ request.value \in Values
        /\ Transmit(request.address, request.rw, request.value)
        /\ UNCHANGED stale
    BY <1>2 DEF Resend, TypeOK, Request
  <2>2. request.rw = "write" => newest[request.address] = request.value
    BY <1>2 DEF Resend, TimesOut, CoherenceInv, FlowInv
  <2> QED
    BY <1>0, <1>1, <2>1, <2>2, TransmitStep
<1>3. CASE IgnoreAnswer \/ ServeRequest \/ LoseFrame \/ ReadReturns
  <2>1. PICK a \in Addresses : Serve(a) \/ LoseRequest(a) \/ Leave(a)
    BY <1>0, <1>3
       DEF IgnoreAnswer, ServeRequest, LoseFrame, ReadReturns, Answered
  <2>2. UNCHANGED stale
    BY <1>3
       DEF IgnoreAnswer, ServeRequest, LoseFrame, ReadReturns, Answered,
           Settled, transactVars
  <2> QED
    BY <1>0, <1>1, <2>1, <2>2, LineStep
<1>4. CASE ReadSend
  <2>1. Begun(call.address, "read", 0)
    BY <1>4 DEF ReadSend
  <2> QED
    BY <1>0, <1>1, <2>1, BegunStep
<1>5. CASE \/ Tick \/ WriteResumed \/ ReadAnyRegister \/ ReadFails \/ Flush
           \/ Disconnect \/ DisconnectResumed \/ Connect \/ UNCHANGED vars
  <2>1. UNCHANGED <<lineVars, stale>>
    BY <1>5
       DEF Tick, WriteResumed, ReadAnyRegister, ReadRegister, ReadFails,
           Settled, Flush, Disconnect, DisconnectResumed, Connect,
           StartFlush, vars, transactVars
  <2> QED
    BY <1>0, <1>1, <2>1 DEF lineVars, LineAgrees, EchoAgrees, Confirmed
<1> QED
  BY <1>2, <1>3, <1>4, <1>5 DEF QuietStep

\* So they keep every key as it is, but for one that a deferral makes pending.
LEMMA QuietCoherent ==
    ASSUME TypeOK, CoherenceInv, QuietStep
    PROVE  CoherenceInv'
<1>0. /\ \A j \in Keys : <<id[j], j>> \in Addresses
      /\ request.address \in Addresses
      /\ UNCHANGED <<id, lastSent, sentAt, waitEcho>>
      /\ pending \subseteq pending'
  BY AddressFacts
     DEF TypeOK, Request, QuietStep, Resend, IgnoreAnswer, ServeRequest,
         LoseFrame, Tick, WriteResumed, SkipOrDefer, Defer, ReadAnyRegister,
         ReadRegister, ReadSend, ReadReturns, ReadFails, Flush, Disconnect,
         DisconnectResumed, Connect, StartFlush, vars, cacheVars, linkVars
<1>1. LineInv'
  BY QuietLine DEF LineInv, Addresses
<1>2. ASSUME NEW j \in Keys
      PROVE  Clean(j)'
  <2>1. ASSUME NEW b \in Addresses, b = <<id[j], j>>, Confirmed(b)
        PROVE  Confirmed(<<id[j], j>>)'
    BY <1>0, <2>1, QuietLine DEF Confirmed
  <2> QED
    BY <1>0, <2>1, QuietLine DEF CoherenceInv, Clean
<1>3. CASE ReadAnyRegister \/ Flush \/ Disconnect
  <2>1. pc' = "flush" /\ todo' = pending /\ pending' = pending
    BY <1>3
       DEF ReadAnyRegister, ReadRegister, Flush, Disconnect, StartFlush,
           cacheVars
  <2> QED
    BY <1>1, <1>2, <2>1 DEF CoherenceInv, FlowInv
<1>4. CASE WriteResumed \/ DisconnectResumed \/ ReadFails \/ ReadReturns
  <2>1. pc' = "idle"
    BY <1>4 DEF WriteResumed, DisconnectResumed, ReadFails, ReadReturns,
                Fails, Over
  <2> QED
    BY <1>1, <1>2, <2>1 DEF CoherenceInv, FlowInv
<1>5. CASE ReadSend
  <2>1. /\ pc = "resume" /\ pc' = "wait" /\ pending' = pending
        /\ request' = [address |-> call.address, rw |-> "read", value |-> 0]
    BY <1>5 DEF ReadSend, Await, cacheVars
  <2> QED
    BY <1>1, <1>2, <2>1 DEF CoherenceInv, FlowInv
<1>6. CASE \/ Resend \/ IgnoreAnswer \/ ServeRequest \/ LoseFrame \/ Tick
           \/ Connect \/ UNCHANGED vars
  <2>1. UNCHANGED <<pc, todo, request, pending, pendingValue>>
    BY <1>6
       DEF Resend, IgnoreAnswer, ServeRequest, LoseFrame, Tick, Connect,
           Begin, vars, cacheVars, flushVars, transactVars
  <2>2. newest'[request.address] = newest[request.address]
    BY <1>0, QuietLine
  <2> QED
    BY <1>0, <1>1, <1>2, <2>1, <2>2 DEF CoherenceInv, FlowInv
<1> QED
  BY <1>3, <1>4, <1>5, <1>6 DEF QuietStep

\* CoherenceInv holds throughout.
LEMMA CoherenceHolds == Spec => []CoherenceInv
<1>1. ASSUME Init PROVE CoherenceInv
  <2>1. \A a \in Addresses : /\ line[a] = <<>> /\ answers[a] = <<>>
                             /\ device[a] = newest[a]
    BY <1>1 DEF Init, LineInit
  <2>2. LineInv
    BY <2>1 DEF LineInv, LineAgrees, EchoAgrees, EndsWith, Carries, Holds
  <2>3. FlowInv /\ \A k \in Keys : Clean(k)
    BY <1>1 DEF Init, FlowInv, Clean
  <2> QED
    BY <2>2, <2>3 DEF CoherenceInv
<1>2. ASSUME TypeOK, CoherenceInv, [Next]_vars
      PROVE  CoherenceInv'
  BY <1>2, WriteCoherent, FlushCoherent, QuietCoherent DEF Next, QuietStep
<1> QED
  BY <1>1, <1>2, TypeCorrect, PTL DEF Spec

\* What was sent last and is confirmed was delivered.
LEMMA DeliveredFacts ==
    ASSUME LineInv, NEW a \in Addresses, NEW v, newest[a] = v, Confirmed(a)
    PROVE  Delivered(a, v)
BY DEF LineInv, LineAgrees, Confirmed, Delivered

\* What the cache takes for sent was delivered, whatever was lost, repeated
\* or late before, but for the cases Delivered names.
THEOREM CacheIsCoherent == Spec => []CacheCoherent
<1>1. ASSUME TypeOK, CoherenceInv
      PROVE  CacheCoherent
  <2>1. \A k \in Keys : <<id[k], k>> \in Addresses
    BY <1>1, AddressFacts DEF TypeOK
  <2> QED
    BY <1>1, <2>1, DeliveredFacts DEF CoherenceInv, Clean, CacheCoherent
<1> QED
  BY <1>1, TypeCorrect, CoherenceHolds, PTL

-----------------------------------------------------------------------------
(* No accepted write is forgotten                                          *)

\* Inductive, with one gripper: the value pending for a register is the one
\* accepted last; with nothing pending it is what was sent last and what the
\* cache thinks was, from the first send on or, if the register started as
\* the cache thinks it did, from the beginning.
Kept(i, k) ==
    IF k \in pending
    THEN pendingValue[k] = wanted[<<i, k>>]
    ELSE sentAt[k] # 0 \/ CacheStartsTrue
             => /\ newest[<<i, k>>] = wanted[<<i, k>>]
                /\ lastSent[k] = wanted[<<i, k>>]
                /\ Confirmed(<<i, k>>)

BufferInv ==
    OneGripper => \A i \in Ids, k \in Keys : Kept(i, k)

\* A write that was accepted without being sent leaves its register kept.
LEMMA AcceptKeeps ==
    ASSUME TypeOK, BufferInv, OneGripper,
           NEW i \in Ids, NEW k \in Keys, NEW v \in Values,
           Accept(i, k, v),
           UNCHANGED <<lastSent, sentAt, device, newest, stale, waitEcho>>,
           \/ /\ k \notin pending /\ lastSent[k] = v
              /\ UNCHANGED <<pending, pendingValue>>
           \/ /\ pending' = pending \cup {k}
              /\ pendingValue' = [pendingValue EXCEPT ![k] = v]
           \/ /\ k \in pending /\ pendingValue[k] = v
              /\ UNCHANGED <<pending, pendingValue>>
    PROVE  BufferInv'
<1>1. wanted' = [wanted EXCEPT ![<<i, k>>] = v]
  BY DEF Accept
<1>2. ASSUME NEW h \in Ids, NEW j \in Keys
      PROVE  Kept(h, j)'
  <2>0. h = i /\ <<i, k>> \in Addresses /\ <<h, j>> \in Addresses
    BY AddressFacts DEF OneGripper
  <2>1. Kept(h, j)
    BY DEF BufferInv
  <2>2. Confirmed(<<h, j>>) => Confirmed(<<h, j>>)'
    BY DEF Confirmed
  <2>3. CASE j = k
    <3>1. wanted'[<<h, j>>] = v
      BY <1>1, <2>0, <2>3 DEF TypeOK
    <3> QED
      BY <2>0, <2>1, <2>2, <2>3, <3>1 DEF Kept, TypeOK, CacheStartsTrue
  <2>4. CASE j # k
    <3>1. wanted'[<<h, j>>] = wanted[<<h, j>>]
      BY <1>1, <2>0, <2>4 DEF TypeOK
    <3>2. /\ j \in pending' <=> j \in pending
          /\ pendingValue'[j] = pendingValue[j]
      BY <2>4 DEF TypeOK
    <3> QED
      BY <2>1, <2>2, <3>1, <3>2 DEF Kept, CacheStartsTrue
  <2> QED
    BY <2>3, <2>4
<1> QED
  BY <1>2 DEF BufferInv, OneGripper

\* write_register keeps every register.
LEMMA WriteKeeps ==
    ASSUME TypeOK, CoherenceInv, BufferInv, WriteRegister \/ WriteResumed
    PROVE  BufferInv'
<1> SUFFICES ASSUME OneGripper PROVE BufferInv'
  BY DEF BufferInv
<1>1. CASE WriteRegister
  <2>1. PICK i \in Ids, k \in Keys, v \in Values :
            \/ WriteSkipped(i, k, v) \/ WriteRefreshed(i, k, v)
            \/ WriteReplaced(i, k, v) \/ WriteExpired(i, k, v)
            \/ WriteDeferred(i, k, v)
    BY <1>1 DEF WriteRegister
  <2>2. CASE WriteExpired(i, k, v)
    BY <2>2
       DEF WriteExpired, StartFlush, BufferInv, Kept, OneGripper,
           CacheStartsTrue, Confirmed, lineVars, linkVars, transactVars
  <2>3. CASE ~ WriteExpired(i, k, v)
    <3>1. /\ Accept(i, k, v)
          /\ UNCHANGED <<lastSent, sentAt, device, newest, stale, waitEcho>>
      BY <2>1, <2>3
         DEF WriteSkipped, WriteRefreshed, WriteReplaced, WriteDeferred,
             SkipOrDefer, Defer, Quick, lineVars, linkVars, transactVars
    <3>2. \/ /\ k \notin pending /\ lastSent[k] = v
             /\ UNCHANGED <<pending, pendingValue>>
          \/ /\ pending' = pending \cup {k}
             /\ pendingValue' = [pendingValue EXCEPT ![k] = v]
          \/ /\ k \in pending /\ pendingValue[k] = v
             /\ UNCHANGED <<pending, pendingValue>>
      BY <2>1, <2>3
         DEF WriteSkipped, WriteRefreshed, WriteReplaced, WriteDeferred,
             SkipOrDefer, Defer, RecentlySent
    <3> QED
      BY <3>1, <3>2, AcceptKeeps
  <2> QED
    BY <2>2, <2>3
<1>2. CASE WriteResumed
  <2> DEFINE i == call.address[1]
             k == call.address[2]
             v == call.value
  <2>1. i \in Ids /\ k \in Keys /\ v \in Values
    BY AddressFacts DEF TypeOK, Call
  <2>2. /\ Accept(i, k, v)
        /\ UNCHANGED <<lastSent, sentAt, device, newest, stale, waitEcho>>
    BY <1>2
       DEF WriteResumed, SkipOrDefer, Defer, lineVars, linkVars, transactVars
  <2>3. \/ /\ k \notin pending /\ lastSent[k] = v
           /\ UNCHANGED <<pending, pendingValue>>
        \/ /\ pending' = pending \cup {k}
           /\ pendingValue' = [pendingValue EXCEPT ![k] = v]
    BY <1>2
       DEF WriteResumed, SkipOrDefer, Defer, RecentlySent, CoherenceInv,
           FlowInv
  <2> HIDE DEF i, k, v
  <2> QED
    BY <2>1, <2>2, <2>3, AcceptKeeps
<1> QED
  BY <1>1, <1>2

\* A send takes its key out of the pending ones only with the value accepted
\* last on the line or in the gripper; one that throws leaves it there.
LEMMA FlushKeeps ==
    ASSUME TypeOK, CoherenceInv, BufferInv,
           FlushSend \/ WriteConfirmed \/ FlushFails \/ FlushDone
    PROVE  BufferInv'
<1> SUFFICES ASSUME OneGripper, NEW h \in Ids, NEW j \in Keys
             PROVE  Kept(h, j)'
  BY DEF BufferInv
<1>0. Kept(h, j) /\ <<h, j>> \in Addresses /\ LineTypeOK
  BY AddressFacts DEF BufferInv, TypeOK
<1>1. CASE FlushSend
  <2>1. PICK k \in todo :
            /\ pc = "flush"
            /\ Begun(<<id[k], k>>, "write", pendingValue[k])
            /\ IF waitEcho
               THEN UNCHANGED <<cacheVars, todo>>
               ELSE Sent(k)
            /\ UNCHANGED <<linkVars, wanted>>
    BY <1>1 DEF FlushSend
  <2>2. /\ k \in Keys /\ k \in pending /\ id[k] = h
        /\ pendingValue[k] \in Values /\ "write" \in Directions
        /\ <<h, k>> \in Addresses /\ waitEcho' = waitEcho
    BY <2>1, AddressFacts DEF TypeOK, OneGripper, Directions, linkVars
  <2>3. /\ newest'[<<h, j>>] = IF j = k THEN pendingValue[k]
                               ELSE newest[<<h, j>>]
        /\ j # k /\ Confirmed(<<h, j>>) => Confirmed(<<h, j>>)'
    BY <1>0, <2>1, <2>2, BegunStep DEF CoherenceInv, LineInv
  <2>4. CASE waitEcho
    <3>1. UNCHANGED <<lastSent, sentAt, pending, pendingValue, wanted>>
      BY <2>1, <2>4 DEF cacheVars
    <3> QED
      BY <1>0, <2>2, <2>3, <3>1 DEF Kept, CacheStartsTrue
  <2>5. CASE ~ waitEcho
    <3>1. /\ lastSent' = [lastSent EXCEPT ![k] = pendingValue[k]]
          /\ sentAt' = [sentAt EXCEPT ![k] = now]
          /\ pending' = pending \ {k}
          /\ UNCHANGED <<pendingValue, wanted>>
      BY <2>1, <2>5 DEF Sent
    <3>2. CASE j = k
      BY <1>0, <2>2, <2>3, <2>5, <3>1, <3>2 DEF Kept, TypeOK, Confirmed
    <3>3. CASE j # k
      BY <1>0, <2>2, <2>3, <3>1, <3>3 DEF Kept, TypeOK, CacheStartsTrue
    <3> QED
      BY <3>2, <3>3
  <2> QED
    BY <2>4, <2>5
<1>2. CASE WriteConfirmed
  <2> DEFINE k == request.address[2]
  <2>1. /\ request.address = <<h, k>> /\ k \in pending /\ k \in Keys
        /\ newest[<<h, k>>] = pendingValue[k] /\ Confirmed(<<h, k>>)
        /\ Leave(<<h, k>>) /\ Sent(k) /\ newest' = newest
        /\ <<h, k>> \in Addresses /\ UNCHANGED <<waitEcho, stale, wanted>>
    BY <1>2, EchoConfirms DEF OneGripper, TypeOK
  <2>2. Confirmed(<<h, j>>) => Confirmed(<<h, j>>)'
    BY <1>0, <2>1, LineStep DEF CoherenceInv, LineInv
  <2>3. /\ lastSent' = [lastSent EXCEPT ![k] = pendingValue[k]]
        /\ sentAt' = [sentAt EXCEPT ![k] = now]
        /\ pending' = pending \ {k}
        /\ UNCHANGED <<pendingValue, wanted>>
    BY <2>1 DEF Sent
  <2> HIDE DEF k
  <2>4. CASE j = k
    BY <1>0, <2>1, <2>2, <2>3, <2>4 DEF Kept, TypeOK
  <2>5. CASE j # k
    BY <1>0, <2>1, <2>2, <2>3, <2>5 DEF Kept, TypeOK, CacheStartsTrue
  <2> QED
    BY <2>4, <2>5
<1>3. CASE FlushFails \/ FlushDone
  <2>1. UNCHANGED <<lastSent, sentAt, pending, pendingValue, wanted, newest,
                    device, stale, waitEcho>>
    BY <1>3
       DEF FlushFails, FlushDone, KeptPending, Fails, Settled, cacheVars,
           lineVars, linkVars, transactVars
  <2> QED
    BY <1>0, <2>1 DEF Kept, CacheStartsTrue, Confirmed
<1> QED
  BY <1>1, <1>2, <1>3

\* BufferInv holds throughout.
LEMMA BufferHolds == Spec => []BufferInv
<1>1. Init => BufferInv
  <2>1. ASSUME Init, NEW i \in Ids, NEW k \in Keys
        PROVE  Kept(i, k)
    <3>1. <<i, k>> \in Addresses
      BY AddressFacts
    <3>2. /\ device[<<i, k>>] = InitValue /\ wanted[<<i, k>>] = InitValue
          /\ newest[<<i, k>>] = InitValue
          /\ lastSent[k] = 0 /\ sentAt[k] = 0 /\ k \notin pending
      BY <2>1, <3>1 DEF Init, LineInit
    <3> QED
      BY <3>2 DEF Kept, CacheStartsTrue, Confirmed
  <2> QED
    BY <2>1 DEF BufferInv
<1>2. ASSUME TypeOK, CoherenceInv, BufferInv, [Next]_vars
      PROVE  BufferInv'
  <2>1. CASE QuietStep /\ ~ WriteResumed
    <3>1. UNCHANGED <<lastSent, sentAt, pending, pendingValue, wanted>>
      BY <2>1
         DEF QuietStep, Resend, IgnoreAnswer, ServeRequest, LoseFrame, Tick,
             ReadAnyRegister, ReadRegister, ReadSend, ReadReturns, ReadFails,
             Fails, Flush, Disconnect, DisconnectResumed, Connect,
             StartFlush, vars, cacheVars
    <3>2. ASSUME OneGripper, NEW i \in Ids, NEW k \in Keys
          PROVE  Kept(i, k)'
      <4>1. <<i, k>> \in Addresses /\ Kept(i, k)
        BY <1>2, <3>2, AddressFacts DEF BufferInv
      <4> QED
        BY <1>2, <2>1, <3>1, <4>1, QuietLine DEF Kept, CacheStartsTrue
    <3> QED
      BY <3>2 DEF BufferInv, OneGripper
  <2> QED
    BY <1>2, <2>1, WriteKeeps, FlushKeeps DEF Next, QuietStep
<1> QED
  BY <1>1, <1>2, TypeCorrect, CoherenceHolds, PTL DEF Spec

\* Whatever fails, is lost or comes late, the last accepted value of a
\* register is pending or was delivered.
THEOREM NoWriteIsForgotten == Spec => []NoWriteForgotten
<1>1. ASSUME TypeOK, CoherenceInv, BufferInv
      PROVE  NoWriteForgotten
  <2>1. ASSUME OneGripper, NEW i \in Ids, NEW k \in Keys
        PROVE  IF k \in pending
               THEN pendingValue[k] = wanted[<<i, k>>]
               ELSE sentAt[k] # 0 \/ CacheStartsTrue
                        => Delivered(<<i, k>>, wanted[<<i, k>>])
    <3>1. Kept(i, k) /\ <<i, k>> \in Addresses /\ LineInv
      BY <1>1, <2>1, AddressFacts DEF BufferInv, CoherenceInv
    <3> QED
      BY <3>1, DeliveredFacts DEF Kept
  <2> QED
    BY <2>1 DEF NoWriteForgotten
<1> QED
  BY <1>1, TypeCorrect, CoherenceHolds, BufferHolds, PTL

-----------------------------------------------------------------------------
(* The cache is a write buffer                                             *)

\* RegisterBuffer speaks of the same line.
LEMMA SameLine ==
    /\ Buffer!Addresses = Addresses
    /\ UNCHANGED lineVars => UNCHANGED Buffer!lineVars
    /\ Buffer!LineInit <=> LineInit
    /\ \A a \in Addresses :
           /\ Serve(a) => Buffer!Serve(a)
           /\ LoseRequest(a) => Buffer!LoseRequest(a)
           /\ Leave(a) => Buffer!Leave(a)
           /\ \A rw, v : Transmit(a, rw, v) => Buffer!Transmit(a, rw, v)
BY DEF Buffer!Addresses, Addresses, Buffer!lineVars, lineVars,
       Buffer!LineInit, LineInit, Buffer!Serve, Serve, Buffer!LoseRequest,
       LoseRequest, Buffer!Holds, Holds, Buffer!Leave, Leave,
       Buffer!Transmit, Transmit

\* With nothing pending the line has the value accepted last of every
\* register.
LEMMA AllSent ==
    ASSUME BufferInv, OneGripper, CacheStartsTrue, pending = {}
    PROVE  \A b \in Addresses : newest[b] = wanted[b]
<1>1. ASSUME NEW b \in Addresses
      PROVE  newest[b] = wanted[b]
  <2>1. b[1] \in Ids /\ b[2] \in Keys /\ b = <<b[1], b[2]>>
    BY AddressFacts
  <2>2. Kept(b[1], b[2])
    BY <2>1 DEF BufferInv
  <2> QED
    BY <2>1, <2>2 DEF Kept
<1> QED
  BY <1>1

\* A call to write_register is a Put, or nothing yet.
LEMMA WriteRefines ==
    ASSUME TypeOK, WriteRegister \/ WriteResumed
    PROVE  Buffer!Next \/ UNCHANGED Buffer!vars
<1>1. CASE WriteRegister
  <2>1. PICK i \in Ids, k \in Keys, v \in Values :
            \/ WriteSkipped(i, k, v) \/ WriteRefreshed(i, k, v)
            \/ WriteReplaced(i, k, v) \/ WriteExpired(i, k, v)
            \/ WriteDeferred(i, k, v)
    BY <1>1 DEF WriteRegister
  <2>2. CASE WriteExpired(i, k, v)
    BY <2>2, SameLine DEF WriteExpired, StartFlush, Buffer!vars
  <2>3. CASE ~ WriteExpired(i, k, v)
    <3>1. Accept(i, k, v) /\ UNCHANGED lineVars
      BY <2>1, <2>3
         DEF WriteSkipped, WriteRefreshed, WriteReplaced, WriteDeferred,
             Quick
    <3>2. <<i, k>> \in Addresses /\ Buffer!Put(<<i, k>>, v)
      BY <3>1, SameLine, AddressFacts DEF Accept, Ended, Buffer!Put
    <3> QED
      BY <3>2, SameLine DEF Buffer!Next
  <2> QED
    BY <2>2, <2>3
<1>2. CASE WriteResumed
  <2>1. /\ call.address \in Addresses /\ call.value \in Values
        /\ call.address = <<call.address[1], call.address[2]>>
    BY AddressFacts DEF TypeOK, Call
  <2>2. Buffer!Put(call.address, call.value)
    BY <1>2, <2>1, SameLine DEF WriteResumed, Accept, Ended, Buffer!Put
  <2> QED
    BY <2>1, <2>2, SameLine DEF Buffer!Next
<1> QED
  BY <1>1, <1>2

\* Whatever is put on the line is a Send or an Ask.
LEMMA TransmitRefines ==
    ASSUME TypeOK, CoherenceInv, BufferInv, OneGripper, CacheStartsTrue,
           FlushSend \/ Resend \/ ReadSend
    PROVE  Buffer!Next
<1>1. CASE FlushSend
  <2>1. PICK k \in todo :
            /\ Begun(<<id[k], k>>, "write", pendingValue[k])
            /\ UNCHANGED <<wanted, last>>
    BY <1>1 DEF FlushSend
  <2>2. /\ k \in pending /\ <<id[k], k>> \in Addresses
        /\ Kept(id[k], k)
    BY AddressFacts DEF TypeOK, BufferInv
  <2>3. pendingValue[k] = wanted[<<id[k], k>>]
    BY <2>2 DEF Kept
  <2>4. Buffer!Send(<<id[k], k>>)
    BY <2>1, <2>2, <2>3, SameLine DEF Begun, Buffer!Send
  <2> QED
    BY <2>2, <2>4, SameLine DEF Buffer!Next
<1>2. CASE Resend /\ request.rw = "write"
  <2> DEFINE a == request.address
             k == request.address[2]
  <2>1. /\ pc = "wait" /\ Transmit(a, "write", request.value)
        /\ UNCHANGED <<wanted, last>>
    BY <1>2 DEF Resend, TimesOut
  <2>2. /\ k \in pending /\ a = <<id[k], k>> /\ k \in Keys /\ id[k] \in Ids
        /\ request.value = pendingValue[k] /\ a \in Addresses
    BY <1>2, <2>1, AddressFacts DEF CoherenceInv, FlowInv, TypeOK, Request
  <2>3. request.value = wanted[a]
    BY <2>2 DEF BufferInv, Kept
  <2>4. Buffer!Send(a)
    BY <2>1, <2>2, <2>3, SameLine DEF Buffer!Send
  <2> QED
    BY <2>2, <2>4, SameLine DEF Buffer!Next
<1>3. ASSUME NEW a \in Addresses, Transmit(a, "read", 0), pending = {},
             UNCHANGED <<wanted, last>>
      PROVE  Buffer!Next
  <2>1. Buffer!Ask(a)
    BY <1>3, AllSent, SameLine DEF Buffer!Ask
  <2> QED
    BY <2>1, SameLine DEF Buffer!Next
<1>4. CASE Resend /\ request.rw # "write"
  <2>1. /\ request.rw = "read" /\ request.address \in Addresses
        /\ pc = "wait"
    BY <1>4 DEF TypeOK, Request, Directions, Resend, TimesOut
  <2>2. pending = {} /\ request.value = 0
    BY <2>1 DEF CoherenceInv, FlowInv
  <2> QED
    BY <1>3, <1>4, <2>1, <2>2 DEF Resend
<1>5. CASE ReadSend
  <2>1. pending = {} /\ call.address \in Addresses
    BY <1>5 DEF ReadSend, CoherenceInv, FlowInv, TypeOK, Call
  <2> QED
    BY <1>3, <1>5, <2>1 DEF ReadSend, Begun
<1> QED
  BY <1>1, <1>2, <1>4, <1>5

\* What arrives is the line's doing or the Get of a read.
LEMMA AnswerRefines ==
    ASSUME TypeOK, WriteConfirmed \/ ReadReturns \/ IgnoreAnswer
                       \/ ServeRequest \/ LoseFrame
    PROVE  Buffer!Next
<1>0. request.address \in Addresses
  BY DEF TypeOK, Request
<1>1. CASE WriteConfirmed \/ IgnoreAnswer \/ ServeRequest \/ LoseFrame
  <2>1. PICK a \in Addresses : Serve(a) \/ LoseRequest(a) \/ Leave(a)
    BY <1>0, <1>1
       DEF WriteConfirmed, Answered, IgnoreAnswer, ServeRequest, LoseFrame
  <2>2. UNCHANGED <<wanted, last>>
    BY <1>1 DEF WriteConfirmed, IgnoreAnswer, ServeRequest, LoseFrame
  <2>3. Buffer!Line(a)
    BY <2>1, <2>2, SameLine DEF Buffer!Line
  <2> QED
    BY <2>3, SameLine DEF Buffer!Next
<1>2. CASE ReadReturns
  <2> DEFINE a == request.address
  <2>1. /\ Leave(a) /\ Head(answers[a]).rw = "read" /\ wanted' = wanted
        /\ last'.kind = "read" /\ last'.address = a
        /\ last'.value = Head(answers[a]).value
    BY <1>2 DEF ReadReturns, Answered, Answers
  <2>2. Buffer!Get(a)
    BY <1>0, <2>1, SameLine DEF Buffer!Get
  <2> QED
    BY <1>0, <2>2, SameLine DEF Buffer!Next
<1> QED
  BY <1>1, <1>2

\* The rest fails or is not seen outside.
LEMMA RestRefines ==
    ASSUME \/ FlushFails \/ ReadFails \/ FlushDone \/ ReadAnyRegister
           \/ Flush \/ Disconnect \/ DisconnectResumed \/ Connect \/ Tick
           \/ UNCHANGED vars
    PROVE  Buffer!Next \/ UNCHANGED Buffer!vars
<1>1. CASE FlushFails \/ ReadFails
  <2>1. last'.kind = "failed" /\ UNCHANGED <<lineVars, wanted>>
    BY <1>1 DEF FlushFails, ReadFails, Fails, Ended
  <2> QED
    BY <2>1, SameLine DEF Buffer!Fail, Buffer!Next
<1>2. CASE ~ (FlushFails \/ ReadFails)
  <2>1. UNCHANGED <<lineVars, wanted, last>>
    BY <1>2
       DEF FlushDone, ReadAnyRegister, ReadRegister, Flush, Disconnect,
           StartFlush, DisconnectResumed, Connect, Tick, vars
  <2> QED
    BY <2>1, SameLine DEF Buffer!vars
<1> QED
  BY <1>1, <1>2

\* With one gripper, and registers that start as the cache thinks they do,
\* whatever is put on the line is the value accepted last, and no read
\* request overtakes a value that is held back.
THEOREM CacheImplementsBuffer ==
    ASSUME OneGripper, CacheStartsTrue
    PROVE  Spec => ImplementsBuffer
<1>1. Init => Buffer!Init
  BY SameLine, AddressFacts DEF Init, Buffer!Init, Ended
<1>2. ASSUME TypeOK, CoherenceInv, BufferInv, [Next]_vars
      PROVE  [Buffer!Next]_(Buffer!vars)
  BY <1>2, WriteRefines, TransmitRefines, AnswerRefines, RestRefines DEF Next
<1> QED
  BY <1>1, <1>2, TypeCorrect, CoherenceHolds, BufferHolds, PTL
     DEF Spec, ImplementsBuffer, Buffer!Spec

-----------------------------------------------------------------------------
(* Reads                                                                   *)

\* Behind a read request no write is on its way, nor behind an answer to
\* one; and what such an answer brings is the newest value, if that was not
\* lost.
ReadBehind(a) ==
    /\ \A j, m \in 1 .. Len(line[a]) :
           j < m /\ line[a][j].rw = "read" => line[a][m].rw # "write"
    /\ Holds(answers[a], "read") => ~ Holds(line[a], "write")
    /\ a \notin lost =>
           \A j \in 1 .. Len(answers[a]) :
               answers[a][j].rw = "read" => answers[a][j].value = newest[a]

Reading(a) ==
    /\ pc = "wait" /\ request.rw = "read" /\ request.address = a
    /\ <<a, "read">> \notin stale

\* Inductive, with BufferInv.
ReadInv == \A a \in Addresses : Reading(a) => ReadBehind(a)

\* What the line does by itself leaves it so.
LEMMA ReadLineStep ==
    ASSUME LineTypeOK, NEW a \in Addresses, NEW b \in Addresses,
           Serve(b) \/ LoseRequest(b) \/ Leave(b),
           LineAgrees(a), ReadBehind(a)
    PROVE  ReadBehind(a)'
<1>0. /\ line[a] \in Seq(Frame) /\ answers[a] \in Seq(Frame)
      /\ newest' = newest
  BY DEF LineTypeOK, Serve, LoseRequest, Leave
<1>1. CASE a # b
  <2>1. /\ line'[a] = line[a] /\ answers'[a] = answers[a]
        /\ a \in lost' <=> a \in lost
    BY <1>1 DEF LineTypeOK, Serve, LoseRequest, Leave
  <2> QED
    BY <1>0, <2>1 DEF ReadBehind
<1>2. ASSUME line[a] # <<>>, line'[a] = Tail(line[a])
      PROVE  /\ \A j, m \in 1 .. Len(line'[a]) :
                    j < m /\ line'[a][j].rw = "read"
                        => line'[a][m].rw # "write"
             /\ Holds(line'[a], "write") => Holds(line[a], "write")
             /\ Head(line[a]).rw = "read" => ~ Holds(line[a], "write")
  <2>1. ASSUME NEW j \in 1 .. Len(line'[a]), NEW m \in 1 .. Len(line'[a]),
               j < m, line'[a][j].rw = "read"
        PROVE  line'[a][m].rw # "write"
    <3>1. /\ j + 1 \in 1 .. Len(line[a]) /\ m + 1 \in 1 .. Len(line[a])
          /\ j + 1 < m + 1 /\ line[a][j + 1] = line'[a][j]
          /\ line[a][m + 1] = line'[a][m]
      BY <1>0, <1>2, <2>1, TailFacts
    <3> QED
      BY <2>1, <3>1 DEF ReadBehind
  <2>2. Holds(line'[a], "write") => Holds(line[a], "write")
    BY <1>0, <1>2, HoldsTail
  <2>3. ASSUME Head(line[a]).rw = "read", NEW m \in 1 .. Len(line[a])
        PROVE  line[a][m].rw # "write"
    <3>1. /\ 1 \in 1 .. Len(line[a]) /\ line[a][1].rw = "read"
          /\ Len(line[a]) \in Nat
      BY <1>0, <1>2, <2>3, TailFacts
    <3>2. m = 1 \/ 1 < m
      BY <3>1
    <3> QED
      BY <3>1, <3>2 DEF ReadBehind
  <2> QED
    BY <2>1, <2>2, <2>3 DEF Holds
<1>3. CASE a = b /\ Serve(a)
  <2> DEFINE f == Head(line[a])
             v == IF f.rw = "write" THEN f.value ELSE device[a]
             g == [rw |-> f.rw, value |-> v]
  <2>1. /\ line[a] # <<>> /\ line'[a] = Tail(line[a])
        /\ answers'[a] = Append(answers[a], g) /\ lost' = lost
    BY <1>3 DEF Serve, LineTypeOK
  <2>2. f \in Frame /\ g \in Frame /\ g.rw = f.rw /\ g.value = v
    <3>1. f \in Frame
      BY <1>0, <2>1, TailFacts
    <3>2. v \in Values
      BY <3>1 DEF Frame, LineTypeOK
    <3> QED
      BY <3>1, <3>2 DEF Frame
  <2>3. /\ Len(answers'[a]) = Len(answers[a]) + 1 /\ Len(answers[a]) \in Nat
        /\ \A j \in 1 .. Len(answers[a]) : answers'[a][j] = answers[a][j]
        /\ answers'[a][Len(answers[a]) + 1] = g
    BY <1>0, <2>1, <2>2
  <2>4. f.rw = "read" /\ a \notin lost => v = newest[a]
    BY <1>2, <2>1 DEF LineAgrees
  <2>5. Holds(answers'[a], "read") => Holds(answers[a], "read") \/ f.rw = "read"
    BY <1>0, <2>1, <2>2, HoldsAppend
  <2>6. Holds(answers'[a], "read") => ~ Holds(line'[a], "write")
    BY <1>2, <2>1, <2>5 DEF ReadBehind
  <2>7. ASSUME a \notin lost, NEW j \in 1 .. Len(answers'[a]),
               answers'[a][j].rw = "read"
        PROVE  answers'[a][j].value = newest[a]
    <3>1. CASE j = Len(answers[a]) + 1
      BY <2>2, <2>3, <2>4, <2>7, <3>1
    <3>2. CASE j # Len(answers[a]) + 1
      <4>1. j \in 1 .. Len(answers[a])
        BY <2>3, <3>2
      <4> QED
        BY <2>3, <2>7, <4>1 DEF ReadBehind
    <3> QED
      BY <3>1, <3>2
  <2> QED
    BY <1>0, <1>2, <2>1, <2>6, <2>7 DEF ReadBehind
<1>4. CASE a = b /\ LoseRequest(a)
  <2>1. /\ line[a] # <<>> /\ line'[a] = Tail(line[a])
        /\ answers' = answers /\ (a \in lost => a \in lost')
    BY <1>4 DEF LoseRequest, LineTypeOK
  <2> QED
    BY <1>0, <1>2, <2>1 DEF ReadBehind
<1>5. CASE a = b /\ Leave(a)
  <2>1. /\ answers[a] # <<>> /\ answers'[a] = Tail(answers[a])
        /\ UNCHANGED <<line, lost>>
    BY <1>5 DEF Leave, LineTypeOK
  <2>2. Holds(answers'[a], "read") => Holds(answers[a], "read")
    BY <1>0, <2>1, HoldsTail
  <2>3. ASSUME NEW j \in 1 .. Len(answers'[a])
        PROVE  /\ j + 1 \in 1 .. Len(answers[a])
               /\ answers'[a][j] = answers[a][j + 1]
    BY <1>0, <2>1, TailFacts
  <2> QED
    BY <1>0, <2>1, <2>2, <2>3 DEF ReadBehind
<1> QED
  BY <1>1, <1>3, <1>4, <1>5

\* So does a read request put behind the others.
LEMMA ReadTransmitStep ==
    ASSUME LineTypeOK, NEW a \in Addresses, Transmit(a, "read", 0),
           0 \in Values
    PROVE  /\ ReadBehind(a) => ReadBehind(a)'
           /\ ~ OnTheWay(a, "read") => ReadBehind(a)'
<1> DEFINE f == [rw |-> "read", value |-> 0]
<1>1. /\ line[a] \in Seq(Frame) /\ f \in Frame /\ f.rw = "read"
      /\ line'[a] = Append(line[a], f)
      /\ UNCHANGED <<answers, newest, lost>>
  BY DEF Transmit, LineTypeOK, Frame, Directions
<1>2. /\ Len(line'[a]) = Len(line[a]) + 1 /\ Len(line[a]) \in Nat
      /\ \A j \in 1 .. Len(line[a]) : line'[a][j] = line[a][j]
      /\ line'[a][Len(line[a]) + 1] = f
  BY <1>1
<1>3. Holds(line'[a], "write") => Holds(line[a], "write")
  BY <1>1, HoldsAppend
<1>4. ASSUME \A j, m \in 1 .. Len(line[a]) :
                 j < m /\ line[a][j].rw = "read" => line[a][m].rw # "write",
             NEW j \in 1 .. Len(line'[a]), NEW m \in 1 .. Len(line'[a]),
             j < m, line'[a][j].rw = "read"
      PROVE  line'[a][m].rw # "write"
  <2>1. j \in 1 .. Len(line[a])
    BY <1>2, <1>4
  <2>2. CASE m = Len(line[a]) + 1
    BY <1>1, <1>2, <2>2
  <2>3. CASE m # Len(line[a]) + 1
    <3>1. m \in 1 .. Len(line[a])
      BY <1>2, <2>3
    <3> QED
      BY <1>2, <1>4, <2>1, <3>1
  <2> QED
    BY <2>2, <2>3
<1>5. ReadBehind(a) => ReadBehind(a)'
  BY <1>1, <1>3, <1>4 DEF ReadBehind
<1>6. ~ OnTheWay(a, "read") => ReadBehind(a)
  BY DEF OnTheWay, Holds, ReadBehind
<1> QED
  BY <1>5, <1>6

\* Every step keeps ReadInv.
LEMMA ReadInvStep ==
    ASSUME TypeOK, CoherenceInv, ReadInv, [Next]_vars
    PROVE  ReadInv'
<1>0. /\ LineTypeOK /\ LineInv /\ 0 \in Values
      /\ request.address \in Addresses /\ call.address \in Addresses
  BY DataAssumption DEF TypeOK, CoherenceInv, Request, Call
<1> SUFFICES ASSUME NEW a \in Addresses, Reading(a)'
             PROVE  ReadBehind(a)'
  BY DEF ReadInv, Addresses
<1>1. CASE ReadSend
  <2>1. /\ request'.address = call.address
        /\ Begun(call.address, "read", 0)
    BY <1>1 DEF ReadSend, Await
  <2>2. a = call.address /\ ~ OnTheWay(a, "read")
    BY <2>1 DEF Reading, Begun
  <2> QED
    BY <1>0, <2>1, <2>2, ReadTransmitStep DEF Begun
<1>2. CASE Resend
  <2>1. Reading(a) /\ Transmit(a, "read", request.value)
    BY <1>2 DEF Resend, Reading, flushVars
  <2>2. request.value = 0 /\ ReadBehind(a)
    BY <2>1 DEF Reading, CoherenceInv, FlowInv, ReadInv
  <2> QED
    BY <1>0, <2>1, <2>2, ReadTransmitStep
<1>3. CASE IgnoreAnswer \/ ServeRequest \/ LoseFrame
  <2>1. PICK b \in Addresses : Serve(b) \/ LoseRequest(b) \/ Leave(b)
    BY <1>3 DEF IgnoreAnswer, ServeRequest, LoseFrame
  <2>2. Reading(a)
    BY <1>3
       DEF IgnoreAnswer, ServeRequest, LoseFrame, Reading, transactVars,
           flushVars
  <2> QED
    BY <1>0, <2>1, <2>2, ReadLineStep DEF ReadInv, LineInv
<1>4. CASE Tick \/ Connect \/ UNCHANGED vars
  <2>1. UNCHANGED <<lineVars, transactVars, flushVars>>
    BY <1>4 DEF Tick, Connect, vars
  <2>2. Reading(a)
    BY <2>1 DEF Reading, transactVars, flushVars
  <2> QED
    BY <2>1, <2>2 DEF ReadInv, ReadBehind, lineVars
<1>5. CASE FlushSend
  <2>1. (pc' = pc /\ pc = "flush") \/ request'.rw = "write"
    BY <1>5 DEF FlushSend, Await
  <2> QED
    BY <2>1 DEF Reading
<1>6. CASE \/ WriteRegister \/ WriteResumed \/ WriteConfirmed \/ FlushFails
           \/ FlushDone \/ ReadAnyRegister \/ ReadReturns \/ ReadFails
           \/ Flush \/ Disconnect \/ DisconnectResumed
  <2>1. pc' # "wait"
    BY <1>6
       DEF WriteRegister, WriteSkipped, WriteRefreshed, WriteReplaced,
           WriteExpired, WriteDeferred, Begin, Quick, flushVars, StartFlush,
           WriteResumed, Over, WriteConfirmed, FlushFails, Fails, FlushDone,
           ReadAnyRegister, ReadRegister, ReadReturns, ReadFails, Flush,
           Disconnect, DisconnectResumed
  <2> QED
    BY <2>1 DEF Reading
<1> QED
  BY <1>1, <1>2, <1>3, <1>4, <1>5, <1>6 DEF Next

\* With registers that start as the cache thinks they do, a read returns the
\* value accepted last, but for the cases ReadsLatestState names.
THEOREM ReadsAreLatest ==
    ASSUME CacheStartsTrue
    PROVE  Spec => []ReadsLatestState
<1>1. ASSUME Init PROVE ReadInv /\ ReadsLatestState
  BY <1>1 DEF Init, ReadInv, Reading, ReadsLatestState, Ended
<1>2. ASSUME TypeOK, CoherenceInv, BufferInv, ReadInv, ReadsLatestState,
             [Next]_vars
      PROVE  ReadsLatestState'
  <2> SUFFICES ASSUME OneGripper, last'.kind = "read", last'.fresh
               PROVE  last'.value = wanted'[last'.address]
    BY DEF ReadsLatestState
  <2>1. CASE ReadReturns
    <3> DEFINE a == request.address
    <3>1. /\ pc = "wait" /\ request.rw = "read" /\ answers[a] # <<>>
          /\ Head(answers[a]).rw = "read" /\ a \in Addresses
          /\ last'.value = Head(answers[a]).value /\ last'.address = a
          /\ a \notin lost /\ <<a, "read">> \notin stale /\ wanted' = wanted
      BY <1>2, <2>1 DEF ReadReturns, Answered, Answers, TypeOK, Request
    <3>2. ReadBehind(a)
      BY <1>2, <3>1 DEF ReadInv, Reading
    <3>3. answers[a] \in Seq(Frame)
      BY <1>2, <3>1 DEF TypeOK, LineTypeOK
    <3>4. 1 \in 1 .. Len(answers[a]) /\ Head(answers[a]) = answers[a][1]
      BY <3>1, <3>3, TailFacts
    <3>5. last'.value = newest[a]
      BY <3>1, <3>2, <3>4 DEF ReadBehind
    <3>6. pending = {}
      BY <1>2, <3>1 DEF CoherenceInv, FlowInv
    <3> QED
      BY <1>2, <3>1, <3>5, <3>6, AllSent
  <2>2. CASE ~ ReadReturns
    <3>1. CASE WriteRegister \/ WriteResumed
      <4>1. ASSUME NEW i \in Ids, NEW k \in Keys, NEW v \in Values,
                   \/ WriteSkipped(i, k, v) \/ WriteRefreshed(i, k, v)
                   \/ WriteReplaced(i, k, v) \/ WriteExpired(i, k, v)
                   \/ WriteDeferred(i, k, v)
            PROVE  (wanted' = wanted /\ last' = last) \/ last' = Ended("write")
        <5>1. CASE WriteExpired(i, k, v)
          BY <5>1 DEF WriteExpired, StartFlush
        <5>2. CASE ~ WriteExpired(i, k, v)
          <6>1. Accept(i, k, v)
            BY <4>1, <5>2
               DEF WriteSkipped, WriteRefreshed, WriteReplaced, WriteDeferred
          <6> QED
            BY <6>1 DEF Accept
        <5> QED
          BY <5>1, <5>2
      <4>2. (wanted' = wanted /\ last' = last) \/ last' = Ended("write")
        BY <3>1, <4>1 DEF WriteRegister, WriteResumed, Accept
      <4> QED
        BY <1>2, <4>2 DEF ReadsLatestState, Ended
    <3>2. CASE FlushFails \/ ReadFails
      <4>1. last' = Ended("failed")
        BY <3>2 DEF FlushFails, ReadFails, Fails
      <4> QED
        BY <4>1 DEF Ended
    <3>3. CASE \/ FlushSend \/ WriteConfirmed \/ FlushDone
               \/ ReadAnyRegister \/ ReadSend \/ Flush \/ Disconnect
               \/ DisconnectResumed \/ Connect \/ Resend \/ IgnoreAnswer
               \/ ServeRequest \/ LoseFrame \/ Tick \/ UNCHANGED vars
      <4>1. UNCHANGED <<wanted, last>>
        BY <3>3
           DEF FlushSend, WriteConfirmed, FlushDone, ReadAnyRegister,
               ReadRegister, ReadSend, Flush, Disconnect, StartFlush,
               DisconnectResumed, Connect, Resend, IgnoreAnswer,
               ServeRequest, LoseFrame, Tick, vars
      <4> QED
        BY <1>2, <4>1 DEF ReadsLatestState
    <3> QED
      BY <1>2, <2>2, <3>1, <3>2, <3>3 DEF Next
  <2> QED
    BY <2>1, <2>2
<1>3. ASSUME TypeOK, CoherenceInv, ReadInv, [Next]_vars
      PROVE  ReadInv'
  BY <1>3, ReadInvStep
<1> QED
  BY <1>1, <1>2, <1>3, TypeCorrect, CoherenceHolds, BufferHolds, PTL DEF Spec

=============================================================================
