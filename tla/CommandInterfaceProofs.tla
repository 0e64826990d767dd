----------------------- MODULE CommandInterfaceProofs -----------------------
(***************************************************************************)
(* Proofs about CommandInterface: for every set of inputs and ids, every   *)
(* number of calls, faults and power losses, and every pace of the         *)
(* gripper, what the commands write is legal and what they report is true. *)
(***************************************************************************)
EXTENDS CommandInterface, TLAPS

-----------------------------------------------------------------------------
(* The inductive invariant                                                 *)

\* What the manual allows in a register.
Legal(r, v) ==
    /\ v \in Int
    /\ r \in {"force_internal", "force_external", "io_force"} => v \in 20 .. 100
    /\ r \in {"position", "io_position"} => v \in 0 .. 100
    /\ r = "can_baudrate" => v \in 0 .. 5
    /\ r = "can_id" => v \in 1 .. 255
    /\ r \in {"init_feedback", "initialize", "io_control", "io_enable",
              "drop_enable"} => v \in 0 .. 1

Writable == Settable \cup {"initialize"}

\* Not only the gripper holds legal values: so does the cache, which may send
\* them long after they were checked, and only to registers that are written.
AllLegal ==
    /\ \A r \in Regs : Legal(r, device[r])
    /\ \A r \in Regs : cache[r].pending =>
          r \in Writable /\ Legal(r, cache[r].value)
    /\ target \in 0 .. 100

\* While get_all_state runs, what the gripper holds counts as seen.
Snapped ==
    /\ pc # "idle" => ending = "none"
    /\ pc = "snapshot" =>
         \A f \in 1 .. 5 : /\ device[Fields[f]] \in seen[f]
                           /\ snapshot[f] \in {NoneRead[f]} \cup seen[f]
    /\ SnapshotTrue

\* initialize() polls only after the gripper has its command.
Commanded ==
    pc \in {"check", "poll"} /\ ~ coalescing /\ confirming => commanded

\* Where the jaws go is what was asked for, or what the cache holds is, or
\* the first 0 was skipped: an entry that was never sent has 0 for the value
\* sent last.
Aimed ==
    IF ~ coalescing THEN confirming => target \in wanted
    ELSE IF cache["position"].pending
    THEN cache["position"].value \in wanted
    ELSE /\ cache["position"].sent /\ confirming =>
               target \in wanted /\ target = cache["position"].last
         /\ ~ cache["position"].sent =>
               /\ cache["position"].last = 0
               /\ confirming => (target \in wanted \/ wanted = {0})

\* Jaws that move are not reported at rest.
Directed ==
    /\ motion = "move" => device["status"] = 0
    /\ ~ coalescing => \A r \in Regs : ~ cache[r].pending
    /\ Aimed

IInv == TypeOK /\ AllLegal /\ Snapped /\ Commanded /\ Directed

-----------------------------------------------------------------------------
(* The gripper and the cache                                               *)

\* The new registers of the gripper keep what the invariant says of them.
Sound(d) ==
    /\ d \in [Regs -> Int]
    /\ \A r \in Regs : Legal(r, d[r])

\* A legal value in one register leaves the others as they were.
LEMMA OneRegister ==
    ASSUME NEW d, Sound(d), NEW r \in Regs, NEW v, Legal(r, v)
    PROVE  /\ Sound([d EXCEPT ![r] = v])
           /\ [d EXCEPT ![r] = v][r] = v
           /\ \A s \in Regs : s # r => [d EXCEPT ![r] = v][s] = d[s]
<1>1. v \in Int /\ d \in [Regs -> Int] /\ \A s \in Regs : Legal(s, d[s])
  BY DEF Sound, Legal
<1>2. [d EXCEPT ![r] = v] \in [Regs -> Int]
  BY <1>1
<1>3. [d EXCEPT ![r] = v][r] = v
  BY <1>1
<1>4. \A s \in Regs : s # r => [d EXCEPT ![r] = v][s] = d[s]
  BY <1>1
<1>5. \A s \in Regs : Legal(s, [d EXCEPT ![r] = v][s])
  BY <1>1, <1>3, <1>4, Zenon
<1> QED BY <1>2, <1>3, <1>4, <1>5 DEF Sound

\* get_all_state sees what the gripper holds from now on.
LEMMA Seen ==
    ASSUME TypeOK, NEW d, Sound(d), Shows(d)
    PROVE  /\ device' = d
           /\ seen' \in [1 .. 5 -> SUBSET Int]
           /\ pc = "snapshot" =>
                \A f \in 1 .. 5 : seen'[f] = seen[f] \cup {d[Fields[f]]}
           /\ pc # "snapshot" => seen' = seen
<1>1. device' = d /\ seen \in [1 .. 5 -> SUBSET Int]
  BY DEF Shows, TypeOK
<1>2. \A f \in 1 .. 5 : Fields[f] \in Regs
  BY SMT DEF Fields, Regs, Settable
<1>3. \A f \in 1 .. 5 : d[Fields[f]] \in Int
  BY <1>2 DEF Sound
<1>4. CASE pc = "snapshot"
  <2>1. seen' = [f \in 1 .. 5 |-> seen[f] \cup {d[Fields[f]]}]
    BY <1>4 DEF Shows
  <2> QED BY <2>1, <1>1, <1>3, <1>4
<1>5. CASE pc # "snapshot"
  BY <1>5, <1>1 DEF Shows
<1> QED BY <1>4, <1>5

\* What the gripper is after any step.
Healthy ==
    /\ Sound(device') /\ target' \in 0 .. 100
    /\ motion' \in {"rest", "move", "calibrate"}
    /\ motion' = "move" => device'["status"] = 0
    /\ commanded' \in BOOLEAN
    /\ seen' \in [1 .. 5 -> SUBSET Int]
    /\ answersTo' \in 1 .. 255

\* After any step but the beginning of get_all_state(), which sees it change.
Changed ==
    /\ Healthy
    /\ pc = "snapshot" => \A f \in 1 .. 5 :
          /\ device'[Fields[f]] \in seen'[f]
          /\ seen[f] \subseteq seen'[f]
    /\ pc # "snapshot" => seen' = seen

\* A command that does not arrive changes nothing the gripper has.
LEMMA Ignored ==
    ASSUME IInv, Ignore
    PROVE  Changed /\ target' = target
BY SMT DEF IInv, Ignore, gripper, Changed, Healthy, Sound, TypeOK, AllLegal,
   Snapped, Directed

\* One that arrives is applied; a position becomes the target.
LEMMA Applied ==
    ASSUME IInv, NEW r \in Writable, NEW v, Legal(r, v), Apply(r, v)
    PROVE  /\ Changed
           /\ target' = IF r = "position" THEN v ELSE target
           /\ r = "initialize" => commanded'
<1>1. Sound(device)
  BY DEF IInv, TypeOK, AllLegal, Sound
<1>2. /\ r \in Regs /\ "initialize" \in Regs /\ "status" \in Regs
      /\ r # "status" /\ Legal("initialize", 0) /\ Legal("status", 0)
  BY SMT DEF Writable, Regs, Settable, Legal
<1>3. /\ target \in 0 .. 100 /\ motion \in {"rest", "move", "calibrate"}
      /\ motion = "move" => device["status"] = 0
      /\ commanded \in BOOLEAN /\ answersTo \in 1 .. 255
      /\ answersTo' = answersTo
  BY DEF IInv, TypeOK, AllLegal, Directed, Apply
<1> DEFINE d0 == [device EXCEPT !["status"] = 0]
           e  == [device EXCEPT !["initialize"] = 0]
           d1 == [device EXCEPT !["initialize"] = 0, !["status"] = 0]
           d2 == [device EXCEPT ![r] = v]
<1>4. Sound(d0) /\ d0["status"] = 0
  BY <1>1, <1>2, OneRegister
<1>5. d1 = [e EXCEPT !["status"] = 0]
  OBVIOUS
<1>6. Sound(e)
  BY <1>1, <1>2, OneRegister
<1>7. Sound(d1) /\ d1["status"] = 0
  <2> HIDE DEF e, d1
  <2>1. /\ Sound([e EXCEPT !["status"] = 0])
        /\ [e EXCEPT !["status"] = 0]["status"] = 0
    BY <1>2, <1>6, OneRegister
  <2> QED BY <2>1, <1>5
<1>8. Sound(d2) /\ d2["status"] = device["status"]
  BY <1>1, <1>2, OneRegister
<1>9. ASSUME NEW d, Sound(d), Shows(d)
      PROVE  /\ Sound(device') /\ device' = d
             /\ seen' \in [1 .. 5 -> SUBSET Int]
             /\ pc = "snapshot" => \A f \in 1 .. 5 :
                   /\ device'[Fields[f]] \in seen'[f]
                   /\ seen[f] \subseteq seen'[f]
             /\ pc # "snapshot" => seen' = seen
  BY <1>9, Seen DEF IInv
<1>10. CASE r = "initialize"
  <2>1. Shows(d1) /\ motion' = "calibrate" /\ commanded' = TRUE
        /\ target' = target
    BY <1>10 DEF Apply
  <2> HIDE DEF d1
  <2> QED BY <2>1, <1>3, <1>7, <1>9, <1>10 DEF Changed, Healthy
<1>11. CASE r = "position"
  <2>1. Shows(d0) /\ motion' \in {"move", motion} /\ target' = v
        /\ commanded' = commanded
    BY <1>11 DEF Apply
  <2>2. v \in 0 .. 100
    BY <1>11 DEF Legal
  <2> HIDE DEF d0
  <2> QED BY <2>1, <2>2, <1>3, <1>4, <1>9, <1>11 DEF Changed, Healthy
<1>12. CASE r # "initialize" /\ r # "position"
  <2>1. Shows(d2) /\ motion' = motion /\ target' = target
        /\ commanded' = commanded
    BY <1>12 DEF Apply
  <2> HIDE DEF d2
  <2> QED BY <2>1, <1>3, <1>8, <1>9, <1>12 DEF Changed, Healthy
<1> QED BY <1>10, <1>11, <1>12

\* Faults are counted up to their bound.
LEMMA FaultCounted ==
    ASSUME TypeOK, NEW i, NEW kind, Fault(i, kind)
    PROVE  faults' \in 0 .. MaxFaults
BY BoundsAssumption DEF TypeOK, Fault

\* A write that returns was applied, or nobody waited for its echo.
LEMMA WrittenIs ==
    ASSUME IInv, NEW r \in Writable, NEW v, Legal(r, v), NEW i,
           Written(r, v, i)
    PROVE  /\ Changed /\ faults' \in 0 .. MaxFaults
           /\ target' = target \/ (r = "position" /\ target' = v)
           /\ confirming =>
                /\ target' = IF r = "position" THEN v ELSE target
                /\ r = "initialize" => commanded'
<1>1. CASE Apply(r, v) /\ UNCHANGED faults
  <2>1. faults' \in 0 .. MaxFaults
    BY <1>1 DEF IInv, TypeOK
  <2> QED BY <1>1, <2>1, Applied
<1>2. CASE /\ ~ confirming /\ Ignore
           /\ \/ faults < MaxFaults /\ faults' = faults + 1
              \/ UNCHANGED faults
  <2>1. faults' \in 0 .. MaxFaults
    BY <1>2, BoundsAssumption DEF IInv, TypeOK
  <2> QED BY <1>2, <2>1, Ignored
<1> QED BY <1>1, <1>2 DEF Written

\* One that ends in an exception may have been applied or not.
LEMMA FailedIs ==
    ASSUME IInv, NEW r \in Writable, NEW v, Legal(r, v), NEW i, NEW kind,
           Failed(r, v, i, kind)
    PROVE  /\ Changed /\ faults' \in 0 .. MaxFaults
           /\ target' = target \/ (r = "position" /\ target' = v)
BY Ignored, Applied, FaultCounted DEF Failed, IInv

\* What the gripper does by itself.
LEMMA GripperStep ==
    ASSUME IInv, Calibrated \/ Arrive \/ PowerCycle
    PROVE  Changed /\ target' = target
<1>1. Sound(device)
  BY DEF IInv, TypeOK, AllLegal, Sound
<1>2. /\ {"initialize", "status", "position", "can_id"} \subseteq Regs
      /\ \A v \in 0 .. 1 : Legal("initialize", v)
      /\ \A v \in 0 .. 3 : Legal("status", v)
  BY SMT DEF Regs, Settable, Legal
<1>3. /\ target \in 0 .. 100 /\ motion \in {"rest", "move", "calibrate"}
      /\ motion = "move" => device["status"] = 0
      /\ commanded \in BOOLEAN /\ answersTo \in 1 .. 255
      /\ Legal("can_id", device["can_id"])
  BY <1>2 DEF IInv, TypeOK, AllLegal, Directed
<1>4. ASSUME NEW d, Sound(d), Shows(d)
      PROVE  /\ Sound(device') /\ device' = d
             /\ seen' \in [1 .. 5 -> SUBSET Int]
             /\ pc = "snapshot" => \A f \in 1 .. 5 :
                   /\ device'[Fields[f]] \in seen'[f]
                   /\ seen[f] \subseteq seen'[f]
             /\ pc # "snapshot" => seen' = seen
  BY <1>4, Seen DEF IInv
<1> DEFINE e1 == [device EXCEPT !["initialize"] = 1]
           e0 == [device EXCEPT !["initialize"] = 0]
           p  == [device EXCEPT !["position"] = target]
           d0 == [e0 EXCEPT !["status"] = 0]
           d2 == [p EXCEPT !["status"] = 2]
           d3 == [device EXCEPT !["status"] = 3]
<1>5. Sound(e1)
  BY <1>1, <1>2, OneRegister
<1>6. Sound(e0)
  BY <1>1, <1>2, OneRegister
<1>7. Sound(p)
  <2>1. Legal("position", target)
    BY <1>3 DEF Legal
  <2> QED BY <2>1, <1>1, <1>2, OneRegister
<1>8. Sound(d0)
  <2> HIDE DEF e0
  <2> QED BY <1>2, <1>6, OneRegister
<1>9. Sound(d2)
  <2> HIDE DEF p
  <2> QED BY <1>2, <1>7, OneRegister
<1>10. Sound(d3)
  BY <1>1, <1>2, OneRegister
<1>11. CASE Calibrated
  <2>1. Shows(e1) /\ motion' = "rest" /\ target' = target
        /\ answersTo' = answersTo /\ commanded' = commanded
    BY <1>11 DEF Calibrated
  <2> HIDE DEF e1
  <2> QED BY <2>1, <1>3, <1>4, <1>5 DEF Changed, Healthy
<1>12. CASE Arrive
  <2>1. Shows(d2) \/ Shows(d3)
    BY <1>12 DEF Arrive
  <2>2. /\ motion' = "rest" /\ target' = target
        /\ answersTo' = answersTo /\ commanded' = commanded
    BY <1>12 DEF Arrive
  <2> HIDE DEF d2, d3
  <2> QED BY <2>1, <2>2, <1>3, <1>4, <1>9, <1>10 DEF Changed, Healthy
<1>13. CASE PowerCycle
  <2>1. Shows(d0)
    BY <1>13 DEF PowerCycle
  <2>2. /\ motion' = "rest" /\ target' = target
        /\ answersTo' = device["can_id"] /\ commanded' = commanded
    BY <1>13 DEF PowerCycle
  <2>3. device["can_id"] \in 1 .. 255
    BY <1>3 DEF Legal
  <2> HIDE DEF d0
  <2> QED BY <2>1, <2>2, <2>3, <1>3, <1>4, <1>8 DEF Changed, Healthy
<1> QED BY <1>11, <1>12, <1>13

Entry == [id : 0 .. 255, sent : BOOLEAN, last : Int, pending : BOOLEAN,
          value : Int]

\* A write that is not pending in the end is skipped, being the last one.
EnteredRight(e, r, v) ==
    /\ e \in Entry /\ e.last = cache[r].last /\ e.sent = cache[r].sent
    /\ IF e.pending THEN e.value = v
                   ELSE ~ cache[r].pending /\ cache[r].last = v

\* The entry of a pending write holds what was to be written.
LEMMA EnteredIs ==
    ASSUME TypeOK, NEW r \in Regs, NEW v \in Int, NEW i \in 0 .. 255
    PROVE  EnteredRight(Entered(r, v, i), r, v)
<1>1. cache[r] \in Entry
  BY DEF TypeOK, Entry
<1> DEFINE e == cache[r]
           f == [e EXCEPT !.id = IF e.sent THEN @ ELSE i]
           g == [f EXCEPT !.pending = TRUE, !.value = v]
<1>2. /\ f \in Entry /\ f.last = e.last /\ f.pending = e.pending
      /\ f.sent = e.sent
  <2> HIDE DEF e
  <2>1. e \in Entry
    BY <1>1 DEF e
  <2> QED BY <2>1, SMT DEF Entry
<1>3. /\ g \in Entry /\ g.last = e.last /\ g.pending /\ g.value = v
      /\ g.sent = e.sent
  <2> HIDE DEF f
  <2>1. f \in Entry /\ f.last = e.last /\ f.sent = e.sent
    BY <1>2
  <2>2. g \in Entry
    <3>1. TRUE \in BOOLEAN /\ v \in Int
      OBVIOUS
    <3> QED BY <2>1, <3>1, Zenon DEF Entry
  <2>3. g.last = f.last /\ g.sent = f.sent
    BY <2>1, SMT DEF Entry
  <2>4. g.pending
    BY <2>1, SMT DEF Entry
  <2>5. g.value = v
    BY <2>1, SMT DEF Entry
  <2> QED BY <2>1, <2>2, <2>3, <2>4, <2>5
<1>4. Entered(r, v, i) = IF ~ e.pending /\ e.last = v THEN f ELSE g
  BY DEF Entered
<1> HIDE DEF f, g
<1> QED BY <1>2, <1>3, <1>4 DEF EnteredRight

Stored(r, v, i) ==
    /\ coalescing /\ cache' = [cache EXCEPT ![r] = Entered(r, v, i)]
    /\ Accepts(r, v) /\ Ignore /\ UNCHANGED faults

Sent(r, v, i) ==
    /\ ~ coalescing
    /\ Written(r, v, i) /\ Accepts(r, v) /\ UNCHANGED cache

Lost(r, v, i) ==
    /\ ~ coalescing
    /\ \E kind \in Kinds : Failed(r, v, i, kind)
    /\ Doubts(r, v) /\ UNCHANGED cache

\* The part of the invariant that a write could disturb.
Kept ==
    /\ Healthy
    /\ cache' \in [Regs -> Entry]
    /\ \A r \in Regs : cache'[r].pending =>
          r \in Writable /\ Legal(r, cache'[r].value)
    /\ wanted' \subseteq Int
    /\ faults' \in 0 .. MaxFaults
    /\ UNCHANGED <<coalescing, confirming>> => Directed'

\* What can be written is a register, the position among them.
LEMMA WritableInRegs == Writable \subseteq Regs /\ "position" \in Regs
BY SMT DEF Writable, Regs, Settable

\* Wherever write_register leaves a legal value, in the cache, at the gripper
\* or lost, the invariant stands.
LEMMA WriteKeeps ==
    ASSUME IInv, NEW r \in Writable, NEW v, Legal(r, v), NEW i \in 0 .. 255,
           Stored(r, v, i) \/ Sent(r, v, i) \/ Lost(r, v, i)
    PROVE  Kept
<1>1. r \in Regs /\ "position" \in Regs
  BY WritableInRegs
<1>2. v \in Int /\ TypeOK /\ cache \in [Regs -> Entry]
  BY DEF Legal, IInv, TypeOK, Entry
<1>3. CASE Stored(r, v, i)
  <2>1. Changed /\ target' = target /\ device' = device /\ motion' = motion
    BY <1>3, Ignored DEF Stored, Ignore, gripper
  <2>2. cache' = [cache EXCEPT ![r] = Entered(r, v, i)]
    BY <1>3 DEF Stored
  <2>3. cache' \in [Regs -> Entry]
    BY <2>2, <1>1, <1>2, EnteredIs DEF EnteredRight
  <2>4. /\ cache'[r] = Entered(r, v, i)
        /\ \A s \in Regs : s # r => cache'[s] = cache[s]
    BY <2>2, <1>1, <1>2
  <2>5. EnteredRight(cache'[r], r, v)
    BY <2>4, <1>1, <1>2, EnteredIs
  <2>6. \A s \in Regs : cache'[s].pending =>
           s \in Writable /\ Legal(s, cache'[s].value)
    <3>1. TAKE s \in Regs
    <3>2. CASE s = r
      BY <3>2, <2>5 DEF EnteredRight
    <3>3. CASE s # r
      BY <3>3, <2>4 DEF IInv, AllLegal
    <3> QED BY <3>2, <3>3
  <2>7. wanted' = IF r = "position" THEN {v} ELSE wanted
    BY <1>3 DEF Stored, Accepts
  <2>8. wanted' \subseteq Int /\ faults' \in 0 .. MaxFaults
    BY <2>7, <1>2, <1>3 DEF TypeOK, Stored
  <2>9. ASSUME UNCHANGED <<coalescing, confirming>>
        PROVE  Directed'
    <3>1. coalescing /\ coalescing'
      BY <1>3, <2>9 DEF Stored
    <3>2. CASE r = "position"
      <4>1. CASE cache'["position"].pending
        BY <3>1, <3>2, <4>1, <2>1, <2>5, <2>7
           DEF Directed, Aimed, IInv, EnteredRight
      <4>2. CASE ~ cache'["position"].pending
        <5>1. /\ ~ cache["position"].pending /\ cache["position"].last = v
              /\ cache'["position"].last = v /\ wanted' = {v}
              /\ cache'["position"].sent = cache["position"].sent
          BY <3>2, <4>2, <2>5, <2>7 DEF EnteredRight
        <5> QED BY <3>1, <4>2, <5>1, <2>1, <2>9 DEF Directed, Aimed, IInv
      <4> QED BY <4>1, <4>2
    <3>3. CASE r # "position"
      BY <3>1, <3>3, <2>1, <2>4, <2>7, <2>9, <1>1 DEF Directed, Aimed, IInv
    <3> QED BY <3>2, <3>3
  <2> QED BY <2>1, <2>3, <2>6, <2>8, <2>9 DEF Kept, Changed
<1>4. CASE Sent(r, v, i) \/ Lost(r, v, i)
  <2>1. /\ Changed /\ faults' \in 0 .. MaxFaults
        /\ target' = target \/ (r = "position" /\ target' = v)
    BY <1>4, WrittenIs, FailedIs DEF Sent, Lost
  <2>2. cache' = cache /\ ~ coalescing
    BY <1>4 DEF Sent, Lost
  <2>4. wanted' \in {wanted, {v}, wanted \cup {v}}
    BY <1>4 DEF Sent, Lost, Accepts, Doubts
  <2>5. ASSUME confirming
        PROVE  target' \in wanted'
    <3>1. target \in wanted
      BY <2>2, <2>5 DEF IInv, Directed, Aimed
    <3>2. CASE Sent(r, v, i)
      <4>1. target' = IF r = "position" THEN v ELSE target
        BY <3>2, <2>5, WrittenIs DEF Sent
      <4> QED BY <4>1, <3>1, <3>2 DEF Sent, Accepts
    <3>3. CASE Lost(r, v, i)
      BY <3>1, <3>3, <2>1 DEF Lost, Doubts
    <3> QED BY <1>4, <3>2, <3>3
  <2>6. wanted' \subseteq Int
    BY <2>4, <1>2 DEF TypeOK
  <2>7. motion' = "move" => device'["status"] = 0
    BY <2>1 DEF Changed, Healthy
  <2>8. UNCHANGED <<coalescing, confirming>> => Directed'
    BY <2>2, <2>5, <2>7 DEF IInv, Directed, Aimed
  <2> QED BY <2>1, <2>2, <2>6, <2>8, <1>2
      DEF Kept, Changed, IInv, AllLegal
<1> QED BY <1>3, <1>4

-----------------------------------------------------------------------------
(* The places in the calls                                                 *)

\* What the engine's place is given as.
Placed ==
    /\ coalescing' \in BOOLEAN /\ confirming' \in BOOLEAN
    /\ gripperId' \in 1 .. 255
    /\ pc' \in Reading \cup {"idle", "feedback", "command", "check"}
    /\ subject' \in Regs \X (0 .. 255)
    /\ field' \in 1 .. 5 /\ snapshot' \in [1 .. 5 -> Int]
    /\ expired' \in BOOLEAN
    /\ ending' \in {"none", "returned", "threw", "state", "initialized",
                    "waited"}
    /\ calls' \in 0 .. MaxCalls /\ cycles' \in 0 .. MaxCycles

\* The invariant after a step, put together from what the lemmas say.
LEMMA Together ==
    ASSUME Kept, Placed, Snapped', Commanded', UNCHANGED <<coalescing,
                                                           confirming>>
    PROVE  IInv'
<1>1. /\ Sound(device') /\ target' \in 0 .. 100
      /\ motion' \in {"rest", "move", "calibrate"} /\ commanded' \in BOOLEAN
      /\ seen' \in [1 .. 5 -> SUBSET Int] /\ answersTo' \in 1 .. 255
  BY DEF Kept, Healthy
<1>2. device'["can_id"] \in 1 .. 255
  <2>1. "can_id" \in Regs
    BY SMT DEF Regs, Settable
  <2> QED BY <1>1, <2>1 DEF Sound, Legal
<1>3. TypeOK'
  <2>1. device' \in [Regs -> Int] /\ target' \in Int
    BY <1>1 DEF Sound
  <2> QED BY <1>1, <1>2, <2>1 DEF TypeOK, Kept, Placed, Entry
<1>4. AllLegal'
  BY <1>1 DEF AllLegal, Kept, Sound
<1> QED BY <1>3, <1>4 DEF IInv, Kept

\* A step of the gripper that leaves the cache alone.
LEMMA OnlyGripper ==
    ASSUME IInv, Changed, target' = target,
           UNCHANGED <<coalescing, confirming, cache, wanted>>,
           faults' \in 0 .. MaxFaults
    PROVE  Kept
<1>1. /\ cache' \in [Regs -> Entry] /\ wanted' \subseteq Int
      /\ \A r \in Regs : cache'[r].pending =>
            r \in Writable /\ Legal(r, cache'[r].value)
  BY DEF IInv, TypeOK, AllLegal, Entry
<1>2. Directed'
  BY DEF IInv, Directed, Aimed, Changed, Healthy
<1> QED BY <1>1, <1>2 DEF Kept, Changed

\* The call goes on, or another begins or ends with nothing to report.
LEMMA SnapshotStays ==
    ASSUME IInv, Changed, UNCHANGED <<pc, ending, snapshot>>
    PROVE  Snapped'
<1>1. CASE pc = "snapshot"
  <2>1. ending' = "none" /\ pc' = "snapshot"
    BY <1>1 DEF IInv, Snapped
  <2>2. \A f \in 1 .. 5 : /\ device'[Fields[f]] \in seen'[f]
                          /\ snapshot'[f] \in {NoneRead[f]} \cup seen'[f]
    BY <1>1 DEF IInv, Snapped, Changed, Healthy
  <2> QED BY <2>1, <2>2 DEF Snapped, SnapshotTrue
<1>2. CASE pc # "snapshot"
  BY <1>2 DEF IInv, Snapped, SnapshotTrue, Changed, Healthy
<1> QED BY <1>1, <1>2

\* Only get_all_state() has a snapshot to answer for.
LEMMA NoSnapshot ==
    ASSUME pc' # "snapshot", ending' # "state",
           pc' = "idle" \/ ending' = "none"
    PROVE  Snapped'
BY DEF Snapped, SnapshotTrue

\* The constants are numbers, and inputs are pairs of a register and one.
LEMMA Numbers ==
    /\ MaxCalls \in Nat /\ MaxFaults \in Nat /\ MaxCycles \in Nat
    /\ \A input \in Inputs : input[1] \in Settable /\ input[2] \in Int
    /\ OtherIds \subseteq 1 .. 255 /\ Readable \subseteq Regs
BY InputAssumption, BoundsAssumption

\* A call is counted.
LEMMA Begun ==
    ASSUME TypeOK, Begin
    PROVE  calls' \in 0 .. MaxCalls /\ pc = "idle"
BY Numbers DEF TypeOK, Begin

-----------------------------------------------------------------------------
(* One lemma for each group of actions                                     *)

LEMMA Initially == Init => IInv
<1> SUFFICES ASSUME Init PROVE IInv
  OBVIOUS
<1>1. /\ NoEntry \in Entry /\ ~ NoEntry.pending /\ NoEntry.last = 0
      /\ ~ NoEntry.sent
  BY SMT DEF NoEntry, Entry
<1>2. cache \in [Regs -> Entry] /\ \A r \in Regs : cache[r] = NoEntry
  BY <1>1 DEF Init
<1>3. ASSUME NEW a \in {0, 1}, NEW b \in {0, 2, 3}, NEW at \in 0 .. 100
      PROVE  Sound(Default(a, b, at))
  <2>1. /\ \A r \in Regs : Default(a, b, at)[r] \in Int
        /\ Default(a, b, at) \in [Regs -> Int]
    BY SMT DEF Default
  <2>2. ASSUME NEW r \in Regs
        PROVE  Legal(r, Default(a, b, at)[r])
    BY SMT DEF Default, Legal
  <2> QED BY <2>1, <2>2 DEF Sound
<1>4. /\ Sound(device) /\ target \in 0 .. 100
      /\ motion \in {"rest", "move"}
      /\ motion = "move" => device["status"] = 0
  <2>1. PICK at \in Places, to \in Places :
           /\ device \in {Default(0, 0, at), Default(1, 0, at),
                          Default(1, 2, to), Default(1, 3, at)}
           /\ target = to
           /\ motion \in IF device["initialize"] = 1 /\ device["status"] = 0
                         THEN {"rest", "move"} ELSE {"rest"}
    BY DEF Init, Before
  <2>2. at \in 0 .. 100 /\ to \in 0 .. 100
    BY InputAssumption
  <2>3. Sound(device)
    BY <2>1, <2>2, <1>3
  <2>4. motion = "rest" \/ (motion = "move" /\ device["status"] = 0)
    BY <2>1
  <2> QED BY <2>1, <2>2, <2>3, <2>4
<1>5. device["can_id"] \in 1 .. 255
  <2>1. "can_id" \in Regs
    BY SMT DEF Regs, Settable
  <2> QED BY <1>4, <2>1 DEF Sound, Legal
<1>6. TypeOK
  <2>1. <<"status", 1>> \in Regs \X (0 .. 255)
    BY SMT DEF Regs
  <2>2. NoneRead \in [1 .. 5 -> Int]
    BY SMT DEF NoneRead
  <2>3. device \in [Regs -> Int]
    BY <1>4 DEF Sound
  <2>4. /\ calls \in 0 .. MaxCalls /\ faults \in 0 .. MaxFaults
        /\ cycles \in 0 .. MaxCycles
    BY Numbers DEF Init
  <2>5. /\ wanted \subseteq Int /\ seen \in [1 .. 5 -> SUBSET Int]
    BY <1>4, SMT DEF Init
  <2>7. /\ coalescing \in BOOLEAN /\ gripperId \in 1 .. 255
        /\ confirming \in BOOLEAN
        /\ answersTo \in 1 .. 255 /\ target \in Int
        /\ field \in 1 .. 5
    BY <1>4, SMT DEF Init
  <2>8. pc = "idle" /\ ending = "none" /\ motion \in {"rest", "move"}
    BY <1>4 DEF Init
  <2>9. expired \in BOOLEAN /\ commanded \in BOOLEAN
    BY DEF Init
  <2>6. subject \in Regs \X (0 .. 255) /\ snapshot \in [1 .. 5 -> Int]
    BY <2>1, <2>2 DEF Init
  <2> QED BY <1>2, <1>5, <2>3, <2>4, <2>5, <2>6, <2>7, <2>8, <2>9
      DEF TypeOK, Entry
<1>7. AllLegal
  BY <1>1, <1>2, <1>4 DEF Init, AllLegal, Sound
<1>8. Snapped /\ Commanded
  BY DEF Init, Snapped, SnapshotTrue, Commanded
<1>9. Directed
  BY <1>1, <1>2, <1>4, WritableInRegs DEF Init, Directed, Aimed
<1> QED BY <1>6, <1>7, <1>8, <1>9 DEF IInv

\* A setter checks what it converted.
LEMMA CheckedIsLegal ==
    ASSUME NEW r \in Settable, NEW v \in Int, InRange(r, Converted(r, v))
    PROVE  Legal(r, Converted(r, v))
<1>1. v % 256 \in 0 .. 255
  BY SMT
<1> QED BY <1>1, SMT DEF Converted, InRange, Legal, Settable

\* A set_... function keeps the invariant, whatever value it is given.
LEMMA SetStep ==
    ASSUME IInv, NEW input \in Inputs, Set(input[1], input[2])
    PROVE  IInv'
<1> DEFINE r == input[1]
           v == input[2]
           w == Converted(r, v)
<1>1. r \in Settable /\ v \in Int /\ r \in Writable /\ TypeOK
  BY Numbers DEF Writable, IInv
<1>2. calls' \in 0 .. MaxCalls /\ pc = "idle"
  BY <1>1, Begun DEF Set
<1>3. UNCHANGED <<coalescing, confirming, gripperId, subject, field,
                  snapshot, expired, cycles>>
  BY DEF Set, setup
<1>4. pc' = "idle" /\ ending' \in {"returned", "threw"} /\ Kept
  <2>1. CASE InRange(r, w)
    <3>1. Legal(r, w)
      BY <1>1, <2>1, CheckedIsLegal
    <3>2. PICK i \in Asks(r) : WriteRegister(r, w, i, Ends("returned"))
      BY <2>1 DEF Set
    <3>3. i \in 0 .. 255
      BY <1>1 DEF Asks, TypeOK
    <3>4. /\ pc' = "idle" /\ ending' \in {"returned", "threw"}
          /\ Stored(r, w, i) \/ Sent(r, w, i) \/ Lost(r, w, i)
      BY <3>2 DEF WriteRegister, Ends, Stored, Sent, Lost
    <3> HIDE DEF r, w
    <3> QED BY <1>1, <3>1, <3>3, <3>4, WriteKeeps
  <2>2. CASE ~ InRange(r, w)
    <3>1. Ends("threw") /\ Ignore /\ UNCHANGED <<cache, wanted, faults>>
      BY <2>2 DEF Set
    <3>2. Changed /\ target' = target
      BY <3>1, Ignored
    <3>3. Kept
      BY <1>1, <1>3, <3>1, <3>2, OnlyGripper DEF TypeOK
    <3> QED BY <3>1, <3>3 DEF Ends
  <2> QED BY <2>1, <2>2
<1>5. Placed
  BY <1>1, <1>2, <1>3, <1>4 DEF TypeOK, Placed, Reading
<1>6. Snapped' /\ Commanded'
  BY <1>4, NoSnapshot DEF Commanded
<1> QED BY <1>3, <1>4, <1>5, <1>6, Together

\* Calls begin that do nothing yet, or nothing but to this process.
Starts ==
    \/ \E i \in OtherIds : SetLocalId(i)
    \/ \E r \in Readable : Get(r)
    \/ Flush \/ WaitForMotion \/ Initialize

\* So does every other function that begins.
LEMMA StartStep ==
    ASSUME IInv, Starts
    PROVE  IInv'
<1>1. TypeOK
  BY DEF IInv
<1>2. Begin /\ UNCHANGED <<coalescing, confirming, cache, snapshot, field,
                           expired, wanted,
                           faults, cycles>>
      /\ UNCHANGED <<device, target, motion, answersTo, seen>>
  BY DEF Starts, SetLocalId, Get, Flush, WaitForMotion, Initialize, Start,
     Ignore, setup, gripper
<1>3. calls' \in 0 .. MaxCalls /\ pc = "idle"
  BY <1>1, <1>2, Begun
<1>4. gripperId' \in 1 .. 255
  <2>1. (\E i \in OtherIds : gripperId' = i) \/ gripperId' = gripperId
    BY DEF Starts, SetLocalId, Get, Flush, WaitForMotion, Initialize, Start,
       setup
  <2>2. gripperId \in 1 .. 255 /\ OtherIds \subseteq 1 .. 255
    BY <1>1, Numbers DEF TypeOK
  <2> QED BY <2>1, <2>2
<1>5. \/ pc' = "idle" /\ ending' = "returned"
      \/ pc' \in {"read", "flush", "wait", "feedback"} /\ ending' = "none"
  BY DEF Starts, SetLocalId, Get, Flush, WaitForMotion, Initialize, Start,
     Goes, Ends
<1>6. subject' \in Regs \X (0 .. 255)
  <2>1. CASE \E r \in Readable : Get(r)
    <3>1. PICK r \in Readable : Get(r)
      BY <2>1
    <3>2. PICK i \in Asks(r) : subject' = <<r, i>>
      BY <3>1 DEF Get
    <3>3. i \in 0 .. 255 /\ r \in Regs
      BY <1>1, Numbers DEF Asks, TypeOK
    <3> QED BY <3>2, <3>3
  <2>2. CASE subject' = subject
    BY <1>1, <2>2 DEF TypeOK
  <2> QED BY <2>1, <2>2 DEF Starts, SetLocalId, Flush, WaitForMotion,
      Initialize
<1>7. Kept
  <2>1. commanded' = commanded \/ commanded' = FALSE
    BY DEF Starts, SetLocalId, Get, Flush, WaitForMotion, Initialize, Start,
       Ignore
  <2>2. Sound(device)
    BY <1>1 DEF TypeOK, IInv, AllLegal, Sound
  <2>3. Changed
    BY <1>1, <1>2, <1>3, <2>1, <2>2
       DEF IInv, TypeOK, AllLegal, Directed, Changed, Healthy
  <2>4. target' = target
    BY <1>2
  <2> QED BY <1>1, <1>2, <2>3, <2>4, OnlyGripper DEF TypeOK
<1>8. Placed
  BY <1>1, <1>2, <1>3, <1>4, <1>5, <1>6 DEF TypeOK, Placed, Reading
<1>9. Snapped' /\ Commanded'
  BY <1>5, NoSnapshot DEF Commanded
<1> QED BY <1>2, <1>7, <1>8, <1>9, Together

\* get_all_state() begins with a snapshot of its own.
LEMMA SnapshotBegins ==
    ASSUME IInv, GetAllState
    PROVE  IInv'
<1>1. TypeOK /\ Begin /\ Goes("snapshot")
  BY DEF IInv, GetAllState
<1>2. /\ field' = 1 /\ snapshot' = NoneRead
      /\ seen' = [f \in 1 .. 5 |-> {device[Fields[f]]}]
      /\ UNCHANGED <<coalescing, confirming, gripperId, cache, subject,
                     expired, device,
                     target, motion, answersTo, wanted, commanded, faults,
                     cycles>>
  BY DEF GetAllState, FreshState, setup, gripper
<1>3. calls' \in 0 .. MaxCalls /\ pc = "idle"
  BY <1>1, Begun
<1>4. Sound(device) /\ \A f \in 1 .. 5 : Fields[f] \in Regs
  <2>1. Sound(device)
    BY DEF IInv, TypeOK, AllLegal, Sound
  <2>2. \A f \in 1 .. 5 : Fields[f] \in Regs
    BY SMT DEF Fields, Regs, Settable
  <2> QED BY <2>1, <2>2
<1>5. seen' \in [1 .. 5 -> SUBSET Int]
  <2>1. \A f \in 1 .. 5 : device[Fields[f]] \in Int
    BY <1>4 DEF Sound
  <2> QED BY <1>2, <2>1
<1>6. /\ snapshot' \in [1 .. 5 -> Int]
      /\ \A f \in 1 .. 5 : snapshot'[f] = NoneRead[f]
  <2>1. NoneRead \in [1 .. 5 -> Int]
    BY SMT DEF NoneRead
  <2> QED BY <1>2, <2>1
<1>7. Snapped'
  <2>1. \A f \in 1 .. 5 : device'[Fields[f]] \in seen'[f]
    BY <1>2
  <2> QED BY <1>1, <1>6, <2>1 DEF Snapped, SnapshotTrue, Goes
<1>8. Kept
  <2>1. /\ cache' \in [Regs -> Entry] /\ wanted' \subseteq Int
        /\ \A r \in Regs : cache'[r].pending =>
              r \in Writable /\ Legal(r, cache'[r].value)
        /\ faults' \in 0 .. MaxFaults
    BY <1>1, <1>2 DEF IInv, TypeOK, AllLegal, Entry
  <2>2. Healthy
    BY <1>1, <1>2, <1>4, <1>5
       DEF IInv, TypeOK, AllLegal, Directed, Healthy
  <2>3. Directed'
    BY <1>2 DEF IInv, Directed, Aimed
  <2> QED BY <2>1, <2>2, <2>3 DEF Kept
<1>9. Placed /\ Commanded'
  BY <1>1, <1>2, <1>3, <1>6
     DEF TypeOK, Placed, Reading, Goes, Commanded
<1> QED BY <1>2, <1>7, <1>8, <1>9, Together

\* The gripper keeps the invariant when it moves or loses its power.
LEMMA GripperKeeps ==
    ASSUME IInv, Calibrated \/ Arrive \/ PowerCycle
    PROVE  IInv'
<1>1. TypeOK /\ Changed /\ target' = target
  BY GripperStep DEF IInv
<1>2. UNCHANGED <<coalescing, confirming, gripperId, cache, pc, subject,
                  field, snapshot,
                  expired, ending, wanted, commanded, calls, faults>>
  BY DEF Calibrated, Arrive, PowerCycle, setup, callVars
<1>3. cycles' \in 0 .. MaxCycles
  BY <1>1, Numbers DEF Calibrated, Arrive, PowerCycle, TypeOK
<1>4. Kept
  BY <1>1, <1>2, OnlyGripper DEF TypeOK
<1>5. Placed
  BY <1>1, <1>2, <1>3 DEF TypeOK, Placed
<1>6. Snapped' /\ Commanded'
  BY <1>1, <1>2, SnapshotStays DEF IInv, Commanded
<1> QED BY <1>2, <1>4, <1>5, <1>6, Together

\* initialize() writes its two registers and looks at the clock.
LEMMA InitializeStep ==
    ASSUME IInv, InitFeedback \/ InitCommand \/ CheckDeadline \/ DeadlinePasses
    PROVE  IInv'
<1>1. TypeOK /\ {"initialize", "init_feedback"} \subseteq Writable
  BY SMT DEF IInv, Writable, Settable
<1>2. Legal("initialize", 0) /\ Legal("init_feedback", 0)
  BY SMT DEF Legal
<1>3. gripperId \in 0 .. 255
  BY <1>1 DEF TypeOK
<1>4. CASE InitFeedback
  <2>1. WriteRegister("init_feedback", 0, gripperId, Goes("command"))
        /\ UNCHANGED <<coalescing, confirming, gripperId, subject, field,
                       snapshot,
                       expired, calls, cycles>>
    BY <1>4 DEF InitFeedback, setup
  <2>2. \/ pc' = "command" /\ ending' = "none"
        \/ pc' = "idle" /\ ending' = "threw"
    BY <2>1 DEF WriteRegister, Goes, Ends
  <2>3. \/ Stored("init_feedback", 0, gripperId)
        \/ Sent("init_feedback", 0, gripperId)
        \/ Lost("init_feedback", 0, gripperId)
    BY <2>1 DEF WriteRegister, Stored, Sent, Lost
  <2>4. Kept
    BY <1>1, <1>2, <1>3, <2>3, WriteKeeps
  <2>5. Placed
    BY <1>1, <2>1, <2>2 DEF TypeOK, Placed
  <2>6. Snapped' /\ Commanded'
    BY <2>2, NoSnapshot DEF Commanded
  <2> QED BY <2>1, <2>4, <2>5, <2>6, Together
<1>5. CASE InitCommand
  <2>1. /\ \/ WriteRegister("initialize", 0, gripperId, Ends("returned"))
           \/ WriteRegister("initialize", 0, gripperId, Goes("check"))
        /\ expired' = FALSE
        /\ UNCHANGED <<coalescing, confirming, gripperId, subject, field,
                       snapshot, calls,
                       cycles>>
    BY <1>5 DEF InitCommand, setup, CommandRegister
  <2>2. /\ \/ pc' = "check" /\ ending' = "none"
           \/ pc' = "idle" /\ ending' \in {"returned", "threw"}
        /\ \/ Stored("initialize", 0, gripperId)
           \/ Sent("initialize", 0, gripperId)
           \/ Lost("initialize", 0, gripperId) /\ pc' = "idle"
    <3>1. CASE WriteRegister("initialize", 0, gripperId, Ends("returned"))
      BY <3>1 DEF WriteRegister, Ends, Stored, Sent, Lost
    <3>2. CASE WriteRegister("initialize", 0, gripperId, Goes("check"))
      BY <3>2 DEF WriteRegister, Goes, Ends, Stored, Sent, Lost
    <3> QED BY <2>1, <3>1, <3>2
  <2>3. Kept
    BY <1>1, <1>2, <1>3, <2>2, WriteKeeps
  <2>4. Placed
    BY <1>1, <2>1, <2>2 DEF TypeOK, Placed
  <2>5. Commanded'
    <3>1. CASE Stored("initialize", 0, gripperId)
      BY <3>1, <2>1 DEF Stored, Commanded
    <3>2. CASE Sent("initialize", 0, gripperId)
      BY <3>2, <2>1, <1>1, <1>2, WrittenIs DEF Sent, Commanded
    <3>3. CASE pc' = "idle"
      BY <3>3 DEF Commanded
    <3> QED BY <2>2, <3>1, <3>2, <3>3
  <2>6. Snapped'
    BY <2>2, NoSnapshot
  <2> QED BY <2>1, <2>3, <2>4, <2>5, <2>6, Together
<1>6. CASE CheckDeadline \/ DeadlinePasses
  <2>1. UNCHANGED <<coalescing, confirming, gripperId, cache, subject,
                    field, snapshot,
                    wanted, commanded, calls, faults, cycles>> /\ Ignore
    BY <1>6 DEF CheckDeadline, DeadlinePasses, setup, Ignore
  <2>2. /\ pc \in {"check", "poll"}
        /\ \/ pc' \in {"check", "poll"} /\ ending' = "none"
           \/ pc' = "idle" /\ ending' = "threw"
    BY <1>6 DEF CheckDeadline, DeadlinePasses, AfterCheck, Goes, Ends, IInv,
       Snapped
  <2>3. expired' \in BOOLEAN
    BY <1>1, <1>6 DEF CheckDeadline, DeadlinePasses, TypeOK
  <2>4. Kept
    BY <1>1, <2>1, Ignored, OnlyGripper DEF TypeOK
  <2>5. Placed
    BY <1>1, <2>1, <2>2, <2>3 DEF TypeOK, Placed, Reading
  <2>6. Snapped' /\ Commanded'
    BY <2>1, <2>2, NoSnapshot DEF Commanded, IInv
  <2> QED BY <2>1, <2>4, <2>5, <2>6, Together
<1> QED BY <1>4, <1>5, <1>6

-----------------------------------------------------------------------------
(* The calls that read                                                     *)

\* A call that reads goes on, or ends.
Outcome ==
    /\ pc' \in Reading \cup {"idle", "check"}
    /\ pc' \in {"check", "poll"} => pc = "poll"
    /\ ending' \in {"none", "returned", "threw", "state", "initialized",
                    "waited"}
    /\ field' \in 1 .. 5 /\ snapshot' \in [1 .. 5 -> Int]
    /\ Snapped'

\* get_all_state() goes on with a field that was seen, or not read.
LEMMA FieldRead ==
    ASSUME IInv, Changed, pc = "snapshot", NEW v \in Int,
           v \in {NoneRead[field]} \cup seen'[field], NextField(v)
    PROVE  Outcome
<1>1. field \in 1 .. 5 /\ snapshot \in [1 .. 5 -> Int] /\ ending = "none"
  BY DEF IInv, TypeOK, Snapped
<1>2. snapshot' = [snapshot EXCEPT ![field] = v]
  BY DEF NextField
<1>3. \A f \in 1 .. 5 : /\ device'[Fields[f]] \in seen'[f]
                        /\ snapshot[f] \in {NoneRead[f]} \cup seen'[f]
  BY DEF IInv, Snapped, Changed
<1>4. snapshot' \in [1 .. 5 -> Int]
  BY <1>1, <1>2
<1>5. \A f \in 1 .. 5 : snapshot'[f] \in {NoneRead[f]} \cup seen'[f]
  BY <1>1, <1>2, <1>3
<1>6. \/ pc' = "idle" /\ ending' = "state" /\ field' = field
      \/ pc' = "snapshot" /\ ending' = "none" /\ field' = field + 1
         /\ field # 5
  BY <1>1 DEF NextField, Ends
<1>7. field' \in 1 .. 5
  BY <1>1, <1>6
<1>8. Snapped'
  BY <1>3, <1>5, <1>6 DEF Snapped, SnapshotTrue
<1> QED BY <1>4, <1>6, <1>7, <1>8 DEF Outcome, Reading

\* Calls that read one register have no snapshot to answer for.
LEMMA NotASnapshot ==
    ASSUME IInv, UNCHANGED <<field, snapshot>>,
           pc' \in Reading \cup {"idle", "check"}, pc' # "snapshot",
           pc' \in {"check", "poll"} => pc = "poll",
           \/ pc' = "idle"
              /\ ending' \in {"returned", "threw", "initialized", "waited"}
           \/ ending' = "none"
    PROVE  Outcome
BY NoSnapshot DEF IInv, TypeOK, Outcome

\* A read that returns ends or goes on in a way the invariant allows.
LEMMA Returned ==
    ASSUME IInv, Ignore, pc \in Reading \ {"flush"}, Delivered(device[Subject])
    PROVE  Outcome
<1>1. CASE pc = "poll"
  <2>1. /\ UNCHANGED <<field, snapshot>>
        /\ \/ pc' = "idle" /\ ending' = "initialized"
           \/ pc' = "check" /\ ending' = "none"
    BY <1>1 DEF Delivered, Ends, Goes
  <2> QED BY <2>1, <1>1, NotASnapshot
<1>2. CASE pc = "wait"
  <2>1. /\ UNCHANGED <<field, snapshot>>
        /\ \/ pc' = "idle" /\ ending' = "waited"
           \/ pc' = "wait" /\ ending' = "none"
    BY <1>2 DEF Delivered, Ends, Goes
  <2> QED BY <2>1, <1>2, NotASnapshot DEF Reading
<1>3. CASE pc = "snapshot"
  <2>1. NextField(device[Fields[field]])
    BY <1>3 DEF Delivered, Subject
  <2>2. field \in 1 .. 5 /\ device \in [Regs -> Int]
    BY DEF IInv, TypeOK
  <2>3. Fields[field] \in Regs
    BY <2>2, SMT DEF Fields, Regs, Settable
  <2>4. device[Fields[field]] \in Int
    BY <2>2, <2>3
  <2>5. seen' = seen /\ device[Fields[field]] \in seen[field]
    BY <1>3, <2>2 DEF IInv, Snapped, Ignore
  <2>6. Changed
    BY Ignored
  <2> HIDE DEF Fields
  <2> QED BY <1>3, <2>1, <2>4, <2>5, <2>6, FieldRead
<1>4. CASE pc = "read"
  <2>1. UNCHANGED <<field, snapshot>> /\ pc' = "idle"
        /\ ending' \in {"threw", "returned"}
    BY <1>4 DEF Delivered, Ends
  <2> QED BY <2>1, <1>4, NotASnapshot
<1> QED BY <1>1, <1>2, <1>3, <1>4 DEF Reading

\* So does one that throws.
LEMMA Thrown ==
    ASSUME IInv, Changed, pc \in Reading, NEW kind, Caught(kind)
    PROVE  Outcome
<1>1. CASE pc = "snapshot"
  <2>1. NextField(snapshot[field])
    BY <1>1 DEF Caught
  <2>2. field \in 1 .. 5 /\ snapshot[field] \in Int
    BY DEF IInv, TypeOK
  <2>3. snapshot[field] \in {NoneRead[field]} \cup seen'[field]
    BY <1>1, <2>2 DEF IInv, Snapped, Changed
  <2> QED BY <1>1, <2>1, <2>2, <2>3, FieldRead
<1>2. CASE pc # "snapshot"
  <2>1. /\ UNCHANGED <<field, snapshot>>
        /\ \/ pc' = "check" /\ ending' = "none" /\ pc = "poll"
           \/ pc' = "idle" /\ ending' = "threw"
    BY <1>2 DEF Caught, Goes, Ends
  <2> QED BY <2>1, NotASnapshot
<1> QED BY <1>1, <1>2

\* Reading does not touch the gripper.
LEMMA ReadStep ==
    ASSUME IInv, FlushDone \/ ReadReturns \/ ReadThrows
    PROVE  IInv'
<1>1. TypeOK /\ Changed /\ target' = target /\ Ignore
  BY Ignored DEF IInv, FlushDone, ReadReturns, ReadThrows
<1>2. /\ UNCHANGED <<coalescing, confirming, gripperId, cache, subject,
                     expired, wanted,
                     calls, cycles>>
      /\ commanded' = commanded
  BY <1>1 DEF FlushDone, ReadReturns, ReadThrows, setup, Ignore
<1>3. faults' \in 0 .. MaxFaults
  BY <1>1, FaultCounted DEF FlushDone, ReadReturns, ReadThrows, TypeOK
<1>4. Outcome
  <2>1. CASE FlushDone
    <3>1. /\ UNCHANGED <<field, snapshot>> /\ pc = "flush"
          /\ pc' = "idle" /\ ending' = "returned"
      BY <2>1 DEF FlushDone, Ends
    <3> QED BY <3>1, NotASnapshot
  <2>2. CASE ReadReturns
    BY <1>1, <2>2, Returned DEF ReadReturns
  <2>3. CASE ReadThrows
    BY <1>1, <2>3, Thrown DEF ReadThrows
  <2> QED BY <2>1, <2>2, <2>3
<1>5. Kept
  BY <1>1, <1>2, <1>3, OnlyGripper
<1>6. Placed
  BY <1>1, <1>2, <1>4 DEF TypeOK, Placed, Outcome
<1>7. Snapped' /\ Commanded'
  BY <1>2, <1>4 DEF Outcome, Commanded, IInv
<1> QED BY <1>2, <1>5, <1>6, <1>7, Together

\* What a sent entry looks like.
LEMMA FlushedEntry ==
    ASSUME TypeOK, NEW r \in Regs,
           cache' = [cache EXCEPT ![r].pending = FALSE, ![r].sent = TRUE,
                                  ![r].last = cache[r].value]
    PROVE  /\ cache' \in [Regs -> Entry]
           /\ cache'[r].last = cache[r].value
           /\ ~ cache'[r].pending /\ cache'[r].sent
           /\ \A s \in Regs : s # r => cache'[s] = cache[s]
<1> DEFINE e == cache[r]
           f == [e EXCEPT !.pending = FALSE, !.sent = TRUE, !.last = e.value]
<1>1. cache \in [Regs -> Entry] /\ e \in Entry
  BY DEF TypeOK, Entry
<1>2. cache' = [cache EXCEPT ![r] = f]
  BY <1>1
<1>3. f \in Entry /\ f.last = e.value /\ ~ f.pending /\ f.sent
  <2> HIDE DEF e
  <2>1. f \in Entry
    <3>1. TRUE \in BOOLEAN /\ FALSE \in BOOLEAN
      OBVIOUS
    <3> QED BY <1>1, <3>1 DEF Entry
  <2>2. f.last = e.value
    BY <1>1, SMT DEF Entry
  <2>3. ~ f.pending /\ f.sent
    BY <1>1, SMT DEF Entry
  <2> QED BY <2>1, <2>2, <2>3
<1> HIDE DEF f
<1> QED BY <1>1, <1>2, <1>3

\* A pending write that is sent keeps the invariant.
LEMMA FlushSendStep ==
    ASSUME IInv, NEW r \in Regs, FlushSend(r)
    PROVE  IInv'
<1>1. /\ TypeOK /\ cache[r].pending
      /\ Written(r, cache[r].value, cache[r].id)
  BY DEF IInv, FlushSend
<1>2. r \in Writable /\ Legal(r, cache[r].value) /\ coalescing
  BY <1>1 DEF IInv, AllLegal, Directed
<1>3. /\ Changed /\ faults' \in 0 .. MaxFaults
      /\ target' = target \/ (r = "position" /\ target' = cache[r].value)
      /\ confirming =>
           target' = IF r = "position" THEN cache[r].value ELSE target
  BY <1>1, <1>2, WrittenIs
<1>4. UNCHANGED <<coalescing, confirming, gripperId, pc, subject, field,
                  snapshot, expired,
                  ending, wanted, calls, cycles>>
  BY DEF FlushSend, setup, callVars
<1>5. /\ cache' \in [Regs -> Entry]
      /\ cache'[r].last = cache[r].value
      /\ ~ cache'[r].pending /\ cache'[r].sent
      /\ \A s \in Regs : s # r => cache'[s] = cache[s]
  BY <1>1, FlushedEntry DEF FlushSend
<1>6. \A s \in Regs : cache'[s].pending =>
         s \in Writable /\ Legal(s, cache'[s].value)
  <2>1. TAKE s \in Regs
  <2>2. CASE s = r
    BY <2>2, <1>5
  <2>3. CASE s # r
    BY <2>3, <1>5 DEF IInv, AllLegal
  <2> QED BY <2>2, <2>3
<1>7. Directed'
  <2>1. motion' = "move" => device'["status"] = 0
    BY <1>3 DEF Changed, Healthy
  <2>2. coalescing' /\ wanted' = wanted /\ confirming' = confirming
    BY <1>2, <1>4
  <2>3. CASE r = "position"
    <3>1. cache["position"].value \in wanted
      BY <1>1, <1>2, <2>3 DEF IInv, Directed, Aimed
    <3> QED BY <1>3, <1>5, <2>1, <2>2, <2>3, <3>1 DEF Directed, Aimed
  <2>4. CASE r # "position"
    <3>1. cache'["position"] = cache["position"] /\ target' = target
      BY <1>3, <1>5, <2>4, WritableInRegs
    <3> QED BY <1>2, <2>1, <2>2, <3>1 DEF IInv, Directed, Aimed
  <2> QED BY <2>3, <2>4
<1>8. Kept
  BY <1>1, <1>3, <1>4, <1>5, <1>6, <1>7 DEF Kept, Changed, TypeOK
<1>9. Placed
  BY <1>1, <1>4 DEF TypeOK, Placed
<1>10. Snapped' /\ Commanded'
  BY <1>2, <1>3, <1>4, SnapshotStays DEF Commanded
<1> QED BY <1>4, <1>8, <1>9, <1>10, Together

\* So does one whose sending throws.
LEMMA FlushThrowsStep ==
    ASSUME IInv, NEW r \in Regs, FlushThrows(r)
    PROVE  IInv'
<1>1. TypeOK /\ cache[r].pending /\ pc \in Reading
  BY DEF IInv, FlushThrows
<1>2. r \in Writable /\ Legal(r, cache[r].value) /\ coalescing
  BY <1>1 DEF IInv, AllLegal, Directed
<1>3. PICK kind \in Kinds :
         /\ Failed(r, cache[r].value, cache[r].id, kind)
         /\ Caught(kind)
  BY DEF FlushThrows
<1>4. UNCHANGED <<coalescing, confirming, gripperId, cache, subject, expired,
                  wanted, calls, cycles>>
  BY DEF FlushThrows, setup
<1>5. /\ Changed /\ faults' \in 0 .. MaxFaults
      /\ target' = target \/ (r = "position" /\ target' = cache[r].value)
  BY <1>1, <1>2, <1>3, FailedIs
<1>6. Outcome
  BY <1>1, <1>3, <1>5, Thrown
<1>7. Directed'
  <2>1. motion' = "move" => device'["status"] = 0
    BY <1>5 DEF Changed, Healthy
  <2>2. \/ target' = target
        \/ cache["position"].pending
    BY <1>1, <1>5
  <2> QED BY <1>2, <1>4, <2>1, <2>2 DEF IInv, Directed, Aimed
<1>8. Kept
  BY <1>1, <1>4, <1>5, <1>7
     DEF Kept, Changed, TypeOK, Entry, IInv, AllLegal
<1>9. Placed
  BY <1>1, <1>4, <1>6 DEF TypeOK, Placed, Outcome
<1>10. Snapped' /\ Commanded'
  BY <1>2, <1>4, <1>6 DEF Commanded, Outcome
<1> QED BY <1>4, <1>8, <1>9, <1>10, Together

\* Every step keeps the invariant.
LEMMA StepKeeps == IInv /\ [Next]_vars => IInv'
<1> SUFFICES ASSUME IInv, [Next]_vars PROVE IInv'
  OBVIOUS
<1>1. CASE \E input \in Inputs : Set(input[1], input[2])
  BY <1>1, SetStep
<1>2. CASE Starts
  BY <1>2, StartStep
<1>3. CASE GetAllState
  BY <1>3, SnapshotBegins
<1>4. CASE \E r \in Regs : FlushSend(r) \/ FlushThrows(r)
  BY <1>4, FlushSendStep, FlushThrowsStep
<1>5. CASE FlushDone \/ ReadReturns \/ ReadThrows
  BY <1>5, ReadStep
<1>6. CASE InitFeedback \/ InitCommand \/ CheckDeadline \/ DeadlinePasses
  BY <1>6, InitializeStep
<1>7. CASE Calibrated \/ Arrive \/ PowerCycle
  BY <1>7, GripperKeeps
<1>8. CASE UNCHANGED vars
  BY <1>8 DEF vars, setup, callVars, gripper, IInv, TypeOK, AllLegal, Snapped,
     SnapshotTrue, Commanded, Directed, Aimed
<1> QED BY <1>1, <1>2, <1>3, <1>4, <1>5, <1>6, <1>7, <1>8
    DEF Next, Application, Proceed, Starts

\* The invariant holds in every state.
LEMMA Invariance == Spec => []IInv
BY Initially, StepKeeps, PTL DEF Spec

-----------------------------------------------------------------------------
(* What a step reports                                                     *)

Report == ending' \in {"initialized", "waited"} /\ ending = "none"

\* Only a read ends in a report.
LEMMA ReportIsRead ==
    ASSUME IInv, Next, Report
    PROVE  ReadReturns /\ pc \in {"poll", "wait"}
<1>1. CASE \E input \in Inputs : Set(input[1], input[2])
  <2>1. PICK input \in Inputs : Set(input[1], input[2])
    BY <1>1
  <2>2. \/ Ends("threw")
        \/ \E i : WriteRegister(input[1], Converted(input[1], input[2]), i,
                                Ends("returned"))
    BY <2>1 DEF Set
  <2>3. ending' \in {"threw", "returned"}
    BY <2>2 DEF WriteRegister, Ends
  <2> QED BY <2>3 DEF Report
<1>2. CASE Starts \/ GetAllState
  <2>1. ending' \in {"none", "returned"}
    BY <1>2 DEF Starts, SetLocalId, Get, Flush, WaitForMotion, Initialize,
       Start, Goes, Ends, GetAllState
  <2> QED BY <2>1 DEF Report
<1>3. CASE \E r \in Regs : FlushSend(r)
  BY <1>3 DEF FlushSend, callVars, Report
<1>4. CASE Calibrated \/ Arrive \/ PowerCycle \/ DeadlinePasses
  BY <1>4 DEF Calibrated, Arrive, PowerCycle, DeadlinePasses, callVars, Report
<1>5. CASE InitFeedback
  <2>1. WriteRegister("init_feedback", 0, gripperId, Goes("command"))
    BY <1>5 DEF InitFeedback
  <2> QED BY <2>1 DEF WriteRegister, Goes, Ends, Report
<1>6. CASE InitCommand
  <2>1. \/ WriteRegister(CommandRegister, 0, gripperId, Ends("returned"))
        \/ WriteRegister(CommandRegister, 0, gripperId, Goes("check"))
    BY <1>6 DEF InitCommand
  <2>2. ending' \in {"none", "returned", "threw"}
    BY <2>1 DEF WriteRegister, Goes, Ends
  <2> QED BY <2>2 DEF Report
<1>7. CASE CheckDeadline \/ FlushDone
  BY <1>7 DEF CheckDeadline, FlushDone, AfterCheck, Goes, Ends, Report
<1>8. ASSUME NEW kind, Caught(kind)
      PROVE  FALSE
  <2>1. ending' \in {"none", "threw", "state"} \/ ending' = ending
    BY <1>8 DEF Caught, NextField, Goes, Ends
  <2> QED BY <2>1 DEF Report
<1>9. CASE (\E r \in Regs : FlushThrows(r)) \/ ReadThrows
  BY <1>8, <1>9 DEF FlushThrows, ReadThrows
<1>10. CASE ReadReturns
  <2>1. Delivered(device[Subject])
    BY <1>10 DEF ReadReturns
  <2>2. ASSUME pc \notin {"poll", "wait"}
        PROVE  FALSE
    <3>1. ending' \in {"returned", "threw", "state"} \/ ending' = ending
      BY <2>1, <2>2 DEF Delivered, NextField, Ends
    <3> QED BY <3>1 DEF Report
  <2> QED BY <1>10, <2>2
<1> QED BY <1>1, <1>2, <1>3, <1>4, <1>5, <1>6, <1>7, <1>9, <1>10
    DEF Next, Application, Proceed, Starts

\* What initialize() and the waiting loop report is so when they do.
LEMMA ReportHolds ==
    ASSUME IInv, Next, Report
    PROVE  /\ ending' = "initialized" =>
                /\ device["initialize"] = 1
                /\ coalescing \/ ~ confirming \/ commanded
           /\ ending' = "waited" =>
                /\ motion # "move"
                /\ confirming => (target \in wanted \/ ZeroSkipped)
<1>1. ReadReturns /\ pc \in {"poll", "wait"}
  BY ReportIsRead
<1>2. Delivered(device[Subject]) /\ Flushed
  BY <1>1 DEF ReadReturns
<1>3. CASE pc = "poll"
  <2>1. Subject = "initialize"
    BY <1>3 DEF Subject
  <2>2. ending' = "initialized" /\ device["initialize"] = 1
    BY <1>2, <1>3, <2>1 DEF Delivered, Goes, Ends, Report
  <2> QED BY <1>3, <2>2 DEF IInv, Commanded
<1>4. CASE pc = "wait"
  <2>1. Subject = "status"
    BY <1>4 DEF Subject
  <2>2. ending' = "waited" /\ device["status"] # 0
    BY <1>2, <1>4, <2>1 DEF Delivered, Goes, Ends, Report
  <2>3. /\ motion # "move"
        /\ confirming => (target \in wanted \/ ZeroSkipped)
    BY <1>2, <2>2, WritableInRegs
       DEF IInv, Directed, Aimed, Flushed, ZeroSkipped
  <2> QED BY <2>2, <2>3
<1> QED BY <1>1, <1>3, <1>4

-----------------------------------------------------------------------------
(* The theorems                                                            *)

\* Every variable keeps its type; in particular the gripper can always be
\* found under an id of 1 .. 255, whatever set_can_id() was called with.
THEOREM TypeCorrect == Spec => []TypeOK
<1>1. IInv => TypeOK
  BY DEF IInv
<1> QED BY Invariance, <1>1, PTL

\* For all arguments, in all orders of calls, with a cache that sends late
\* and sends that fail: the gripper only ever holds values its manual allows.
THEOREM OnlyLegalValues == Spec => []RegistersLegal
<1>1. IInv => RegistersLegal
  <2> SUFFICES ASSUME IInv PROVE RegistersLegal
    OBVIOUS
  <2>1. \A r \in Regs : Legal(r, device[r])
    BY DEF IInv, AllLegal
  <2>2. {"force_internal", "force_external", "io_force", "position",
         "io_position", "can_baudrate", "init_feedback", "initialize",
         "io_control", "io_enable", "drop_enable"} \subseteq Regs
    BY SMT DEF Regs, Settable
  <2>3. target \in 0 .. 100
    BY DEF IInv, AllLegal
  <2>4. \A r \in {"force_internal", "force_external", "io_force"} :
           device[r] \in 20 .. 100
    BY <2>1, <2>2 DEF Legal
  <2>5. \A r \in {"position", "io_position"} : device[r] \in 0 .. 100
    BY <2>1, <2>2 DEF Legal
  <2>6. device["can_baudrate"] \in 0 .. 5
    BY <2>1, <2>2 DEF Legal
  <2>7. \A r \in {"init_feedback", "initialize", "io_control", "io_enable",
                  "drop_enable"} : device[r] \in 0 .. 1
    BY <2>1, <2>2 DEF Legal
  <2> QED BY <2>3, <2>4, <2>5, <2>6, <2>7 DEF RegistersLegal
<1> QED BY Invariance, <1>1, PTL

\* A snapshot of get_all_state() says nothing that was not true during the
\* call, however the gripper moves and whichever reads fail; but a field that
\* was not read has its default, which for `initialized` is no mark: false.
THEOREM SnapshotsAreTrue == Spec => []SnapshotTrue
<1>1. IInv => SnapshotTrue
  BY DEF IInv, Snapped
<1> QED BY Invariance, <1>1, PTL

\* When initialize(true) returns the gripper is initialized, and if writes are
\* confirmed and not coalesced it is so by this call.
THEOREM InitializeIsHonest == Spec => InitializeHonest
<1>1. IInv /\ [Next]_vars =>
        [ending' = "initialized" /\ ending = "none" =>
            /\ device["initialize"] = 1
            /\ coalescing \/ ~ confirming \/ commanded]_vars
  BY ReportHolds DEF Report
<1> QED BY Invariance, <1>1, PTL DEF Spec, InitializeHonest

\* When the example's waiting loop ends, the jaws have ended their motion, and
\* with confirmed writes the one that was asked for, through whatever cache
\* and retries the command went, unless it was a first 0 that was skipped.
THEOREM WaitingMeansDone == Spec => WaitMeansDone
<1>1. IInv /\ [Next]_vars =>
        [ending' = "waited" /\ ending = "none" =>
            /\ motion # "move"
            /\ confirming => (target \in wanted \/ ZeroSkipped)]_vars
  BY ReportHolds DEF Report
<1> QED BY Invariance, <1>1, PTL DEF Spec, WaitMeansDone
=============================================================================
