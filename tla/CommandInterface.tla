-------------------------- MODULE CommandInterface --------------------------
(***************************************************************************)
(* The commands of class Ag95Gripper (C++): set_* and get_*, initialize,   *)
(* get_all_state, the CAN settings, and the loop of the example program    *)
(* that waits for a motion to end; below them read_register and            *)
(* write_register with the write cache, above them an application that     *)
(* calls anything in any order, beside them a gripper that calibrates,     *)
(* moves, loses its power and answers when it is addressed.                *)
(*                                                                         *)
(* initialize, get_all_state and the waiting loop are many transactions:   *)
(* each is one step, and the gripper moves on between them.  A transaction *)
(* returns, or throws with the value applied or not.  Without              *)
(* wait_write_echo a write that returns may be lost all the same.          *)
(*                                                                         *)
(* One assumption: no answer outlives the transaction that waits for it.   *)
(* Then an echo confirms its own write, and a read is answered after every *)
(* frame sent before it, so that a late write is one that is applied at    *)
(* once.  TransactEngine and WriteCoalescing are without the assumption.   *)
(*                                                                         *)
(* The cache has no clock: a write whose window is over flushes first,     *)
(* which is a Flush before the Set.                                        *)
(***************************************************************************)
EXTENDS Integers, Sequences

CONSTANTS
    Inputs,      \* pairs of a register and a value its set_* is called with
    Readable,    \* registers whose get_* is called
    OtherIds,    \* ids given to set_local_gripper_id
    Places,      \* where an earlier program may have sent the jaws
    MaxCalls, MaxFaults, MaxCycles  \* model bounds

(***************************************************************************)
(* The registers.  Those of the I/O mode stand for the classes that        *)
(* set_io_parameter distinguishes.                                         *)
(***************************************************************************)
Settable == {"init_feedback", "force_internal", "force_external", "position",
             "io_position", "io_force", "io_control", "io_enable", "can_id",
             "can_baudrate", "drop_enable", "drop_feedback"}
Regs == Settable \cup {"initialize", "status", "firmware"}

ASSUME InputAssumption ==
    /\ Inputs \subseteq Settable \X Int
    /\ Readable \subseteq Regs
    /\ OtherIds \subseteq 1 .. 255
    /\ Places \subseteq 0 .. 100

ASSUME BoundsAssumption == {MaxCalls, MaxFaults, MaxCycles} \subseteq Nat

VARIABLES
    coalescing,   \* config_.coalesce_writes, with skip_duplicate_writes
    confirming,   \* config_.wait_write_echo
    gripperId,    \* config_.gripper_id
    cache,        \* write_cache_
    pc,           \* where the application's thread is
    subject,      \* the register a get_* reads, and the id it asks
    field,        \* the field get_all_state reads next
    snapshot,     \* its Ag95State
    expired,      \* the deadline of initialize() has passed
    ending,       \* how the last call ended
    device,       \* the gripper's registers (external)
    target,       \* where its jaws are to go (external)
    motion,       \* "rest", "move", "calibrate" (external)
    answersTo,    \* the id it answers to besides 0 (external)
    \* history
    wanted,       \* what the application may expect target to be
    commanded,    \* initialize() has reached the gripper
    seen,         \* the values of each field since get_all_state began
    calls, faults, cycles

callVars == <<pc, subject, field, snapshot, expired, ending>>
gripper  == <<device, target, motion, answersTo>>
setup    == <<coalescing, confirming, gripperId>>
vars == <<setup, cache, callVars, gripper, wanted, commanded, seen, calls,
          faults, cycles>>

\* What get_all_state reads, in this order.
Fields == <<"position", "force_internal", "force_external", "initialize",
            "status">>

\* The members of a new Ag95State: -1 or Unknown, which no gripper answers,
\* but for `initialized`: false, as if the gripper had answered it.
NoneRead == <<-1, -1, -1, 0, -1>>

NoEntry == [id |-> 1, sent |-> FALSE, last |-> 0, pending |-> FALSE,
            value |-> 0]

\* The registers of a gripper that was powered on and maybe initialized and
\* moved by an earlier program.
Default(done, moved, at) ==
    [r \in Regs |-> CASE r = "initialize" -> done
                      [] r = "status"     -> moved
                      [] r = "position"   -> at
                      [] r = "can_id"     -> 1
                      [] r \in {"force_internal", "force_external",
                                "io_force"} -> 30
                      [] OTHER            -> 0]

\* Its jaws are at rest, at the place they were sent to or at an object on
\* the way, or they are still moving.
Before ==
    \E at, to \in Places :
       /\ device \in {Default(0, 0, at), Default(1, 0, at),
                      Default(1, 2, to), Default(1, 3, at)}
       /\ target = to
       /\ motion \in IF device["initialize"] = 1 /\ device["status"] = 0
                     THEN {"rest", "move"} ELSE {"rest"}

Init ==
    /\ coalescing \in BOOLEAN /\ confirming \in BOOLEAN /\ gripperId = 1
    /\ cache = [r \in Regs |-> NoEntry]
    /\ pc = "idle" /\ subject = <<"status", 1>> /\ field = 1
    /\ snapshot = NoneRead /\ expired = FALSE /\ ending = "none"
    /\ Before /\ answersTo = 1
    /\ wanted = {target} /\ commanded = FALSE
    /\ seen = [f \in 1 .. 5 |-> {}]
    /\ calls = 0 /\ faults = 0 /\ cycles = 0

-----------------------------------------------------------------------------
(* The gripper (external)                                                  *)

Reachable(i) == i \in {0, answersTo}

\* get_all_state may see what the gripper holds from now on.
Shows(d) ==
    /\ device' = d
    /\ seen' = IF pc = "snapshot"
               THEN [f \in 1 .. 5 |-> seen[f] \cup {d[Fields[f]]}] ELSE seen

\* The gripper carries out a write: it calibrates, it moves once it is
\* calibrated, or it keeps the value.
Apply(r, v) ==
    /\ CASE r = "initialize" ->
              /\ Shows([device EXCEPT ![r] = 0, !["status"] = 0])
              /\ motion' = "calibrate" /\ commanded' = TRUE
              /\ UNCHANGED target
         [] r = "position" ->
              /\ Shows([device EXCEPT !["status"] = 0])
              /\ motion' = IF device["initialize"] = 1 THEN "move" ELSE motion
              /\ target' = v /\ UNCHANGED commanded
         [] OTHER ->
              /\ Shows([device EXCEPT ![r] = v])
              /\ UNCHANGED <<motion, target, commanded>>
    /\ UNCHANGED answersTo

Ignore == UNCHANGED <<gripper, commanded, seen>>

Calibrated ==
    /\ motion = "calibrate"
    /\ motion' = "rest"
    /\ Shows([device EXCEPT !["initialize"] = 1])
    /\ UNCHANGED <<setup, cache, callVars, target, answersTo, wanted,
                   commanded, calls, faults, cycles>>

\* The jaws reach the target, or an object on the way.
Arrive ==
    /\ motion = "move"
    /\ motion' = "rest"
    /\ \/ Shows([device EXCEPT !["position"] = target, !["status"] = 2])
       \/ Shows([device EXCEPT !["status"] = 3])
    /\ UNCHANGED <<setup, cache, callVars, target, answersTo, wanted,
                   commanded, calls, faults, cycles>>

\* The gripper loses its power; a new CAN id takes effect.
PowerCycle ==
    /\ cycles < MaxCycles /\ cycles' = cycles + 1
    /\ motion' = "rest" /\ answersTo' = device["can_id"]
    /\ Shows([device EXCEPT !["initialize"] = 0, !["status"] = 0])
    /\ UNCHANGED <<setup, cache, callVars, target, wanted, commanded, calls,
                   faults>>

-----------------------------------------------------------------------------
(* How calls begin and end, and transactions fail.  Definitions named      *)
(* ...Bug are deliberate errors that stand in for the one below them in    *)
(* the mutation runs.                                                      *)

Begin ==
    /\ pc = "idle" /\ calls < MaxCalls
    /\ calls' = calls + 1

Goes(to) == pc' = to /\ ending' = "none"
Ends(how) == pc' = "idle" /\ ending' = how

\* An exception: always when nobody has this id, else when the bus fails.
Fault(i, kind) ==
    \/ ~ Reachable(i) /\ kind = "timeout" /\ UNCHANGED faults
    \/ faults < MaxFaults /\ faults' = faults + 1

Kinds == {"timeout", "transport"}

\* A write that returns was carried out; if nobody waits for its echo, it may
\* as well have been lost.
Written(r, v, i) ==
    \/ Reachable(i) /\ Apply(r, v) /\ UNCHANGED faults
    \/ ~ confirming /\ Ignore /\ IF Reachable(i)
          THEN faults < MaxFaults /\ faults' = faults + 1
          ELSE UNCHANGED faults

\* A write that throws may have been carried out.  If nobody waits for its
\* echo, there is no timeout.
Failed(r, v, i, kind) ==
    /\ Fault(i, kind)
    /\ confirming \/ (Reachable(i) /\ kind = "transport")
    /\ Ignore \/ (Reachable(i) /\ Apply(r, v))

-----------------------------------------------------------------------------
(* write_register                                                          *)

\* What the application may expect of the jaws after a write that returned,
\* and after one that threw.
Accepts(r, v) == wanted' = IF r = "position" THEN {v} ELSE wanted
Doubts(r, v) == wanted' = IF r = "position" THEN wanted \cup {v} ELSE wanted

\* The cache: an entry takes the id over until its first send; the value is
\* skipped if it was the last one sent, and else pending.
Entered(r, v, i) ==
    LET e == cache[r]
        f == [e EXCEPT !.id = IF e.sent THEN @ ELSE i]
    IN  IF ~ e.pending /\ e.last = v
        THEN f ELSE [f EXCEPT !.pending = TRUE, !.value = v]

\* Without coalescing the value is sent at once.  The call goes on with P
\* when the write returns.
WriteRegister(r, v, i, P) ==
    \/ /\ coalescing
       /\ cache' = [cache EXCEPT ![r] = Entered(r, v, i)]
       /\ Accepts(r, v) /\ Ignore /\ P
       /\ UNCHANGED faults
    \/ /\ ~ coalescing
       /\ Written(r, v, i) /\ Accepts(r, v) /\ P
       /\ UNCHANGED cache
    \/ /\ ~ coalescing
       /\ \E kind \in Kinds : Failed(r, v, i, kind)
       /\ Doubts(r, v)
       /\ Ends("threw")
       /\ UNCHANGED cache

-----------------------------------------------------------------------------
(* The setters                                                             *)

\* The id is taken as it is.
ConvertedBug(r, v) == v

\* The types of the parameters: uint8_t new_id, bool enabled; the I/O control
\* commands turn their index into 0 or 1, the acknowledgement has no value.
Converted(r, v) ==
    CASE r = "can_id" -> v % 256
      [] r \in {"init_feedback", "io_control", "io_enable", "drop_enable"} ->
            IF v = 0 THEN 0 ELSE 1
      [] r = "drop_feedback" -> 0
      [] OTHER -> v

\* The forces of the I/O mode are checked like positions.
InRangeBug(r, v) ==
    CASE r \in {"force_internal", "force_external"} -> v \in 20 .. 100
      [] r \in {"position", "io_position", "io_force"} -> v \in 0 .. 100
      [] r = "can_id" -> v >= 1
      [] r = "can_baudrate" -> v \in 0 .. 5
      [] OTHER -> v \in 0 .. 1

\* check_range and the checks of set_io_parameter, set_can_id and
\* set_can_baudrate.
InRange(r, v) ==
    CASE r \in {"force_internal", "force_external", "io_force"} ->
            v \in 20 .. 100
      [] r \in {"position", "io_position"} -> v \in 0 .. 100
      [] r = "can_id" -> v >= 1
      [] r = "can_baudrate" -> v \in 0 .. 5
      [] OTHER -> v \in 0 .. 1

\* set_can_id and get_can_id may ask the id 0.
Asks(r) == {gripperId} \cup (IF r = "can_id" THEN {0} ELSE {})

Set(r, v) ==
    /\ Begin
    /\ LET w == Converted(r, v)
       IN  IF InRange(r, w)
           THEN \E i \in Asks(r) : WriteRegister(r, w, i, Ends("returned"))
           ELSE /\ Ends("threw") /\ Ignore
                /\ UNCHANGED <<cache, wanted, faults>>
    /\ UNCHANGED <<setup, subject, field, snapshot, expired, cycles>>

\* set_local_gripper_id
SetLocalId(i) ==
    /\ Begin
    /\ gripperId' = i
    /\ Ends("returned")
    /\ Ignore
    /\ UNCHANGED <<coalescing, confirming, cache, subject, field, snapshot,
                   expired, wanted, faults, cycles>>

-----------------------------------------------------------------------------
(* Calls that read: get_*, the polls of initialize, get_all_state, the     *)
(* waiting loop; flush() goes the same way and reads nothing.              *)

Reading == {"read", "poll", "snapshot", "wait", "flush"}

\* Start a call that reads.
Start(to) ==
    /\ Begin
    /\ Goes(to)
    /\ Ignore
    /\ UNCHANGED <<setup, cache, expired, wanted, faults, cycles>>

Get(r) ==
    /\ Begin
    /\ Goes("read")
    /\ \E i \in Asks(r) : subject' = <<r, i>>
    /\ Ignore
    /\ UNCHANGED <<setup, cache, field, snapshot, expired, wanted, faults,
                   cycles>>

Flush == Start("flush") /\ UNCHANGED <<subject, field, snapshot>>

\* Ag95State is not a new one in every call.
FreshStateBug == snapshot

\* Ag95State s;
FreshState == NoneRead

GetAllState ==
    /\ Begin
    /\ Goes("snapshot")
    /\ field' = 1 /\ snapshot' = FreshState
    /\ seen' = [f \in 1 .. 5 |-> {device[Fields[f]]}]
    /\ UNCHANGED <<setup, cache, subject, expired, gripper, wanted,
                   commanded, faults, cycles>>

\* while (gripper.get_status() == GripperStatus::MovingOrDefault);
WaitForMotion == Start("wait") /\ UNCHANGED <<subject, field, snapshot>>

\* The register that is read, and the id that is asked.
Subject == CASE pc = "poll"     -> "initialize"
             [] pc = "wait"     -> "status"
             [] pc = "snapshot" -> Fields[field]
             [] OTHER           -> subject[1]
Asked == IF pc = "read" THEN subject[2] ELSE gripperId

\* get_all_state goes on to its next field.
NextField(v) ==
    /\ snapshot' = [snapshot EXCEPT ![field] = v]
    /\ IF field = 5
       THEN Ends("state") /\ UNCHANGED field
       ELSE field' = field + 1 /\ UNCHANGED <<pc, ending>>

\* What each caller does with the value that was read.
Delivered(v) ==
    CASE pc = "poll" ->
           /\ IF v = 1 THEN Ends("initialized") ELSE Goes("check")
           /\ UNCHANGED <<field, snapshot>>
      [] pc = "wait" ->
           /\ IF v = 0 THEN Goes("wait") ELSE Ends("waited")
           /\ UNCHANGED <<field, snapshot>>
      [] pc = "snapshot" -> NextField(v)
      [] OTHER ->
           \* get_can_baudrate throws at what is no index
           /\ Ends(IF Subject = "can_baudrate" /\ v \notin 0 .. 5
                   THEN "threw" ELSE "returned")
           /\ UNCHANGED <<field, snapshot>>

\* What each caller does with an exception of flush_pending_writes or
\* transact: initialize polls on after a timeout, get_all_state swallows all.
Caught(kind) ==
    CASE pc = "poll" /\ kind = "timeout" ->
           Goes("check") /\ UNCHANGED <<field, snapshot>>
      [] pc = "snapshot" -> NextField(snapshot[field])
      [] OTHER -> Ends("threw") /\ UNCHANGED <<field, snapshot>>

\* Nothing is flushed before the read.
FlushedBug == TRUE

\* flush_pending_writes has sent all that was pending.
Flushed == \A r \in Regs : ~ cache[r].pending

FlushSend(r) ==
    /\ pc \in Reading /\ cache[r].pending
    /\ Written(r, cache[r].value, cache[r].id)
    /\ cache' = [cache EXCEPT ![r].pending = FALSE, ![r].sent = TRUE,
                              ![r].last = cache[r].value]
    /\ UNCHANGED <<setup, callVars, wanted, calls, cycles>>

FlushThrows(r) ==
    /\ pc \in Reading /\ cache[r].pending
    /\ \E kind \in Kinds :
          Failed(r, cache[r].value, cache[r].id, kind) /\ Caught(kind)
    /\ UNCHANGED <<setup, cache, subject, expired, wanted, calls, cycles>>

FlushDone ==
    /\ pc = "flush" /\ Flushed
    /\ Ends("returned")
    /\ Ignore
    /\ UNCHANGED <<setup, cache, subject, field, snapshot, expired, wanted,
                   calls, faults, cycles>>

ReadReturns ==
    /\ pc \in Reading \ {"flush"} /\ Flushed
    /\ Reachable(Asked)
    /\ Delivered(device[Subject])
    /\ Ignore
    /\ UNCHANGED <<setup, cache, subject, expired, wanted, calls, faults,
                   cycles>>

ReadThrows ==
    /\ pc \in Reading \ {"flush"} /\ Flushed
    /\ \E kind \in Kinds : Fault(Asked, kind) /\ Caught(kind)
    /\ Ignore
    /\ UNCHANGED <<setup, cache, subject, expired, wanted, calls, cycles>>

-----------------------------------------------------------------------------
(* initialize                                                              *)

Initialize ==
    /\ Begin
    /\ Goes("feedback")
    /\ commanded' = FALSE
    /\ UNCHANGED <<setup, cache, subject, field, snapshot, expired, gripper,
                   wanted, seen, faults, cycles>>

\* Automatic feedback is turned off: initialize polls.
InitFeedback ==
    /\ pc = "feedback"
    /\ WriteRegister("init_feedback", 0, gripperId, Goes("command"))
    /\ UNCHANGED <<setup, subject, field, snapshot, expired, calls, cycles>>

\* The feedback register is written again instead.
CommandRegisterBug == "init_feedback"

\* kSubInitialize
CommandRegister == "initialize"

\* initialize(false) returns, initialize(true) begins to poll.
InitCommand ==
    /\ pc = "command"
    /\ \/ WriteRegister(CommandRegister, 0, gripperId, Ends("returned"))
       \/ WriteRegister(CommandRegister, 0, gripperId, Goes("check"))
    /\ expired' = FALSE
    /\ UNCHANGED <<setup, subject, field, snapshot, calls, cycles>>

\* The loop does not look at the clock.
AfterCheckBug == Goes("poll")

\* while (now < deadline): poll again, or TimeoutError.
AfterCheck == IF expired THEN Ends("threw") ELSE Goes("poll")

CheckDeadline ==
    /\ pc = "check"
    /\ AfterCheck
    /\ Ignore
    /\ UNCHANGED <<setup, cache, subject, field, snapshot, expired, wanted,
                   calls, faults, cycles>>

DeadlinePasses ==
    /\ pc \in {"check", "poll"} /\ ~ expired
    /\ expired' = TRUE
    /\ UNCHANGED <<setup, cache, pc, subject, field, snapshot, ending,
                   gripper, wanted, commanded, seen, calls, faults, cycles>>

-----------------------------------------------------------------------------
(* The system                                                              *)

Application ==
    \/ \E input \in Inputs : Set(input[1], input[2])
    \/ \E i \in OtherIds : SetLocalId(i)
    \/ \E r \in Readable : Get(r)
    \/ Flush \/ GetAllState \/ WaitForMotion \/ Initialize

\* The thread inside a call.
Proceed ==
    \/ \E r \in Regs : FlushSend(r) \/ FlushThrows(r)
    \/ FlushDone \/ ReadReturns \/ ReadThrows
    \/ InitFeedback \/ InitCommand \/ CheckDeadline

Next == \/ Application \/ Proceed \/ DeadlinePasses
        \/ Calibrated \/ Arrive \/ PowerCycle

Spec == Init /\ [][Next]_vars

\* The thread runs on, time passes, and the gripper ends what it began.
FairSpec == /\ Spec
            /\ WF_vars(Proceed) /\ WF_vars(DeadlinePasses)
            /\ WF_vars(Calibrated) /\ WF_vars(Arrive)

-----------------------------------------------------------------------------
(* Properties                                                              *)

\* The types; the id a gripper answers to and the one it would take over are
\* among 1 .. 255, so it can be found again (set_can_id takes an uint8_t).
TypeOK ==
    /\ coalescing \in BOOLEAN /\ confirming \in BOOLEAN
    /\ gripperId \in 1 .. 255
    /\ answersTo \in 1 .. 255 /\ device["can_id"] \in 1 .. 255
    /\ cache \in [Regs -> [id : 0 .. 255, sent : BOOLEAN, last : Int,
                           pending : BOOLEAN, value : Int]]
    /\ pc \in Reading \cup {"idle", "feedback", "command", "check"}
    /\ subject \in Regs \X (0 .. 255)
    /\ field \in 1 .. 5 /\ snapshot \in [1 .. 5 -> Int]
    /\ expired \in BOOLEAN
    /\ ending \in {"none", "returned", "threw", "state", "initialized",
                   "waited"}
    /\ device \in [Regs -> Int] /\ target \in Int
    /\ motion \in {"rest", "move", "calibrate"}
    /\ wanted \subseteq Int /\ commanded \in BOOLEAN
    /\ seen \in [1 .. 5 -> SUBSET Int]
    /\ calls \in 0 .. MaxCalls /\ faults \in 0 .. MaxFaults
    /\ cycles \in 0 .. MaxCycles

\* Whatever the application calls, in whatever order, with whatever cached
\* and retried on the way, the gripper only ever holds values that its
\* manual allows: forces of 20 .. 100, positions of 0 .. 100, baud rate
\* indices of 0 .. 5, and switches that are 0 or 1.
RegistersLegal ==
    /\ \A r \in {"force_internal", "force_external", "io_force"} :
          device[r] \in 20 .. 100
    /\ \A r \in {"position", "io_position"} : device[r] \in 0 .. 100
    /\ target \in 0 .. 100
    /\ device["can_baudrate"] \in 0 .. 5
    /\ \A r \in {"init_feedback", "initialize", "io_control", "io_enable",
                 "drop_enable"} : device[r] \in 0 .. 1

\* initialize(true) returns only when the gripper is initialized at that
\* moment and, with confirmed writes and without coalescing, has been given
\* the command by this very call: the state of an earlier initialization is
\* not taken for the new one.
InitializeHonest ==
    [][ending' = "initialized" /\ ending = "none" =>
          /\ device["initialize"] = 1
          /\ coalescing \/ ~ confirming \/ commanded]_vars

\* The application asked for 0 only, and no position was ever sent: the cache
\* takes 0 for the value sent last and has skipped the write.
ZeroSkipped ==
    coalescing /\ ~ cache["position"].sent /\ wanted = {0}

\* When the waiting loop ends, the jaws are at rest and, if writes are
\* confirmed, were sent to the position the application asked for last (or,
\* after a set_position that threw, to one it asked for): it never ends on
\* the status of the motion before, though the write may have waited in the
\* cache.  The exception is a first set_position(0) that is skipped: then it
\* does end on the status of a motion of an earlier program.
WaitMeansDone ==
    [][ending' = "waited" /\ ending = "none" =>
          /\ motion # "move"
          /\ confirming => (target \in wanted \/ ZeroSkipped)]_vars

\* The same without the exception; a run by hand violates it.
WaitReachesTarget ==
    [][ending' = "waited" /\ ending = "none" =>
          (confirming => target \in wanted)]_vars

\* Each field that get_all_state returns was true at some moment of this
\* call, or is what a field has that was not read; never a value of an
\* earlier call.  So "initialized" was true during the call; "not
\* initialized" may mean not read, as it does in the code.
SnapshotTrue ==
    ending = "state" =>
       \A f \in 1 .. 5 : snapshot[f] \in {NoneRead[f]} \cup seen[f]

\* Every call ends, whatever fails in it; initialize at its deadline at the
\* latest.  The waiting loop of the example alone may not: status 0 is
\* also the status of a gripper that has no motion to end.
CallsEnd ==
    pc # "idle" ~> \/ pc = "idle"
                   \/ pc = "wait" /\ device["status"] = 0 /\ motion = "rest"

\* initialize "sends the initialization command": when initialize(true)
\* returns, the gripper was given it by this call.
InitializeCommands == ending = "initialized" => commanded
=============================================================================
