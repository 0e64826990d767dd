---------------------------- MODULE RegisterLine ----------------------------
(***************************************************************************)
(* The registers of the grippers and the line that leads to them, as the   *)
(* write cache of the driver meets them: a request is a frame on its way,  *)
(* its answer another one, and either may be lost or late.  Frames of one  *)
(* register keep their order; those of different ones do not wait for each *)
(* other.  All of it is outside the repository.                            *)
(***************************************************************************)
EXTENDS Integers, Sequences

CONSTANTS
    Ids,        \* CAN ids
    Keys,       \* (function << 8) | sub_function
    Values,     \* register values
    InitValue   \* what the registers of a gripper hold at first

Addresses == Ids \X Keys
Directions == {"read", "write"}
Frame == [rw : Directions, value : Values]

VARIABLES
    line,     \* the requests on their way to each register
    answers,  \* the answers on their way back
    device,   \* what each register holds
    newest,   \* history: the value of the last write request sent to it
    lost      \* history: the registers that request never reached

lineVars == <<line, answers, device, newest, lost>>

LineInit ==
    /\ line = [a \in Addresses |-> <<>>]
    /\ answers = [a \in Addresses |-> <<>>]
    /\ device = [a \in Addresses |-> InitValue]
    /\ newest = [a \in Addresses |-> InitValue]
    /\ lost = {}

LineTypeOK ==
    /\ line \in [Addresses -> Seq(Frame)]
    /\ answers \in [Addresses -> Seq(Frame)]
    /\ device \in [Addresses -> Values]
    /\ newest \in [Addresses -> Values]
    /\ lost \subseteq Addresses

\* There is a frame of this direction in s.
Holds(s, rw) == \E j \in 1 .. Len(s) : s[j].rw = rw

\* A request is put on the line.
Transmit(a, rw, v) ==
    /\ line' = [line EXCEPT ![a] = Append(@, [rw |-> rw, value |-> v])]
    /\ newest' = IF rw = "write" THEN [newest EXCEPT ![a] = v] ELSE newest
    /\ lost' = IF rw = "write" THEN lost \ {a} ELSE lost
    /\ UNCHANGED <<answers, device>>

\* The gripper handles the request that comes first and answers: a write is
\* echoed, a read gets what the register holds.
Serve(a) ==
    LET frame == Head(line[a])
        v == IF frame.rw = "write" THEN frame.value ELSE device[a]
    IN  /\ line[a] # <<>>
        /\ line' = [line EXCEPT ![a] = Tail(@)]
        /\ device' = [device EXCEPT ![a] = v]
        /\ answers' = [answers EXCEPT
                          ![a] = Append(@, [rw |-> frame.rw, value |-> v])]
        /\ UNCHANGED <<newest, lost>>

\* The request that comes first is lost.
LoseRequest(a) ==
    /\ line[a] # <<>>
    /\ line' = [line EXCEPT ![a] = Tail(@)]
    /\ lost' = IF Head(line[a]).rw = "write" /\ ~ Holds(Tail(line[a]), "write")
               THEN lost \cup {a} ELSE lost
    /\ UNCHANGED <<answers, device, newest>>

\* The answer that comes first leaves the line: taken, ignored or lost.
Leave(a) ==
    /\ answers[a] # <<>>
    /\ answers' = [answers EXCEPT ![a] = Tail(@)]
    /\ UNCHANGED <<line, device, newest, lost>>
=============================================================================
