-------------------------- MODULE MCTransactEngine --------------------------
(***************************************************************************)
(* Instances of TransactEngine for TLC: one gripper, a register that is    *)
(* written and read, and the drop-detection register that only sends.      *)
(***************************************************************************)
EXTENDS TransactEngine

Write(r, v) == [id |-> 1, reg |-> r, rw |-> kWrite, value |-> v]
Read(r)     == [id |-> 1, reg |-> r, rw |-> kRead, value |-> 0]

MCIds     == {1}
MCRegs    == {"position", "force", "drop"}
MCValues  == {0, 1}
MCDefault == Read("position")

\* Frames the gripper sends: the drop-detection feedback, and a feedback in
\* a register that is also read (as initialization feedback is).
MCDrop     == {[Read("drop") EXCEPT !.value = 1]}
MCFeedback == {[Read("position") EXCEPT !.value = 1]}

MCWriteRead == {Write("position", 1), Read("position")}
MCWrites    == {Write("position", 0), Write("position", 1)}
MCAll       == MCWrites \cup {Read("position")}
MCMixed     == MCAll \cup {Read("force")}
=============================================================================
