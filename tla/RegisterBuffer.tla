--------------------------- MODULE RegisterBuffer ---------------------------
(***************************************************************************)
(* What a register interface promises that may delay writes and drop those *)
(* that a newer one has overtaken: whatever it puts on the line, again     *)
(* after a failure or for the first time, is the value accepted last, and  *)
(* no read request leaves before the last value of every register has.     *)
(* There is no cache here, no window and no flush.                         *)
(***************************************************************************)
EXTENDS RegisterLine

VARIABLES
    wanted,  \* the value accepted last, per address
    last     \* how the last call ended

vars == <<lineVars, wanted, last>>

Init ==
    /\ LineInit
    /\ wanted = [a \in Addresses |-> InitValue]
    /\ last.kind = "none"

\* A write returns.
Put(a, v) ==
    /\ wanted' = [wanted EXCEPT ![a] = v]
    /\ last'.kind = "write"
    /\ UNCHANGED lineVars

\* The latest value of a register is sent; nobody says how often.
Send(a) == Transmit(a, "write", wanted[a]) /\ UNCHANGED <<wanted, last>>

\* A read is asked for: all that was accepted before is on its way or there.
Ask(a) ==
    /\ \A b \in Addresses : newest[b] = wanted[b]
    /\ Transmit(a, "read", 0)
    /\ UNCHANGED <<wanted, last>>

\* A read returns an answer of its register.
Get(a) ==
    /\ Leave(a) /\ Head(answers[a]).rw = "read"
    /\ last'.kind = "read" /\ last'.address = a
    /\ last'.value = Head(answers[a]).value
    /\ UNCHANGED wanted

\* A call throws.
Fail == last'.kind = "failed" /\ UNCHANGED <<lineVars, wanted>>

\* What the line does by itself.
Line(a) ==
    /\ Serve(a) \/ LoseRequest(a) \/ Leave(a)
    /\ UNCHANGED <<wanted, last>>

Next ==
    \/ \E a \in Addresses :
           \/ Send(a) \/ Ask(a) \/ Get(a) \/ Line(a)
           \/ \E v \in Values : Put(a, v)
    \/ Fail

Spec == Init /\ [][Next]_vars
=============================================================================
