----------------------------- MODULE LossyLink ------------------------------
(***************************************************************************)
(* What a transport promises the receive thread: the frames it returns     *)
(* were sent, whole, each at most once and in the order they were sent;    *)
(* some may be missing.  This is what TransactEngine takes the bus for.    *)
(***************************************************************************)
EXTENDS Integers, Sequences

CONSTANT Payloads

VARIABLES
    sent,     \* the frames put on the line, in order
    received  \* the frames receive() returned: their number and content

vars == <<sent, received>>

Init == sent = <<>> /\ received = <<>>

Send ==
    /\ \E p \in Payloads : sent' = Append(sent, p)
    /\ UNCHANGED received

\* A frame later than the one returned last is returned.
Deliver ==
    /\ \E n \in DOMAIN sent :
           /\ \A i \in DOMAIN received : received[i].no < n
           /\ received' = Append(received, [no |-> n, payload |-> sent[n]])
    /\ UNCHANGED sent

Next == Send \/ Deliver

Spec == Init /\ [][Next]_vars
=============================================================================
