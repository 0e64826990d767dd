---------------------------- MODULE RequestPort -----------------------------
(***************************************************************************)
(* What Ag95Gripper::transact and send_write_immediate promise their       *)
(* caller, with no thread, queue or bus in sight: a request is put on the  *)
(* bus at most MaxRetries + 1 times and ends in a frame that matches it,   *)
(* in TimeoutError after all the attempts, or in TransportError.           *)
(***************************************************************************)
EXTENDS Integers

CONSTANTS Frame, MaxRetries, FrameMatches(_, _)

VARIABLES
    phase,    \* "closed", "ready" or "busy"
    request,  \* the request under way, or the last one
    tries,    \* how often the last transacted request was sent
    outcome,  \* how the last request ended
    reply     \* the frame the last request returned, when it is "ok"

vars == <<phase, request, tries, outcome, reply>>

Init ==
    /\ phase = "closed" /\ outcome = "none" /\ tries = 0
    /\ request \in Frame /\ reply \in Frame

Open ==
    /\ phase # "busy" /\ phase' = "ready"
    /\ UNCHANGED <<request, tries, outcome, reply>>

Close ==
    /\ phase # "busy" /\ phase' = "closed"
    /\ UNCHANGED <<request, tries, outcome, reply>>

Begin ==
    /\ phase = "ready" /\ phase' = "busy"
    /\ request' \in Frame /\ tries' = 0
    /\ UNCHANGED <<outcome, reply>>

Transmit ==
    /\ phase = "busy" /\ tries =< MaxRetries
    /\ tries' = tries + 1
    /\ UNCHANGED <<phase, request, outcome, reply>>

Answer ==
    /\ phase = "busy" /\ tries > 0
    /\ reply' \in Frame /\ FrameMatches(request, reply')
    /\ phase' = "ready" /\ outcome' = "ok"
    /\ UNCHANGED <<request, tries>>

TimeOut ==
    /\ phase = "busy" /\ tries = MaxRetries + 1
    /\ phase' = "ready" /\ outcome' = "timeout"
    /\ reply' \in Frame
    /\ UNCHANGED <<request, tries>>

Break ==
    /\ phase = "busy" /\ tries =< MaxRetries
    /\ phase' = "ready" /\ outcome' = "transport"
    /\ reply' \in Frame
    /\ UNCHANGED <<request, tries>>

\* A fire-and-forget write, and a request refused without being sent.
PostOrRefuse ==
    /\ phase # "busy"
    /\ outcome' \in (IF phase = "ready" THEN {"posted", "transport"}
                                        ELSE {"transport"})
    /\ request' \in Frame /\ reply' \in Frame
    /\ UNCHANGED <<phase, tries>>

Progress == Transmit \/ Answer \/ TimeOut \/ Break

Next == Open \/ Close \/ Begin \/ Progress \/ PostOrRefuse

Spec == Init /\ [][Next]_vars

\* A request under way comes to its end.
FairSpec == Spec /\ WF_vars(Progress)
=============================================================================
