----------------------------- MODULE MCCanLink ------------------------------
(***************************************************************************)
(* TLC instances of CanLink: values of either sign whose four bytes        *)
(* differ, and frames of other stations, of which one is too short, one    *)
(* has an id of eleven bits and one an extended id.                        *)
(***************************************************************************)
EXTENDS CanLink

MCFrames == {make(1, 6, 2, kRead, 16909060),
             make(255, 19, 1, kWrite, -2),
             make(2, 15, 1, kRead, -2147483647 - 1)}

MCData == <<6, 2, 0, 0, 60, 0, 0, 0>>

MCForeign == {[can_id |-> 1, data |-> MCData, dlc |-> 4],
              [can_id |-> 257, data |-> MCData, dlc |-> 8],
              [can_id |-> 2049, data |-> MCData, dlc |-> 8]}
=============================================================================
