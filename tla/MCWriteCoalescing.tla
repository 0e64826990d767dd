------------------------- MODULE MCWriteCoalescing --------------------------
(***************************************************************************)
(* Instances of WriteCoalescing for TLC.                                   *)
(***************************************************************************)
EXTENDS WriteCoalescing
CONSTANTS k1, k2
MCKeys   == {k1, k2}
MCValues == 0 .. 2
MCBinary == {0, 1}
MCEcho   == BOOLEAN
MCOneId  == {1}
MCTwoIds == {1, 2}
=============================================================================
