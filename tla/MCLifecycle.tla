---------------------------- MODULE MCLifecycle -----------------------------
(***************************************************************************)
(* Instances of Lifecycle for TLC.                                         *)
(***************************************************************************)
EXTENDS Lifecycle

MCSettings == Setting
MCSerial   == {[kind |-> "official_serial", platform |-> "posix",
                accepted |-> TRUE]}
MCValues   == 0 .. 2
=============================================================================
