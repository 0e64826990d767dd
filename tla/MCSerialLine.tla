---------------------------- MODULE MCSerialLine ----------------------------
(***************************************************************************)
(* Instances of SerialLine for TLC.                                        *)
(***************************************************************************)
EXTENDS SerialLine

MCBoth  == {"posix", "windows"}
MCPosix == {"posix"}
=============================================================================
