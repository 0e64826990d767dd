---------------------------- MODULE MCPyTransact ----------------------------
(***************************************************************************)
(* Instances of PyTransact for TLC: a register that is read, one that is   *)
(* written, and the drop detection, which only reports.                    *)
(***************************************************************************)
EXTENDS PyTransact

MCReads       == {"read position"}
MCWrites      == {"write position"}
MCUnsolicited == {"object dropped"}
MCKeys        == MCReads \cup MCWrites \cup MCUnsolicited
=============================================================================
