------------------------ MODULE MCCommandInterface ------------------------
(***************************************************************************)
(* TLC instances of CommandInterface: values on both sides of the limits   *)
(* that the setters check, a value that wraps in its parameter's type, and *)
(* an id that no gripper has.                                              *)
(***************************************************************************)
EXTENDS CommandInterface

MCInputs == {<<"position", 60>>, <<"position", 0>>, <<"position", 101>>,
             <<"io_force", 19>>, <<"io_force", 20>>, <<"io_control", 7>>,
             <<"can_id", 2>>, <<"can_id", 256>>, <<"can_baudrate", 6>>}

MCReadable == {"can_id", "can_baudrate"}

MCOtherIds == {2}

MCPlaces == {40}
=============================================================================
