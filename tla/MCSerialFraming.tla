-------------------------- MODULE MCSerialFraming ---------------------------
(***************************************************************************)
(* Instances of SerialFraming for TLC: three header bytes in place of the  *)
(* code's four, its footer, and payloads of four bytes that hold a footer, *)
(* the beginning of a header and the last byte of one where they can do    *)
(* harm.                                                                   *)
(***************************************************************************)
EXTENDS SerialFraming

MCHeader   == <<255, 254, 253>>
MCBytes    == {0, 251, 253, 254, 255}
MCPayloads == {<<251, 0, 255, 254>>, <<0, 255, 251, 253>>}
=============================================================================
