----------------------------- MODULE FrameCodec -----------------------------
(***************************************************************************)
(* class Ag95Protocol (C++): an Ag95Frame as a CAN frame and as the 14     *)
(* bytes of the official serial converter, and back.                       *)
(*                                                                         *)
(* A value is an int32_t and travels as four bytes, the least one first.   *)
(* Shifts and masks of the unsigned value are divisions and remainders of  *)
(* the signed one: \div rounds down, so that they agree for negative       *)
(* values too.  No intermediate result leaves the 32 bits.                 *)
(***************************************************************************)
EXTENDS Integers, Sequences

Byte  == 0 .. 255
Int32 == {i \in Int : -2147483647 - 1 <= i /\ i <= 2147483647}

Frame == [id : Byte, function : Byte, sub_function : Byte, rw : Byte,
          reserve : Byte, value : Int32]

\* An array of eight bytes, whatever the dlc says.
CanData == [1 .. 8 -> Byte]

kRead == 0
kWrite == 1
kReserve == 0

value_to_bytes(v) ==
    <<v % 256, (v \div 256) % 256, (v \div 65536) % 256,
      (v \div 16777216) % 256>>

\* static_cast<int32_t>: the highest bit is the sign.
Signed(b) == IF b < 128 THEN b ELSE b - 256

bytes_to_value(b0, b1, b2, b3) ==
    16777216 * Signed(b3) + 65536 * b2 + 256 * b1 + b0

\* The frames that make() builds: it throws for any other rw.
Makeable(rw) == rw \in {kRead, kWrite}

make(id, function, sub_function, rw, value) ==
    [id |-> id, function |-> function, sub_function |-> sub_function,
     rw |-> rw, reserve |-> kReserve, value |-> value]

to_can(f) ==
    LET v == value_to_bytes(f.value)
    IN  [can_id |-> f.id,
         data |-> <<f.function, f.sub_function, f.rw, f.reserve,
                    v[1], v[2], v[3], v[4]>>,
         dlc |-> 8]

\* Big-endian values.
from_canBug(can_id, data) ==
    [id |-> can_id % 256,
     function |-> data[1], sub_function |-> data[2], rw |-> data[3],
     reserve |-> data[4],
     value |-> bytes_to_value(data[8], data[7], data[6], data[5])]

\* The id of a frame has eight bits, that of a CAN frame eleven.
from_can(can_id, data) ==
    [id |-> can_id % 256,
     function |-> data[1], sub_function |-> data[2], rw |-> data[3],
     reserve |-> data[4],
     value |-> bytes_to_value(data[5], data[6], data[7], data[8])]

to_official_serial(f) ==
    LET d == to_can(f).data
    IN  <<255, 254, 253, 252, f.id, d[1], d[2], d[3], d[4], d[5], d[6],
          d[7], d[8], 251>>

\* ProtocolError if not.
WellFramed(bytes) ==
    /\ bytes[1] = 255 /\ bytes[2] = 254 /\ bytes[3] = 253 /\ bytes[4] = 252
    /\ bytes[14] = 251

from_official_serial(bytes) ==
    from_can(bytes[5], <<bytes[6], bytes[7], bytes[8], bytes[9], bytes[10],
                         bytes[11], bytes[12], bytes[13]>>)
=============================================================================
