----------------------------- MODULE MCRoomCode -----------------------------
(***************************************************************************)
(* Addresses whose bytes are at the ends of their range, whose codes hold   *)
(* the look-alikes 0 and 1 and begin with B, the other mode's tag, and the  *)
(* examples of the unit tests; at most two slips in one code.               *)
(***************************************************************************)
EXTENDS RoomCode

Lan(ip, port) == [kind |-> "lan", ip |-> ip, port |-> port]
Bluetooth(bytes, channel) ==
    [kind |-> "bluetooth", addr |-> format_addr(bytes), channel |-> channel]

SampleAddresses ==
    { Lan(<<192, 168, 1, 24>>, 47021), Lan(<<10, 0, 0, 7>>, 5000),
      Lan(<<88, 255, 255, 255>>, 65535), Lan(<<8, 66, 16, 132>>, 256),
      Bluetooth(<<164, 177, 194, 211, 228, 245>>, 25),
      Bluetooth(<<8, 0, 255, 1, 132, 33>>, 1),
      Bluetooth(<<88, 255, 255, 255, 255, 255>>, 30) }
SampleStrays == {0, CharU, TagB + LowerCase}
=============================================================================
