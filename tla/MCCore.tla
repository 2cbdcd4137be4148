------------------------------- MODULE MCCore --------------------------------
(***************************************************************************)
(* Values of the constants for model checking Core.  A word stands for the  *)
(* address in a smaller space of the same four quarters: its two upper bits *)
(* choose the quarter, its 22 lower ones the place in it.  An address whose *)
(* bits between are not all 0 is unmapped, and stands for the last word of  *)
(* its quarter, which is unmapped too.                                      *)
(***************************************************************************)
EXTENDS Core, TestPrograms

Quarter == 2 ^ 22

MCAddressOf(w) ==
  Quarter * Unsigned(Field(w, 30, 2)) +
  (IF w \cap 22..29 = {} THEN Unsigned(w \cap 0..21) ELSE Quarter - 4 + Unsigned(w \cap 0..1))

MCWordOf(a) == Place(Pattern(a \div Quarter, 2), 30) \cup Pattern(a % Quarter, 22)

\* setup_devices, in this space: 0xC0000000 is three quarters.
MCDeviceBase ==
  [d \in 1..6 |-> 3 * Quarter +
     <<\hC0000, 0, \h40000, \h80000, \h100000, \h140000>>[d]]

\* One byte, typed at any moment.
MCOneByte == <<113>>
=============================================================================
