--------------------------- MODULE MCAccessHistory ---------------------------
(* Values of the constants for model checking AccessHistory: a program that  *)
(* accesses the Timer at every offset.                                       *)
EXTENDS AccessHistory, MCMap

MCTimerAddresses == 36..43
=============================================================================
