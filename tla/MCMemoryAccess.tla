--------------------------- MODULE MCMemoryAccess ----------------------------
(* Values of the constants for model checking MemoryAccess. *)
EXTENDS MemoryAccess, MCMap

\* Six bytes of program in a ROM of eight.
MCRomImage == <<{0}, {1}, {2}, {0, 7}, {5}, {6}>>
MCGarbage  == {{3, 4}}

\* Both ends of the ROM and of the RAM, the hole after it, and devices that
\* change no state when they are read.
MCAccessedAddresses == {0, 2, 3, 5, 6, 28, 32} \cup 8..13

\* Four different bytes, and another word with the same last byte.
MCStoredValues == {{0, 9, 18, 27, 31}, {0, 10, 20, 30}}
=============================================================================
