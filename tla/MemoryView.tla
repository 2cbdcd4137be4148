----------------------------- MODULE MemoryView ------------------------------
(***************************************************************************)
(* The array of words the documents describe, seen through the bytes of the *)
(* memory.                                                                  *)
(***************************************************************************)
EXTENDS Memory

RomWords    == 0..(RomSize \div 4 - 1)
RamWords    == (RamBase \div 4)..((RamBase + RamSize) \div 4 - 1)
MemoryWords == RomWords \cup RamWords
View        == [w \in MemoryWords |-> ValueAt(4 * w, 4)]

\* The addresses at which a device answers a read.
Answering == {a \in Addresses : DeviceAt(a) \in Readable}

WordArray == INSTANCE WordLanes WITH words <- View
=============================================================================
