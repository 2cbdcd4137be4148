---------------------------- MODULE MemoryAccess -----------------------------
(***************************************************************************)
(* Any sequence of bus accesses, to check the contents of memory against    *)
(* the array of words the documents describe.  No cycle passes between two  *)
(* accesses, so the devices do not tick.                                    *)
(***************************************************************************)
EXTENDS MemoryView

CONSTANTS
  RomImage,          \* the bytes the loader puts at the start of the ROM
  AccessedAddresses, \* addresses of the accesses
  StoredValues       \* words the accesses store

ASSUME MemoryAccessAssumption ==
  /\ RomImage \in Seq(BitByte)
  /\ AccessedAddresses \subseteq Addresses

VARIABLE access   \* the last access

accessVars == <<busVars, dataVars, access>>

AccessInit ==
  /\ ICInit /\ InputInit /\ OutputInit /\ StartupInit /\ TimerInit /\ PowerInit
  /\ memory = [a \in 0..(Len(RomImage) - 1) |-> RomImage[a + 1]]
  /\ garbage \in Garbage
  /\ sent = <<>>
  /\ access = [kind |-> "none"]

Read(a, n) ==
  /\ BusRead(a, n)
  /\ access' = [kind |-> "load", address |-> a, width |-> n, value |-> ReadValue(a, n)]
  /\ UNCHANGED dataVars

Write(a, n, value) ==
  /\ BusStore(a, value, n)
  /\ access' = [kind |-> "store", address |-> a, width |-> n, value |-> value]

AccessNext ==
  /\ execState = "RUNNING"
  /\ \E a \in AccessedAddresses, n \in Widths :
       Read(a, n) \/ \E value \in StoredValues : Write(a, n, value)

AccessSpec == AccessInit /\ [][AccessNext]_accessVars

-----------------------------------------------------------------------------
\* Loads and stores of every width, in any order, at any address, are those of
\* an array of words: what get_phys_ptr and the composition of bytes in
\* dlx_memory_bus.c must add up to, with only the first byte of an access
\* compared with the bounds of a region.
AnyAccess == INSTANCE WordMemory WITH words <- View

ImplementsWordMemory == AnyAccess!WordSpec
=============================================================================
