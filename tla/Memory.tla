------------------------------- MODULE Memory --------------------------------
(***************************************************************************)
(* What the memory bus (src/src/common/dlx_memory_bus.c) returns and what   *)
(* it stores: the bytes of ROM and RAM, big-endian, and the values the      *)
(* devices answer with.  Where an access goes, and what it does to the      *)
(* devices, is in module MemoryBus.                                         *)
(***************************************************************************)
EXTENDS MemoryBus, BitWords

CONSTANT Garbage   \* values a byte of the RAM may have before it is written

VARIABLES
  memory,    \* the bytes loaded into the ROM or stored into the RAM, by address
  garbage,   \* the byte malloc left in every other place of the RAM
  sent       \* the bytes the Output Port has put on standard output

dataVars == <<memory, garbage, sent>>

ByteBits == 8
BitByte  == SUBSET Bits(ByteBits)

ASSUME GarbageAssumption == Garbage \subseteq BitByte

\* The ROM is cleared when it is allocated.
ByteAt(a) ==
  IF a \in DOMAIN memory THEN memory[a]
  ELSE IF InRom(a) THEN {}
  ELSE garbage

\* Mutant: words are read in the byte order of the host.
ValueAtLittleEndian(a, n) ==
  UNION {Place(ByteAt(a + k), ByteBits * k) : k \in 0..(n - 1)}

\* The byte at the lowest address is the most significant of the n.
ValueAt(a, n) ==
  UNION {Place(ByteAt(a + k), ByteBits * (n - 1 - k)) : k \in 0..(n - 1)}

\* Byte number k of a value stored with n bytes.
StoredByte(value, n, k) == Field(value, ByteBits * (n - 1 - k), ByteBits)

Stored(a, value, n) ==
  [c \in DOMAIN memory \cup a..(a + n - 1) |->
     IF c \in a..(a + n - 1) THEN StoredByte(value, n, c - a) ELSE memory[c]]

\* What the read function of each device returns.
DeviceValue(d, offset, n) ==
  CASE d = IC       -> ICReadValue
    [] d = Startup  -> StartupReadValue
    [] d = InPort   -> InputReadValue
    [] d = OutPort  -> OutputReadValue
    [] d = TimerDev -> TimerReadValue(offset, n)

\* The value of an access; an invalid one reads as 0.
ReadValue(a, n) ==
  CASE ReadRoute(a, n) = "device" ->
         Pattern(DeviceValue(DeviceAt(a), a - DeviceBase[DeviceAt(a)], n), WordBits)
    [] ReadRoute(a, n) = "memory" -> ValueAt(a, n)
    [] ReadRoute(a, n) = "error"  -> {}

\* Mutant: whatever the checks said, the bytes are written.
BusStoreUnchecked(a, value, n) ==
  /\ BusWrite(a, Unsigned(value), n)
  /\ memory' = Stored(a, value, n)
  /\ sent' = IF WriteRoute(a, n) = "device" /\ DeviceAt(a) = OutPort /\ outReady = 1
               THEN Append(sent, Field(value, 0, ByteBits)) ELSE sent
  /\ UNCHANGED garbage

\* A store: into the RAM, to the Output Port, which sends a byte unless it is
\* busy, or to another device.
BusStore(a, value, n) ==
  /\ BusWrite(a, Unsigned(value), n)
  /\ memory' = IF WriteRoute(a, n) = "memory" THEN Stored(a, value, n) ELSE memory
  /\ sent' = IF WriteRoute(a, n) = "device" /\ DeviceAt(a) = OutPort /\ outReady = 1
               THEN Append(sent, Field(value, 0, ByteBits)) ELSE sent
  /\ UNCHANGED garbage
=============================================================================
