------------------------------ MODULE MemoryBus ------------------------------
(***************************************************************************)
(* The memory bus (src/src/common/dlx_memory_bus.c): where an access of 1,  *)
(* 2 or 4 bytes goes, what it does to the device it reaches, and when it is *)
(* a program error.  The contents of ROM and RAM are not modelled: an       *)
(* access to them changes no variable.                                      *)
(***************************************************************************)
EXTENDS InputPort, OutputPort, StartupCircuit, PowerManager, Timer

CONSTANTS
  AddressSpace,   \* number of addresses, 2^32 in the source
  RomSize,        \* DLX_ROM_SIZE; the ROM starts at 0
  RamBase,        \* DLX_RAM_BASE
  RamSize,        \* DLX_RAM_SIZE
  DevicesBase,    \* DLX_DEVICES_BASE
  DeviceBase      \* [Devices -> addresses], as setup_devices passes them

\* The devices, numbered in the order setup_devices registers them: the order
\* in which they are ticked and in which the bus looks an address up.
IC       == 1
Startup  == 2
InPort   == 3
OutPort  == 4
Power    == 5
TimerDev == 6

Devices  == 1..6
NoDevice == 0

RangeSize(d) == IF d = TimerDev THEN 8 ELSE 1

\* Devices whose read, and whose write, is not NULL.
Readable == Devices \ {Power}
Writable == Devices \ {IC, InPort}

Addresses == 0..(AddressSpace - 1)
Widths    == {1, 2, 4}

\* The memory map of dlx_defs.h: regions are made of whole words, in this
\* order, and every device range is above DevicesBase.
ASSUME MapAssumption ==
  /\ AddressSpace \in Nat \ {0} /\ AddressSpace % 4 = 0
  /\ RomSize \in Nat /\ RomSize % 4 = 0
  /\ RamBase \in Nat /\ RamBase % 4 = 0
  /\ RamSize \in Nat /\ RamSize % 4 = 0
  /\ DevicesBase \in Nat
  /\ RomSize <= RamBase
  /\ RamBase + RamSize <= DevicesBase
  /\ DeviceBase \in [Devices -> DevicesBase..(AddressSpace - 1)]

-----------------------------------------------------------------------------
\* Address decoding.

InRange(d, a) == a >= DeviceBase[d] /\ a < DeviceBase[d] + RangeSize(d)

\* get_device: the first registered device whose range holds the address.
Hits(a) == {d \in Devices : InRange(d, a)}

DeviceAt(a) ==
  IF a < DevicesBase \/ Hits(a) = {} THEN NoDevice
  ELSE CHOOSE d \in Hits(a) : \A e \in Hits(a) : d <= e

\* get_phys_ptr: the address is backed by the emulator's own memory.
InRom(a) == a < RomSize
InRam(a) == a >= RamBase /\ a < RamBase + RamSize
Backed(a) == InRom(a) \/ InRam(a)

\* Mutant: a word needs the alignment of a half-word.
AlignedToHalf(a, n) == n = 1 \/ a % 2 = 0

\* A byte access is never checked: a % 1 = 0.
Aligned(a, n) == a % n = 0

\* The order of the tests in dlx_memory_read_word, _half_word and _byte.
ReadRoute(a, n) ==
  IF ~Aligned(a, n) THEN "error"
  ELSE IF DeviceAt(a) \in Readable THEN "device"
  ELSE IF Backed(a) THEN "memory"
  ELSE "error"

\* The order of the tests in dlx_memory_write_word, _half_word and _byte.
WriteRoute(a, n) ==
  IF ~Aligned(a, n) \/ InRom(a) THEN "error"
  ELSE IF DeviceAt(a) \in Writable THEN "device"
  ELSE IF Backed(a) THEN "memory"
  ELSE "error"

-----------------------------------------------------------------------------
\* What an access does.

deviceVars == <<icVars, inputVars, outputVars, startup, timerVars>>
busVars    == <<deviceVars, execState>>

DeviceRead(d, offset, n) ==
  \/ d = IC /\ ICRead /\ UNCHANGED <<inputVars, outputVars, startup, timerVars>>
  \/ d \in {Startup, OutPort} /\ UNCHANGED deviceVars
  \/ d = InPort /\ InputRead /\ UNCHANGED <<outputVars, startup, timerVars>>
  \/ d = TimerDev /\ TimerRead(offset, n) /\ UNCHANGED <<inputVars, outputVars, startup>>

DeviceWrite(d, offset, data, n) ==
  \/ d = Startup /\ StartupWrite
     /\ UNCHANGED <<icVars, inputVars, outputVars, timerVars, execState>>
  \/ d = OutPort /\ OutputWrite
     /\ UNCHANGED <<icVars, inputVars, startup, timerVars, execState>>
  \/ d = Power /\ PowerManagerWrite /\ UNCHANGED deviceVars
  \/ d = TimerDev /\ TimerWrite(offset, data, n)
     /\ UNCHANGED <<inputVars, outputVars, startup, execState>>

\* A program error: reported, and fatal in strict mode only.
AccessError == FaultOrWarn /\ UNCHANGED deviceVars

BusRead(a, n) ==
  \/ /\ ReadRoute(a, n) = "device"
     /\ DeviceRead(DeviceAt(a), a - DeviceBase[DeviceAt(a)], n)
     /\ UNCHANGED execState
  \/ ReadRoute(a, n) = "memory" /\ UNCHANGED busVars
  \/ ReadRoute(a, n) = "error" /\ AccessError

BusWrite(a, data, n) ==
  \/ /\ WriteRoute(a, n) = "device"
     /\ DeviceWrite(DeviceAt(a), a - DeviceBase[DeviceAt(a)], data, n)
  \/ WriteRoute(a, n) = "memory" /\ UNCHANGED busVars
  \/ WriteRoute(a, n) = "error" /\ AccessError
=============================================================================
