----------------------------- MODULE CoreProofs ------------------------------
(***************************************************************************)
(* Proofs, for every program and every memory map, that the core with its   *)
(* data keeps its types, that each of its steps is a step of the machine    *)
(* whose instructions are left open, so that what MachineProofs proves      *)
(* holds of it too, that accesses out of place and faults disturb nothing,  *)
(* and that all accesses are those of the array of words.                   *)
(***************************************************************************)
EXTENDS CoreMemory, MachineProofs, MemoryProofs, WordProofs

\* The words of the source, with any way to number addresses that stays in the
\* address space, and a machine whose loads and stores are not restricted.  In
\* the source a word and its address are the same number below 2^32.
SourceCore ==
  /\ WordBits = 32 /\ ShiftBits = 5
  /\ \A w \in BitWord : /\ AddressOf(w) \in JumpTargets /\ AddressOf(w) \in DataAddresses
                        /\ Unsigned(w) \in StoredWords
  /\ \A a \in Addresses : WordOf(a) \in BitWord

\* CoreTypeOK says of `sent' only what it holds, and nothing of the RAM before it
\* is written.
DataInv ==
  /\ \A a \in DOMAIN memory : a \in Addresses /\ Backed(a) /\ memory[a] \in BitByte
  /\ garbage \in BitByte
  /\ sent \in Seq(BitByte)

RegistersInv == ir \in BitWord /\ gpr \in [Registers -> BitWord] /\ gpr[0] = {}

CoreInv == DataInv /\ RegistersInv /\ cycles \in Nat

-----------------------------------------------------------------------------
(* Words. *)

LEMMA SourceWords ==
  ASSUME SourceCore
  PROVE  /\ SourceWidth /\ WordBits = 32 /\ SignBit = 31 /\ HalfBits = 16
         /\ BitWord = SUBSET (0..31) /\ {} \in BitWord
BY DEF SourceCore, SourceWidth, Widest, SignBit, HalfBits, BitWord, Bits

\* A field of a word is as wide as it was cut.
LEMMA FieldRange == ASSUME NEW w, NEW lo, NEW n PROVE Field(w, lo, n) \in SUBSET Bits(n)
BY DEF Field

\* The operands of an instruction name general registers.
LEMMA Operands ==
  ASSUME SourceCore, NEW w
  PROVE  /\ Decode(w).ra \in Registers /\ Decode(w).rb \in Registers /\ Decode(w).rc \in Registers
         /\ Decode(w).imm16 \in Range16 /\ Decode(w).imm26 \in SUBSET (0..25)
<1>1. ASSUME NEW lo PROVE Unsigned(Field(w, lo, 5)) \in Registers
  <2>1. Field(w, lo, 5) \subseteq 0..(5 - 1) /\ 5 \in 0..Widest
    BY FieldRange DEF Bits, Widest
  <2>2. Unsigned(Field(w, lo, 5)) \in Nat /\ Unsigned(Field(w, lo, 5)) < 32
    BY <2>1, UnsignedOf, Weights
  <2> QED BY <2>2 DEF Registers, Bits, RegisterCount
<1>2. Field(w, 0, 16) \in Range16 /\ Field(w, 0, 26) \in SUBSET (0..25)
  BY FieldRange, SourceWords DEF Range16, Bits
<1> QED BY <1>1, <1>2 DEF Decode

\* Widening a field of at most a word gives a word.
LEMMA WidenedIsWord ==
  ASSUME SourceCore, NEW n \in 1..32, NEW f \in SUBSET Bits(n)
  PROVE  SignExtend(f, n) \in BitWord
<1>1. f \subseteq 0..31
  BY DEF Bits
<1>2. (n..SignBit) \subseteq 0..31
  BY SourceWords
<1> QED BY <1>1, <1>2, SourceWords DEF SignExtend

-----------------------------------------------------------------------------
(* Memory. *)

LEMMA ByteIsByte == ASSUME DataInv, NEW a PROVE ByteAt(a) \in BitByte
BY DEF DataInv, ByteAt, BitByte

\* n bytes make a value of 8 n bits.
LEMMA ValueRange8 ==
  ASSUME DataInv, NEW a, NEW n \in Widths
  PROVE  ValueAt(a, n) \in SUBSET Bits(8 * n)
<1>1. ASSUME NEW k \in 0..(n - 1)
      PROVE  Place(ByteAt(a + k), 8 * (n - 1 - k)) \subseteq Bits(8 * n)
  <2>1. ByteAt(a + k) \subseteq 0..7
    BY ByteIsByte DEF BitByte, ByteBits, Bits
  <2>2. ASSUME NEW j \in 0..7 PROVE j + 8 * (n - 1 - k) \in 0..(8 * n - 1)
    BY DEF Widths
  <2> QED BY <2>1, <2>2 DEF Place, Bits
<1> QED BY <1>1 DEF ValueAt, ByteBits

\* What the bus returns fits the width of the access, but for what a device
\* answers, which is a word.
LEMMA ReadIsWord ==
  ASSUME SourceCore, DataInv, NEW a, NEW n \in Widths
  PROVE  ReadValue(a, n) \in BitWord
<1>1. CASE ReadRoute(a, n) = "device"
  BY <1>1 DEF ReadValue, Pattern, BitWord
<1>2. CASE ReadRoute(a, n) = "memory"
  <2>1. ReadValue(a, n) = ValueAt(a, n)
    BY <1>2 DEF ReadValue
  <2>2. Bits(8 * n) \subseteq 0..31
    BY DEF Bits, Widths
  <2> QED BY <2>1, <2>2, ValueRange8, SourceWords
<1>3. CASE ReadRoute(a, n) = "error"
  BY <1>3, SourceWords DEF ReadValue
<1> QED BY <1>1, <1>2, <1>3 DEF ReadRoute

\* What a load makes of it is a word again.
LEMMA LoadedIsWord ==
  ASSUME SourceCore, DataInv, NEW a, NEW name, AccessWidth(name) \in Widths
  PROVE  LoadResult(name, ReadValue(a, AccessWidth(name))) \in BitWord
<1> DEFINE v == ReadValue(a, AccessWidth(name))
<1>1. v \in BitWord
  BY ReadIsWord
<1>2. SignExtend(v, 8 * AccessWidth(name)) \in BitWord
  <2>1. ((8 * AccessWidth(name))..SignBit) \subseteq 0..31
    BY SourceWords DEF Widths
  <2> HIDE DEF v
  <2> QED BY <1>1, <2>1, SourceWords DEF SignExtend
<1> QED BY <1>1, <1>2 DEF LoadResult

\* A store puts bytes, in the RAM only.
LEMMA StoreData ==
  ASSUME DataInv, NEW a \in Addresses, NEW v, NEW n \in Widths, BusStore(a, v, n)
  PROVE  DataInv'
<1>1. CASE WriteRoute(a, n) = "memory"
  <2>1. RamBase <= a /\ a + n <= RamBase + RamSize
    BY <1>1, WritesStayInRam
  <2>2. \A c \in a..(a + n - 1) : c \in Addresses /\ Backed(c)
    <3>1. RamBase \in Nat /\ RamSize \in Nat /\ DevicesBase \in Nat /\ AddressSpace \in Nat
          /\ RamBase + RamSize <= DevicesBase /\ DevicesBase <= AddressSpace - 1
      BY MapAssumption DEF Devices
    <3> QED BY <2>1, <3>1 DEF Addresses, Backed, InRam, Widths
  <2>3. \A k : StoredByte(v, n, k) \in BitByte
    BY FieldRange DEF StoredByte, BitByte
  <2>4. memory' = Stored(a, v, n)
    BY <1>1 DEF BusStore
  <2>5. \A c \in DOMAIN memory' : c \in Addresses /\ Backed(c) /\ memory'[c] \in BitByte
    <3> SUFFICES ASSUME NEW c \in DOMAIN memory'
                 PROVE  c \in Addresses /\ Backed(c) /\ memory'[c] \in BitByte
      OBVIOUS
    <3>1. CASE c \in a..(a + n - 1)
      BY <2>2, <2>3, <2>4, <3>1 DEF Stored
    <3>2. CASE c \notin a..(a + n - 1)
      BY <2>4, <3>2 DEF Stored, DataInv
    <3> QED BY <3>1, <3>2
  <2> QED BY <1>1, <2>5 DEF BusStore, DataInv
<1>2. CASE WriteRoute(a, n) # "memory"
  <2>1. memory' = memory /\ garbage' = garbage
    BY <1>2 DEF BusStore
  <2>2. sent' \in Seq(BitByte)
    <3>1. Field(v, 0, ByteBits) \in BitByte
      BY FieldRange DEF BitByte
    <3> QED BY <3>1 DEF BusStore, DataInv
  <2> QED BY <2>1, <2>2 DEF DataInv, Backed, InRom, InRam
<1> QED BY <1>1, <1>2

\* What a step leaves alone stays as it is.
LEMMA DataStays == ASSUME DataInv, UNCHANGED dataVars PROVE DataInv'
BY DEF DataInv, dataVars, Backed, InRom, InRam

-----------------------------------------------------------------------------
(* Registers. *)

LEMMA RegisterWords ==
  ASSUME RegistersInv, NEW r \in Registers
  PROVE  gpr[r] \in BitWord
BY DEF RegistersInv

\* Writing a register keeps the others, and R0 at 0.
LEMMA WriteIsTyped ==
  ASSUME SourceCore, RegistersInv, NEW r, NEW value \in BitWord, WriteRegister(r, value), ir' = ir
  PROVE  RegistersInv'
<1>1. 0 \in Registers
  BY DEF Registers, Bits, RegisterCount
<1> QED BY <1>1, SourceWords DEF WriteRegister, RegistersInv

-----------------------------------------------------------------------------
(* The execution of an instruction: each kind is an instruction of the machine *)
(* and leaves typed registers and memory. *)

\* Every result of the arithmetic unit is a word.
LEMMA AluInv ==
  ASSUME SourceCore, CoreInv, NEW w, ExecuteAlu(Decode(w)), ir' = ir
  PROVE  Execute /\ DataInv' /\ RegistersInv'
<1> DEFINE i == Decode(w)
<1>0. SourceWidth /\ HalfBits \in 0..WordBits
  BY SourceWords, HalfRange
<1>1. i.ra \in Registers /\ i.rb \in Registers /\ i.rc \in Registers /\ i.imm16 \in Range16
  BY Operands
<1>2. gpr[i.ra] \in BitWord /\ gpr[i.rb] \in BitWord
  BY <1>1, RegisterWords DEF CoreInv
<1> HIDE DEF i
<1>3. Compute /\ UNCHANGED dataVars
  BY DEF ExecuteAlu, Keeping, dataVars
<1>4. Execute /\ DataInv'
  BY <1>3, DataStays DEF Execute, CoreInv
<1>5. PICK r \in Registers, value \in BitWord : WriteRegister(r, value)
  <2>1. CASE i.name \in AluNames /\ WriteRegister(i.rc, Alu(i.name, gpr[i.ra], gpr[i.rb]))
    BY <1>0, <1>1, <1>2, <2>1, AluComputes
  <2>2. CASE i.name \in ImmediateNames /\ WriteRegister(i.rb, AluImmediate(i.name, gpr[i.ra], i.imm16))
    BY <1>0, <1>1, <1>2, <2>2, AluImmediateComputes
  <2>3. CASE WriteRegister(i.rb, LoadHigh(i.imm16))
    BY <1>1, <2>3 DEF LoadHigh, ShiftLeft, BitWord
  <2> QED BY <2>1, <2>2, <2>3 DEF ExecuteAlu, i
<1>6. RegistersInv'
  BY <1>5, WriteIsTyped DEF CoreInv
<1> QED BY <1>4, <1>6

\* So is the content of a special register.
LEMMA MoveFromSpecialInv ==
  ASSUME SourceCore, CoreInv, CpuTypes, NEW w, ExecuteMoveFromSpecial(Decode(w)), ir' = ir
  PROVE  Execute /\ DataInv' /\ RegistersInv'
<1> DEFINE i == Decode(w)
<1>1. Execute /\ DataInv'
  BY DataStays DEF ExecuteMoveFromSpecial, Keeping, dataVars, Execute, CoreInv
<1>2. SpecialValue(i.ra) \in BitWord
  <2>1. Truth(ien = 1) \in BitWord
    BY SourceWords DEF Truth
  <2>2. WordOf(iar) \in BitWord
    BY DEF SourceCore, CpuTypes
  <2>3. Pattern(cr, WordBits) \in BitWord
    BY DEF Pattern, BitWord
  <2>4. i.ra \in {SR, IAR, CR}
    BY DEF ExecuteMoveFromSpecial
  <2> HIDE DEF i
  <2> QED BY <2>1, <2>2, <2>3, <2>4 DEF SpecialValue, SR, IAR, CR
<1>3. RegistersInv'
  BY <1>2, WriteIsTyped DEF ExecuteMoveFromSpecial, CoreInv
<1> QED BY <1>1, <1>3

\* A move to a special register keeps of the word what the machine's has room for.
LEMMA MoveToSpecialInv ==
  ASSUME SourceCore, CoreInv, NEW w, ExecuteMoveToSpecial(Decode(w)), ir' = ir
  PROVE  Execute /\ DataInv' /\ RegistersInv'
<1>1. DataInv' /\ RegistersInv'
  BY DataStays DEF ExecuteMoveToSpecial, Keeping, dataVars, CoreInv, RegistersInv
<1>2. Execute
  BY DEF ExecuteMoveToSpecial, Execute
<1> QED BY <1>1, <1>2

\* Branches and jumps land in the address space.
LEMMA JumpInv ==
  ASSUME SourceCore, CoreInv, CpuTypes, NEW w, ir' = ir,
         ExecuteBranch(Decode(w)) \/ ExecuteJump(Decode(w))
  PROVE  Execute /\ DataInv' /\ RegistersInv'
<1> DEFINE i == Decode(w)
<1>1. Execute /\ DataInv'
  BY DataStays DEF ExecuteBranch, ExecuteJump, Keeping, dataVars, Execute, CoreInv
<1>2. CASE gpr' = gpr
  BY <1>1, <1>2 DEF CoreInv, RegistersInv
<1>3. CASE WriteRegister(LinkRegister, WordOf(pc))
  <2>1. WordOf(pc) \in BitWord
    BY DEF SourceCore, CpuTypes
  <2> QED BY <1>1, <1>3, <2>1, WriteIsTyped DEF CoreInv
<1> QED BY <1>1, <1>2, <1>3 DEF ExecuteBranch, ExecuteJump

\* The address of an access is one of the machine's, and a width it has.
LEMMA AccessRange ==
  ASSUME SourceCore, CoreInv, NEW w
  PROVE  /\ EffectiveAddress(Decode(w)) \in DataAddresses
         /\ EffectiveAddress(Decode(w)) \in Addresses
         /\ AccessWidth(Decode(w).name) \in Widths
BY PlusIsWord, ProgramAssumption DEF EffectiveAddress, SourceCore, AccessWidth, Widths

\* A load is a read of the bus whose value fits a register.
LEMMA LoadInv ==
  ASSUME SourceCore, CoreInv, NEW w, ExecuteLoad(Decode(w)), ir' = ir
  PROVE  Execute /\ DataInv' /\ RegistersInv'
<1> DEFINE i == Decode(w)
           a == EffectiveAddress(i)
           n == AccessWidth(i.name)
<1>1. a \in DataAddresses /\ a \in Addresses /\ n \in Widths
  BY AccessRange
<1>2. Load(a, n) /\ WriteRegister(i.rb, Loaded(i, a)) /\ UNCHANGED dataVars
  BY DEF ExecuteLoad, Keeping, dataVars
<1>3. Execute /\ DataInv'
  BY <1>1, <1>2, DataStays DEF Execute, CoreInv
<1>4. Loaded(i, a) \in BitWord
  <2>1. gpr[i.rb] \in BitWord
    BY Operands, RegisterWords DEF CoreInv
  <2>2. LoadResult(i.name, ReadValue(a, n)) \in BitWord
    BY <1>1, LoadedIsWord DEF CoreInv
  <2> QED BY <2>1, <2>2 DEF Loaded
<1>5. RegistersInv'
  BY <1>2, <1>4, WriteIsTyped DEF CoreInv
<1> QED BY <1>3, <1>5

\* A store is a write of the bus.
LEMMA StoreInv ==
  ASSUME SourceCore, CoreInv, NEW w, ExecuteStore(Decode(w)), ir' = ir
  PROVE  Execute /\ DataInv' /\ RegistersInv'
<1> DEFINE i == Decode(w)
           a == EffectiveAddress(i)
           n == AccessWidth(i.name)
<1>1. a \in DataAddresses /\ a \in Addresses /\ n \in Widths
  BY AccessRange
<1>2. BusStore(a, gpr[i.rb], n) /\ FallsThrough /\ gpr' = gpr
  BY DEF ExecuteStore
<1>3. Unsigned(gpr[i.rb]) \in StoredWords
  BY Operands, RegisterWords DEF CoreInv, SourceCore
<1>4. Execute
  BY <1>1, <1>2, <1>3 DEF Execute, Store, BusStore
<1>5. DataInv' /\ RegistersInv'
  BY <1>1, <1>2, StoreData DEF CoreInv, RegistersInv
<1> QED BY <1>4, <1>5

\* The other instructions touch neither registers nor memory.
LEMMA ControlInv ==
  ASSUME SourceCore, CoreInv, NEW w, ir' = ir,
         \/ ExecuteInterrupt(Decode(w)) \/ ExecuteRfe(Decode(w))
         \/ ExecuteReserved(Decode(w)) \/ ExecuteFailedFetch(Decode(w))
  PROVE  Execute /\ DataInv' /\ RegistersInv'
<1>1. Execute
  BY DEF ExecuteInterrupt, ExecuteRfe, ExecuteReserved, ExecuteFailedFetch, Execute
<1>2. UNCHANGED <<dataVars, gpr>>
  BY DEF ExecuteInterrupt, ExecuteRfe, ExecuteReserved, ExecuteFailedFetch, Keeping, dataVars
<1> QED BY <1>1, <1>2, DataStays DEF CoreInv, RegistersInv

-----------------------------------------------------------------------------
(* The whole step. *)

\* dlx_load_program leaves the bytes of a file that fits in the ROM, and the
\* registers start as --init-gpr says.
LEMMA CoreInitInv == ASSUME SourceCore, CoreInit PROVE CoreInv /\ IInv
<1> DEFINE binary == Programs[program]
<1>1. program \in DOMAIN Programs /\ memory = Image(binary)
  BY DEF CoreInit
<1>2. binary \in Seq(BitWord) /\ 4 * Len(binary) <= RomSize
  BY <1>1, CoreAssumption
<1>3. ASSUME NEW a \in DOMAIN memory
      PROVE  a \in Addresses /\ Backed(a) /\ memory[a] \in BitByte
  <2>1. a \in 0..(4 * Len(binary) - 1)
    BY <1>1 DEF Image
  <2>2. Len(binary) \in Nat
    BY <1>2
  <2>3. RomSize \in Nat /\ RomSize <= AddressSpace - 1 /\ AddressSpace \in Nat
    BY MapAssumption DEF Devices
  <2>4. a \in Addresses /\ Backed(a)
    BY <1>2, <2>1, <2>2, <2>3 DEF Addresses, Backed, InRom
  <2>5. \A v, k : StoredByte(v, 4, k) \in BitByte
    BY FieldRange DEF StoredByte, BitByte
  <2>6. memory[a] \in BitByte
    BY <1>1, <2>1, <2>5 DEF Image
  <2> QED BY <2>4, <2>6
<1>4. garbage \in BitByte /\ sent \in Seq(BitByte)
  BY GarbageAssumption DEF CoreInit
<1>5. RegistersInv
  BY CoreAssumption, SourceWords DEF CoreInit, RegistersInv, Registers, Bits, RegisterCount
<1>6. cycles \in Nat /\ Init
  BY DEF CoreInit
<1> QED BY <1>3, <1>4, <1>5, <1>6, InitInv DEF CoreInv, DataInv

\* Whatever the word fetched, its execution is one of an instruction the machine
\* may execute.
LEMMA CoreExecuteInv ==
  ASSUME SourceCore, CoreInv, CpuTypes, CoreExecute
  PROVE  Execute /\ CoreInv'
<1>1. ir' = ir /\ cycles' = cycles
  BY DEF CoreExecute
<1>2. Execute /\ DataInv' /\ RegistersInv'
  <2>1. CASE ExecuteAlu(Decode(ir))
    BY <1>1, <2>1, AluInv
  <2>2. CASE ExecuteMoveFromSpecial(Decode(ir))
    BY <1>1, <2>2, MoveFromSpecialInv
  <2>3. CASE ExecuteMoveToSpecial(Decode(ir))
    BY <1>1, <2>3, MoveToSpecialInv
  <2>4. CASE ExecuteBranch(Decode(ir)) \/ ExecuteJump(Decode(ir))
    BY <1>1, <2>4, JumpInv
  <2>5. CASE ExecuteLoad(Decode(ir))
    BY <1>1, <2>5, LoadInv
  <2>6. CASE ExecuteStore(Decode(ir))
    BY <1>1, <2>6, StoreInv
  <2>7. CASE \/ ExecuteInterrupt(Decode(ir)) \/ ExecuteRfe(Decode(ir))
             \/ ExecuteReserved(Decode(ir)) \/ ExecuteFailedFetch(Decode(ir))
    BY <1>1, <2>7, ControlInv
  <2> QED BY <2>1, <2>2, <2>3, <2>4, <2>5, <2>6, <2>7 DEF CoreExecute
<1> QED BY <1>1, <1>2 DEF CoreInv

\* A step of the core is a step of the machine, and keeps the types of the data.
LEMMA CoreStep ==
  ASSUME SourceCore, CoreInv, IInv, [CoreNext]_coreVars
  PROVE  [Next]_vars /\ CoreInv'
<1>0. CpuTypes
  BY IInvParts
<1>1. CASE CoreExecute
  BY <1>0, <1>1, CoreExecuteInv DEF Next, Thread
<1>2. CASE CoreFetch /\ UNCHANGED <<dataVars, program, cycles>>
  <2>1. Next
    BY <1>2 DEF CoreFetch, Next, Thread
  <2>2. ir' \in BitWord /\ gpr' = gpr
    BY <1>2, ReadIsWord DEF CoreFetch, CoreInv, Widths
  <2>3. DataInv'
    BY <1>2, DataStays DEF CoreInv
  <2> QED BY <1>2, <2>1, <2>2, <2>3 DEF CoreInv, RegistersInv
<1>3. ASSUME UNCHANGED <<dataVars, registerVars, program>>, cycles' \in {cycles, cycles + 1}
      PROVE  CoreInv'
  BY <1>3, DataStays DEF CoreInv, RegistersInv, registerVars
<1>4. CASE CoreDriver
  <2>1. Next
    BY <1>4 DEF CoreDriver, Next, Thread, Driver
  <2> QED BY <1>3, <1>4, <2>1 DEF CoreDriver
<1>5. CASE (Tick \/ TakeInterrupt \/ NoInterrupt \/ ResetLine) /\ UNCHANGED registerVars
           /\ UNCHANGED <<dataVars, program, cycles>>
  BY <1>3, <1>5 DEF Next, Thread
<1>6. CASE CoreTypes \/ CoreExited \/ UNCHANGED coreVars
  BY <1>3, <1>6 DEF CoreTypes, CoreExited, Next, coreVars
<1> QED BY <1>1, <1>2, <1>4, <1>5, <1>6 DEF CoreNext, CoreThread, CoreStages

-----------------------------------------------------------------------------
(* The theorems. *)

\* The invariant of the machine and the types of the data support each other:
\* the addresses and values of an access are in range because the registers hold
\* words, and they do because the machine's program counter stays in range.
THEOREM CoreInvariance ==
  ASSUME SourceCore
  PROVE  CoreSpec => [](CoreInv /\ IInv)
<1>1. CoreInit => CoreInv /\ IInv
  BY CoreInitInv
<1>2. CoreInv /\ IInv /\ [CoreNext]_coreVars => (CoreInv /\ IInv)'
  BY CoreStep, StepInv
<1> QED BY <1>1, <1>2, PTL DEF CoreSpec

\* Whatever program runs, general registers hold words, R0 holds 0, and what is
\* loaded and stored stays in the ROM and the RAM.
THEOREM CoreTypeCorrect ==
  ASSUME SourceCore
  PROVE  CoreSpec => []CoreTypeOK
<1>1. CoreInv => CoreTypeOK
  BY DEF CoreInv, DataInv, RegistersInv, CoreTypeOK
<1> QED BY <1>1, CoreInvariance, PTL

\* Every behaviour of the core running a program is one of the machine that
\* may execute any instruction.
THEOREM CoreIsMachine ==
  ASSUME SourceCore
  PROVE  CoreSpec => Spec
<1>1. CoreInit => Init
  BY DEF CoreInit
<1>2. CoreInv /\ IInv /\ [CoreNext]_coreVars => [Next]_vars
  BY CoreStep
<1> QED BY <1>1, <1>2, CoreInvariance, PTL DEF CoreSpec, Spec

\* So a program, too, never executes an instruction while an enabled request
\* waits, and drives the interrupt path as LevelInterrupts allows.
THEOREM ProgramsAreInterruptible ==
  ASSUME SourceCore
  PROVE  CoreSpec => []NoUnservicedFetch /\ ImplementsLevelInterrupts
BY CoreIsMachine, RequestsAreServed, Refinement, PTL

-----------------------------------------------------------------------------
(* Accesses out of place. *)

\* The instructions that access memory are those of ExecuteLoad and ExecuteStore
\* only.
LEMMA AccessesAlone ==
  ASSUME CoreExecute, phase = "exec", Decode(ir).name \in LoadNames \cup StoreNames
  PROVE  \/ Decode(ir).name \in LoadNames /\ ExecuteLoad(Decode(ir))
         \/ Decode(ir).name \in StoreNames /\ ExecuteStore(Decode(ir))
<1> DEFINE i == Decode(ir)
<1> HIDE DEF i
<1>1. i.name \in LoadNames \cup StoreNames
  BY DEF i
<1>2. /\ i.name \notin AluNames /\ i.name \notin ImmediateNames
      /\ i.name \notin {"LHI", "MOVS2I", "MOVI2S", "BEQZ", "BNEZ", "J", "JAL", "JR", "JALR",
                        "INT", "RFE", Reserved}
  BY <1>1 DEF LoadNames, StoreNames, AluNames, FuncTable, ImmediateNames, ImmediateOperation,
     Reserved
<1>3. ExecuteLoad(i) \/ ExecuteStore(i)
  BY <1>2 DEF CoreExecute, ExecuteAlu, ExecuteMoveFromSpecial, ExecuteMoveToSpecial,
     ExecuteBranch, ExecuteJump, ExecuteInterrupt, ExecuteRfe, ExecuteReserved,
     ExecuteFailedFetch, i
<1> QED BY <1>3 DEF ExecuteLoad, ExecuteStore, i

\* The bus, which looks at the first byte of an access only, rejects exactly the
\* reads and the writes with a byte out of place.
LEMMA InvalidReads ==
  ASSUME NEW a \in Addresses, NEW n \in Widths
  PROVE  InvalidRead(a, n) <=> ReadRoute(a, n) = "error"
<1>1. a \in a..(a + n - 1)
  BY DEF Addresses, Widths
<1>2. ASSUME ReadRoute(a, n) = "memory", NEW b \in a..(a + n - 1) PROVE Backed(b)
  <2>1. a + n <= RomSize \/ (RamBase <= a /\ a + n <= RamBase + RamSize)
    BY <1>2, ReadsStayInside
  <2> QED BY <2>1, MapAssumption DEF Backed, InRom, InRam, Addresses, Widths
<1> QED BY <1>1, <1>2 DEF InvalidRead, ReadRoute, Aligned

LEMMA InvalidWrites ==
  ASSUME NEW a \in Addresses, NEW n \in Widths
  PROVE  InvalidWrite(a, n) <=> WriteRoute(a, n) = "error"
<1>1. a \in a..(a + n - 1)
  BY DEF Addresses, Widths
<1>2. ASSUME WriteRoute(a, n) = "memory", NEW b \in a..(a + n - 1) PROVE InRam(b)
  <2>1. RamBase <= a /\ a + n <= RamBase + RamSize
    BY <1>2, WritesStayInRam
  <2> QED BY <2>1, MapAssumption DEF InRam, Addresses, Widths
<1>3. InRom(a) => ~InRam(a) /\ DeviceAt(a) \notin Writable
  BY MapAssumption DEF InRom, InRam, DeviceAt, NoDevice, Writable, Devices, Addresses
<1> QED BY <1>1, <1>2, <1>3 DEF InvalidWrite, WriteRoute, Aligned, Backed

LEMMA InvalidIsRejected ==
  ASSUME SourceCore, CoreInv, NEW w, InvalidAccess(Decode(w))
  PROVE  LET i == Decode(w)
             a == EffectiveAddress(i)
             n == AccessWidth(i.name)
         IN /\ i.name \in LoadNames  => ReadRoute(a, n) = "error"
            /\ i.name \in StoreNames => WriteRoute(a, n) = "error"
<1> DEFINE i == Decode(w)
           a == EffectiveAddress(i)
           n == AccessWidth(i.name)
<1>1. a \in Addresses /\ n \in Widths
  BY AccessRange
<1>2. \/ i.name \in LoadNames /\ InvalidRead(a, n)
      \/ i.name \in StoreNames /\ InvalidWrite(a, n)
  BY DEF InvalidAccess
<1>3. ~(i.name \in LoadNames /\ i.name \in StoreNames)
  BY DEF LoadNames, StoreNames
<1> HIDE DEF i, a, n
<1>4. /\ i.name \in LoadNames  => ReadRoute(a, n) = "error"
      /\ i.name \in StoreNames => WriteRoute(a, n) = "error"
  BY <1>1, <1>2, <1>3, InvalidReads, InvalidWrites
<1> QED BY <1>4 DEF i, a, n

\* A rejected read returns 0, and so does every load make of it.
LEMMA RejectedLoad ==
  ASSUME RegistersInv, NEW i, NEW a, i.name \in LoadNames,
         ReadRoute(a, AccessWidth(i.name)) = "error"
  PROVE  Loaded(i, a) = IF i.name = "LW" /\ execState' # "RUNNING" THEN gpr[i.rb] ELSE {}
<1>1. ReadValue(a, AccessWidth(i.name)) = {}
  BY DEF ReadValue
<1>2. LoadResult(i.name, {}) = {}
  BY DEF LoadResult, SignExtend
<1> QED BY <1>1, <1>2 DEF Loaded

\* What writing a register does to each of them.
LEMMA RegisterWritten ==
  ASSUME RegistersInv, NEW r \in Registers, NEW value, WriteRegister(r, value)
  PROVE  /\ gpr' \in [Registers -> {gpr[q] : q \in Registers} \cup {value, {}}]
         /\ \A q \in Registers : gpr'[q] = IF q = 0 THEN {} ELSE IF q = r THEN value ELSE gpr[q]
BY DEF WriteRegister, RegistersInv

\* A load out of place.
LEMMA InvalidLoad ==
  ASSUME SourceCore, CoreInv, IInv, phase = "exec", InvalidAccess(Decode(ir)),
         Decode(ir).name \in LoadNames, ExecuteLoad(Decode(ir))
  PROVE  /\ UNCHANGED <<deviceVars, memory, sent, cpuVars>>
         /\ execState' = IF StrictMode THEN "FAULT" ELSE "RUNNING"
         /\ OtherRegistersKept(Decode(ir))
         /\ gpr'[Decode(ir).rb]
              = IF StrictMode /\ Decode(ir).name = "LW" THEN gpr[Decode(ir).rb] ELSE {}
<1> DEFINE i == Decode(ir)
           a == EffectiveAddress(i)
<1>1. i.rb \in Registers
  BY Operands
<1>2. ReadRoute(a, AccessWidth(i.name)) = "error"
  BY InvalidIsRejected
<1>3. execState = "RUNNING"
  BY DEF IInv, StoppedRunsNothing
<1>4. /\ UNCHANGED <<deviceVars, memory, sent, cpuVars>>
      /\ execState' = IF StrictMode THEN "FAULT" ELSE "RUNNING"
  BY <1>2, <1>3 DEF ExecuteLoad, Keeping, Load, FallsThrough, BusRead, AccessError, FaultOrWarn
<1>5. WriteRegister(i.rb, Loaded(i, a))
  BY DEF ExecuteLoad
<1>6. Loaded(i, a) = IF i.name = "LW" /\ execState' # "RUNNING" THEN gpr[i.rb] ELSE {}
  BY <1>2, RejectedLoad DEF CoreInv
<1>7. RegistersInv /\ gpr[0] = {}
  BY DEF CoreInv, RegistersInv
<1> HIDE DEF i, a
<1>8. \A q \in Registers :
        gpr'[q] = IF q = 0 THEN {} ELSE IF q = i.rb THEN Loaded(i, a) ELSE gpr[q]
  BY <1>1, <1>5, <1>7, RegisterWritten
<1>9. OtherRegistersKept(i)
  BY <1>7, <1>8 DEF OtherRegistersKept
<1>10. gpr'[i.rb] = IF StrictMode /\ i.name = "LW" THEN gpr[i.rb] ELSE {}
  BY <1>1, <1>4, <1>6, <1>7, <1>8, StrictModeAssumption
<1> QED BY <1>4, <1>9, <1>10 DEF i

\* A store out of place.
LEMMA InvalidStore ==
  ASSUME SourceCore, CoreInv, IInv, phase = "exec", InvalidAccess(Decode(ir)),
         Decode(ir).name \in StoreNames, ExecuteStore(Decode(ir))
  PROVE  /\ UNCHANGED <<deviceVars, memory, sent, cpuVars, gpr>>
         /\ execState' = IF StrictMode THEN "FAULT" ELSE "RUNNING"
<1>1. WriteRoute(EffectiveAddress(Decode(ir)), AccessWidth(Decode(ir).name)) = "error"
  BY InvalidIsRejected
<1>2. execState = "RUNNING"
  BY DEF IInv, StoppedRunsNothing
<1> QED BY <1>1, <1>2 DEF ExecuteStore, FallsThrough, BusStore, BusWrite, AccessError, FaultOrWarn

\* An access with a byte out of place changes nothing but the register a load
\* zeroes, for every program, every register content and every memory map.
THEOREM InvalidAccessStaysHarmless ==
  ASSUME SourceCore
  PROVE  CoreSpec => InvalidAccessIsHarmless
<1> DEFINE Harmless ==
             LET i == Decode(ir) IN
             phase = "exec" /\ phase' = "reset" /\ InvalidAccess(i) =>
               /\ UNCHANGED <<deviceVars, memory, sent, pc>>
               /\ OtherRegistersKept(i)
               /\ i.name \in StoreNames => gpr' = gpr
               /\ i.name \in LoadNames =>
                    gpr'[i.rb] = IF StrictMode /\ i.name = "LW" THEN gpr[i.rb] ELSE {}
               /\ execState' = IF StrictMode THEN "FAULT" ELSE "RUNNING"
<1>1. CoreInv /\ IInv /\ [CoreNext]_coreVars => [Harmless]_coreVars
  <2> SUFFICES ASSUME CoreInv, IInv, CoreNext, phase = "exec", phase' = "reset",
                      InvalidAccess(Decode(ir))
               PROVE  Harmless
    OBVIOUS
  <2> DEFINE i == Decode(ir)
  <2>1. CoreExecute
    BY DEF CoreNext, CoreThread, CoreDriver, CoreStages, CoreTypes, CoreExited, StartCycle,
       Signal, LeaveLoop, CycleLimit, NextCycle, Tick, TickIC, TickInput, TickOutput,
       TickTimer, TickNull, TickOf, TakeInterrupt, NoInterrupt, ResetLine, CoreFetch, Fetch,
       UserTypes, Exited
  <2>2. i.name \in LoadNames \cup StoreNames
    BY DEF InvalidAccess
  <2>3. CASE i.name \in LoadNames /\ ExecuteLoad(i)
    <3>1. i.name \notin StoreNames
      BY <2>3 DEF LoadNames, StoreNames
    <3> QED BY <2>3, <3>1, InvalidLoad DEF cpuVars
  <2>4. CASE i.name \in StoreNames /\ ExecuteStore(i)
    <3>1. i.name \notin LoadNames
      BY <2>4 DEF LoadNames, StoreNames
    <3> QED BY <2>4, <3>1, InvalidStore DEF cpuVars, OtherRegistersKept
  <2> QED BY <2>1, <2>2, <2>3, <2>4, AccessesAlone
<1> QED BY <1>1, CoreInvariance, PTL DEF CoreSpec, InvalidAccessIsHarmless

-----------------------------------------------------------------------------
(* Stopping on a fault. *)

\* A read or a write that faults was rejected.
LEMMA ReadFaults ==
  ASSUME NEW a, NEW n, BusRead(a, n), execState = "RUNNING", execState' = "FAULT"
  PROVE  ReadRoute(a, n) = "error" /\ UNCHANGED deviceVars
BY DEF BusRead, AccessError, busVars

LEMMA WriteFaults ==
  ASSUME NEW a, NEW n, NEW v, BusWrite(a, v, n), execState = "RUNNING", execState' = "FAULT"
  PROVE  WriteRoute(a, n) = "error" /\ UNCHANGED deviceVars
BY DEF BusWrite, DeviceWrite, PowerManagerWrite, AccessError, busVars

\* A load that faults leaves its register, or sets it to 0.
LEMMA LoadFaults ==
  ASSUME SourceCore, CoreInv, ExecuteLoad(Decode(ir)), execState = "RUNNING", execState' = "FAULT"
  PROVE  /\ UNCHANGED <<deviceVars, memory, sent, cpuVars>>
         /\ gpr' = gpr \/ \E r \in Registers : gpr' = [gpr EXCEPT ![r] = {}]
<1> DEFINE i == Decode(ir)
           a == EffectiveAddress(i)
<1>1. i.rb \in Registers /\ i.name \in LoadNames
  BY Operands DEF ExecuteLoad
<1>2. BusRead(a, AccessWidth(i.name)) /\ UNCHANGED <<memory, sent, cpuVars>>
      /\ WriteRegister(i.rb, Loaded(i, a))
  BY DEF ExecuteLoad, Load, FallsThrough, Keeping
<1>3. RegistersInv /\ gpr \in [Registers -> BitWord] /\ gpr[0] = {} /\ 0 \in Registers
  BY DEF CoreInv, RegistersInv, Registers, Bits, RegisterCount
<1> HIDE DEF i, a
<1>4. ReadRoute(a, AccessWidth(i.name)) = "error" /\ UNCHANGED deviceVars
  BY <1>2, ReadFaults
<1>5. Loaded(i, a) = IF i.name = "LW" /\ execState' # "RUNNING" THEN gpr[i.rb] ELSE {}
  BY <1>1, <1>3, <1>4, RejectedLoad
<1>6. gpr' = [gpr EXCEPT ![i.rb] = Loaded(i, a), ![0] = {}]
  BY <1>2 DEF WriteRegister
<1>7. CASE Loaded(i, a) = gpr[i.rb]
  BY <1>1, <1>2, <1>3, <1>4, <1>6, <1>7
<1>8. CASE Loaded(i, a) = {}
  <2>1. gpr' = [gpr EXCEPT ![i.rb] = {}]
    BY <1>1, <1>3, <1>6, <1>8
  <2> QED BY <1>1, <1>2, <1>4, <2>1
<1> QED BY <1>5, <1>7, <1>8

\* Whatever program error stops the machine, in a fetch, in an instruction or in
\* an access, it finds the machine as the instruction found it.
THEOREM FaultsStopInPlace ==
  ASSUME SourceCore
  PROVE  CoreSpec => StopsInPlace
<1> DEFINE Kept ==
             /\ UNCHANGED <<deviceVars, memory, sent, ien, iar, cr>>
             /\ gpr' = gpr \/ \E r \in Registers : gpr' = [gpr EXCEPT ![r] = {}]
<1>1. CoreInv /\ IInv /\ [CoreNext]_coreVars =>
        [execState = "RUNNING" /\ execState' = "FAULT" => Kept]_coreVars
  <2> SUFFICES ASSUME CoreInv, IInv, CoreNext, execState = "RUNNING", execState' = "FAULT"
               PROVE  Kept
    OBVIOUS
  <2>1. ~CoreDriver /\ ~CoreTypes /\ ~CoreExited
    BY DEF CoreDriver, CoreTypes, CoreExited, StartCycle, Signal, LeaveLoop, CycleLimit,
       NextCycle, UserTypes, Exited, vars, busVars
  <2>2. CASE CoreStages
    <3>1. CoreFetch /\ UNCHANGED dataVars
      BY <2>2 DEF CoreStages, Tick, TickIC, TickInput, TickOutput, TickTimer, TickNull, TickOf,
         TakeInterrupt, NoInterrupt, ResetLine, busVars
    <3> QED BY <3>1, ReadFaults DEF CoreFetch, Fetch, dataVars
  <2>3. CASE CoreExecute
    <3> DEFINE i == Decode(ir)
    <3>1. CASE ExecuteLoad(i)
      BY <3>1, LoadFaults DEF cpuVars
    <3>2. CASE ExecuteStore(i)
      BY <3>2, WriteFaults DEF ExecuteStore, FallsThrough, BusStore, cpuVars
    <3>3. CASE ExecuteInterrupt(i) \/ ExecuteReserved(i) \/ ExecuteFailedFetch(i)
      BY <3>3 DEF ExecuteInterrupt, ExecuteReserved, ExecuteFailedFetch, Keeping, Compute,
         DebugStop, SoftwareInterrupt, NestedInterrupt, Unimplemented, ExecuteUnknown,
         FallsThrough, AccessError, cpuVars, busVars
    <3>4. ~ExecuteAlu(i) /\ ~ExecuteMoveFromSpecial(i) /\ ~ExecuteMoveToSpecial(i)
          /\ ~ExecuteBranch(i) /\ ~ExecuteJump(i) /\ ~ExecuteRfe(i)
      BY DEF ExecuteAlu, ExecuteMoveFromSpecial, ExecuteMoveToSpecial, ExecuteBranch,
         ExecuteJump, ExecuteRfe, Compute, MoveToSpecial, Jump, Rfe, FallsThrough, busVars
    <3> QED BY <2>3, <3>1, <3>2, <3>3, <3>4 DEF CoreExecute
  <2> QED BY <2>1, <2>2, <2>3 DEF CoreNext, CoreThread
<1> QED BY <1>1, CoreInvariance, PTL DEF CoreSpec, StopsInPlace

-----------------------------------------------------------------------------
(* When the machine faults. *)

\* An access faults in strict mode, if it is rejected, and then only.
LEMMA AccessFaults ==
  ASSUME NEW a, NEW n, execState = "RUNNING"
  PROVE  /\ BusRead(a, n) => (execState' = "FAULT" <=> StrictMode /\ ReadRoute(a, n) = "error")
         /\ \A v : BusWrite(a, v, n) =>
                     (execState' = "FAULT" <=> StrictMode /\ WriteRoute(a, n) = "error")
<1>1. BusRead(a, n) => (execState' = "FAULT" <=> StrictMode /\ ReadRoute(a, n) = "error")
  BY DEF BusRead, AccessError, FaultOrWarn, busVars
<1>2. ASSUME NEW v, BusWrite(a, v, n)
      PROVE  execState' = "FAULT" <=> StrictMode /\ WriteRoute(a, n) = "error"
  BY <1>2 DEF BusWrite, DeviceWrite, PowerManagerWrite, AccessError, FaultOrWarn, busVars
<1> QED BY <1>1, <1>2

\* The instructions that neither access memory nor may be unknown.
LEMMA PlainNames ==
  ASSUME NEW name,
         \/ name \in AluNames \cup ImmediateNames
         \/ name \in {"LHI", "BEQZ", "BNEZ", "J", "JAL", "JR", "JALR", "RFE"}
  PROVE  name \notin LoadNames \cup StoreNames \cup {"INT", "MOVI2S", "MOVS2I", Reserved}
BY DEF LoadNames, StoreNames, AluNames, FuncTable, ImmediateNames, ImmediateOperation, Reserved

LEMMA AccessNames ==
  ASSUME NEW name \in LoadNames \cup StoreNames
  PROVE  /\ name \notin {"INT", "MOVI2S", "MOVS2I", Reserved}
         /\ name \in LoadNames <=> name \notin StoreNames
BY DEF LoadNames, StoreNames, Reserved

\* Of the accesses.
LEMMA AccessFaultsAsDocumented ==
  ASSUME SourceCore, CoreInv, execState = "RUNNING",
         ExecuteLoad(Decode(ir)) \/ ExecuteStore(Decode(ir))
  PROVE  /\ phase = "exec" /\ phase' = "reset" /\ ~NestedTrap
         /\ execState' = "FAULT" <=> StrictMode /\ ProgramError
<1> DEFINE i == Decode(ir)   a == EffectiveAddress(i)   n == AccessWidth(i.name)
<1>1. a \in Addresses /\ n \in Widths
  BY AccessRange
<1>2. phase = "exec" /\ phase' = "reset" /\ i.name \in LoadNames \cup StoreNames
  BY DEF ExecuteLoad, ExecuteStore, Load, FallsThrough, Executing
<1>3. \/ i.name \in LoadNames  /\ BusRead(a, n)
      \/ i.name \in StoreNames /\ BusWrite(a, Unsigned(gpr[i.rb]), n)
  BY DEF ExecuteLoad, ExecuteStore, Load, BusStore
<1>4. ProgramError <=> \/ i.name \in LoadNames  /\ InvalidRead(a, n)
                       \/ i.name \in StoreNames /\ InvalidWrite(a, n)
  BY <1>2, AccessNames DEF ProgramError, InvalidAccess, UnknownInstruction
<1>5. ~NestedTrap
  BY <1>2, AccessNames DEF NestedTrap
<1> HIDE DEF i, a, n
<1> QED BY <1>1, <1>2, <1>3, <1>4, <1>5, AccessNames, AccessFaults, InvalidReads, InvalidWrites

\* Of the other instructions.
LEMMA OtherFaultsAsDocumented ==
  ASSUME SourceCore, CoreInv, execState = "RUNNING", CoreExecute,
         ~ExecuteLoad(Decode(ir)), ~ExecuteStore(Decode(ir))
  PROVE  /\ phase # "fetch" /\ phase' # phase
         /\ execState' = "FAULT" <=> NestedTrap \/ (StrictMode /\ ProgramError)
<1> DEFINE i == Decode(ir)
<1>1. i.ra \in 0..31 /\ i.rc \in 0..31
  BY Operands DEF Registers, Bits, RegisterCount
<1>2. StrictMode \in BOOLEAN /\ "MOVI2S" \notin LoadNames \cup StoreNames
      /\ {"MOVS2I", "INT", Reserved} \cap (LoadNames \cup StoreNames) = {}
  BY StrictModeAssumption DEF LoadNames, StoreNames, Reserved
<1>3. CASE ExecuteAlu(i) \/ ExecuteBranch(i) \/ ExecuteJump(i) \/ ExecuteRfe(i)
  <2>1. /\ phase = "exec" /\ phase' = "reset" /\ execState' = execState
        /\ \/ i.name \in AluNames \cup ImmediateNames
           \/ i.name \in {"LHI", "BEQZ", "BNEZ", "J", "JAL", "JR", "JALR", "RFE"}
    BY <1>3 DEF ExecuteAlu, ExecuteBranch, ExecuteJump, ExecuteRfe, Compute, Jump, Rfe,
       FallsThrough, Executing, busVars
  <2>2. ~NestedTrap /\ ~ProgramError
    BY <2>1, PlainNames DEF NestedTrap, ProgramError, InvalidAccess, UnknownInstruction
  <2> QED BY <2>1, <2>2
<1>4. CASE ExecuteMoveFromSpecial(i) \/ ExecuteMoveToSpecial(i)
  <2>1. /\ phase = "exec" /\ phase' = "reset" /\ execState' = execState
        /\ \/ i.name = "MOVS2I" /\ i.ra \in 0..2
           \/ i.name = "MOVI2S" /\ i.rc \in 0..2
    BY <1>4 DEF ExecuteMoveFromSpecial, ExecuteMoveToSpecial, Compute, MoveToSpecial,
       FallsThrough, Executing, busVars, SR, IAR, CR
  <2>2. ~NestedTrap /\ ~ProgramError
    BY <1>2, <2>1 DEF NestedTrap, ProgramError, InvalidAccess, UnknownInstruction, Reserved
  <2> QED BY <2>1, <2>2
<1>5. CASE ExecuteInterrupt(i)
  <2>1. i.name = "INT" /\ phase = "exec" /\ phase' = "reset"
    BY <1>5 DEF ExecuteInterrupt, Compute, DebugStop, SoftwareInterrupt, NestedInterrupt,
       Unimplemented, FallsThrough, Executing
  <2>2. /\ ProgramError <=> InterruptCode(i) \notin {128, 240, 241, 242}
        /\ NestedTrap <=> ien = 0 /\ InterruptCode(i) = 128
    BY <1>2, <2>1 DEF NestedTrap, ProgramError, InvalidAccess, UnknownInstruction, Reserved
  <2>3. execState' = "FAULT" <=>
          \/ ien = 0 /\ InterruptCode(i) = 128
          \/ StrictMode /\ InterruptCode(i) \notin {128, 240, 241, 242}
    BY <1>5 DEF ExecuteInterrupt, Compute, DebugStop, SoftwareInterrupt, NestedInterrupt,
       Unimplemented, FallsThrough, AccessError, FaultOrWarn, busVars, StartTimer, StopTimer,
       Halt, SoftwareCause
  <2> QED BY <2>1, <2>2, <2>3
<1>6. CASE ExecuteReserved(i) \/ ExecuteFailedFetch(i)
  <2>1. /\ phase \in {"exec", "unknown"} /\ phase' = "reset"
        /\ execState' = IF StrictMode THEN "FAULT" ELSE execState
    BY <1>6 DEF ExecuteReserved, ExecuteFailedFetch, Unimplemented, ExecuteUnknown,
       FallsThrough, Executing, AccessError, FaultOrWarn
  <2>2. i.name # "INT" /\ UnknownInstruction(i)
    BY <1>1, <1>6 DEF ExecuteReserved, ExecuteFailedFetch, UnknownInstruction, Reserved, SR, IAR, CR
  <2>3. ~NestedTrap /\ ProgramError
    BY <2>1, <2>2 DEF NestedTrap, ProgramError
  <2> QED BY <1>2, <2>1, <2>3
<1> QED BY <1>3, <1>4, <1>5, <1>6 DEF CoreExecute

\* For every program, every memory map and both modes, the machine stops on a
\* fault at the errors the documents list and at nothing else.
THEOREM ProgramsFaultAsDocumented ==
  ASSUME SourceCore
  PROVE  CoreSpec => FaultsAsDocumented
<1> DEFINE Listed ==
             execState = "RUNNING" =>
               (execState' = "FAULT" <=>
                  phase' # phase /\ (NestedTrap \/ (StrictMode /\ ProgramError)))
<1>1. CoreInv /\ IInv /\ [CoreNext]_coreVars => [Listed]_coreVars
  <2> SUFFICES ASSUME CoreInv, IInv, CoreNext, execState = "RUNNING"
               PROVE  execState' = "FAULT" <=>
                        phase' # phase /\ (NestedTrap \/ (StrictMode /\ ProgramError))
    OBVIOUS
  <2>1. CASE CoreDriver \/ CoreTypes \/ CoreExited
    <3>1. execState' # "FAULT" /\ (phase' = phase \/ phase \notin {"fetch", "exec", "unknown"})
      BY <2>1 DEF CoreDriver, CoreTypes, CoreExited, StartCycle, Signal, LeaveLoop, CycleLimit,
         NextCycle, UserTypes, Exited, vars, busVars
    <3> QED BY <3>1 DEF NestedTrap, ProgramError
  <2>2. CASE Tick \/ TakeInterrupt \/ NoInterrupt \/ ResetLine
    <3>1. execState' # "FAULT" /\ phase \notin {"fetch", "exec", "unknown"}
      BY <2>2 DEF Tick, TickIC, TickInput, TickOutput, TickTimer, TickNull, TickOf,
         TakeInterrupt, NoInterrupt, ResetLine, busVars
    <3> QED BY <3>1 DEF NestedTrap, ProgramError
  <2>3. CASE CoreFetch
    <3>1. phase = "fetch" /\ phase' # phase /\ BusRead(pc, 4)
      BY <2>3 DEF CoreFetch, Fetch
    <3>2. pc \in Addresses /\ 4 \in Widths
      BY IInvParts DEF CpuTypes, Widths
    <3>3. ~NestedTrap /\ (ProgramError <=> InvalidRead(pc, 4))
      BY <3>1 DEF NestedTrap, ProgramError
    <3> QED BY <3>1, <3>2, <3>3, AccessFaults, InvalidReads
  <2>4. CASE CoreExecute
    <3>1. CASE ExecuteLoad(Decode(ir)) \/ ExecuteStore(Decode(ir))
      BY <3>1, AccessFaultsAsDocumented
    <3>2. CASE ~ExecuteLoad(Decode(ir)) /\ ~ExecuteStore(Decode(ir))
      BY <2>4, <3>2, OtherFaultsAsDocumented
    <3> QED BY <3>1, <3>2
  <2> QED BY <2>1, <2>2, <2>3, <2>4 DEF CoreNext, CoreThread, CoreStages
<1> QED BY <1>1, CoreInvariance, PTL DEF CoreSpec, FaultsAsDocumented

-----------------------------------------------------------------------------
(* The ROM. *)

\* Only a store changes the RAM.
LEMMA OthersKeepMemory ==
  ASSUME CoreNext, ~(CoreExecute /\ ExecuteStore(Decode(ir)))
  PROVE  UNCHANGED <<memory, garbage>>
<1>1. CASE CoreExecute
  BY <1>1 DEF CoreExecute, ExecuteAlu, ExecuteMoveFromSpecial, ExecuteMoveToSpecial,
     ExecuteBranch, ExecuteJump, ExecuteLoad, ExecuteInterrupt, ExecuteRfe, ExecuteReserved,
     ExecuteFailedFetch, Keeping
<1>2. CASE ~CoreExecute
  BY <1>2 DEF CoreNext, CoreThread, CoreDriver, CoreStages, CoreTypes, CoreExited, dataVars
<1> QED BY <1>1, <1>2

\* No step changes a byte of the ROM (the writable flag of get_phys_ptr).
LEMMA RomStep ==
  ASSUME SourceCore, CoreInv, [CoreNext]_coreVars, NEW place \in 0..(RomSize - 1)
  PROVE  ByteAt(place)' = ByteAt(place)
<1>1. InRom(place)
  BY MapAssumption DEF InRom
<1>2. CASE UNCHANGED <<memory, garbage>>
  BY <1>2 DEF ByteAt, InRom
<1>3. CASE CoreExecute /\ ExecuteStore(Decode(ir))
  <2> DEFINE a == EffectiveAddress(Decode(ir))
             n == AccessWidth(Decode(ir).name)
             v == gpr[Decode(ir).rb]
  <2>1. a \in Addresses /\ n \in Widths /\ BusStore(a, v, n)
    BY <1>3, AccessRange DEF ExecuteStore
  <2> HIDE DEF a, n, v
  <2>2. CASE WriteRoute(a, n) # "memory"
    BY <1>2, <2>1, <2>2 DEF BusStore
  <2>3. CASE WriteRoute(a, n) = "memory"
    <3>1. RamBase <= a /\ RomSize <= RamBase /\ RamBase \in Nat /\ RomSize \in Nat
      BY <2>1, <2>3, WritesStayInRam, MapAssumption
    <3>2. place \notin a..(a + n - 1)
      BY <2>1, <3>1 DEF Addresses, Widths
    <3>3. memory' = Stored(a, v, n)
      BY <2>1, <2>3 DEF BusStore
    <3>4. /\ place \in DOMAIN memory' <=> place \in DOMAIN memory
          /\ place \in DOMAIN memory => memory'[place] = memory[place]
      BY <3>2, <3>3 DEF Stored
    <3> QED BY <1>1, <3>4 DEF ByteAt, InRom
  <2> QED BY <2>2, <2>3
<1>4. CASE CoreNext /\ ~(CoreExecute /\ ExecuteStore(Decode(ir)))
  BY <1>2, <1>4, OthersKeepMemory
<1>5. CASE UNCHANGED coreVars
  BY <1>2, <1>5 DEF coreVars, dataVars
<1> QED BY <1>3, <1>4, <1>5

\* The four bytes of a word, put together again, are the word.
LEMMA WordOfItsBytes ==
  ASSUME SourceCore, NEW v \in BitWord, NEW a,
         \A k \in 0..3 : ByteAt(a + k) = StoredByte(v, 4, k)
  PROVE  ValueAt(a, 4) = v
<1>1. ValueAt(a, 4) = UNION {Place(StoredByte(v, 4, k), 8 * (3 - k)) : k \in 0..3}
  BY DEF ValueAt, ByteBits
<1>2. \A k \in 0..3 : Place(StoredByte(v, 4, k), 8 * (3 - k))
                     = {j + 8 * (3 - k) : j \in {j \in 0..7 : j + 8 * (3 - k) \in v}}
  BY DEF Place, StoredByte, Field, ByteBits, Bits
<1>3. ASSUME NEW b \in v PROVE b \in ValueAt(a, 4)
  <2>1. b \in 0..31
    BY SourceWords
  <2>2. PICK k \in 0..3, j \in 0..7 : b = j + 8 * (3 - k)
    <3>1. 3 - (b \div 8) \in 0..3 /\ b % 8 \in 0..7 /\ b = (b % 8) + 8 * (3 - (3 - (b \div 8)))
      BY <2>1
    <3> QED BY <3>1
  <2> QED BY <1>1, <1>2, <2>2
<1>4. ASSUME NEW b \in ValueAt(a, 4) PROVE b \in v
  BY <1>1, <1>2, <1>4
<1> QED BY <1>3, <1>4

\* The ROM holds the program, byte by byte.
ProgramLoaded ==
  /\ program \in DOMAIN Programs
  /\ \A place \in DOMAIN Image(Programs[program]) : ByteAt(place) = Image(Programs[program])[place]

\* What is fetched below the end of the program is the instruction the binary has
\* there, whatever was stored before.
THEOREM CoreFetchesTheProgram ==
  ASSUME SourceCore
  PROVE  CoreSpec => FetchesTheProgram
<1> DEFINE binary == Programs[program]
<1>0. ASSUME ProgramLoaded
      PROVE  /\ binary \in Seq(BitWord) /\ Len(binary) \in Nat
             /\ RomSize \in Nat /\ 4 * Len(binary) <= RomSize
             /\ DOMAIN Image(binary) = 0..(4 * Len(binary) - 1)
  BY <1>0, CoreAssumption, MapAssumption DEF ProgramLoaded, Image
<1>1. CoreInit => ProgramLoaded
  BY DEF CoreInit, ProgramLoaded, ByteAt
<1>2. ProgramLoaded /\ CoreInv /\ IInv /\ [CoreNext]_coreVars => ProgramLoaded'
  <2> SUFFICES ASSUME ProgramLoaded, CoreInv, [CoreNext]_coreVars PROVE ProgramLoaded'
    OBVIOUS
  <2>1. program' = program
    BY DEF CoreNext, CoreThread, CoreDriver, CoreStages, CoreExecute, CoreTypes, CoreExited, coreVars
  <2>2. \A place \in DOMAIN Image(binary) : ByteAt(place)' = ByteAt(place)
    BY <1>0, RomStep
  <2>3. Image(binary)' = Image(binary)
    BY <2>1 DEF Image, StoredByte
  <2> QED BY <2>1, <2>2, <2>3 DEF ProgramLoaded
<1>3. ProgramLoaded /\ CoreInv /\ IInv /\ [CoreNext]_coreVars =>
        [phase = "fetch" /\ phase' = "exec" /\ pc < 4 * Len(binary) =>
           ir' = binary[pc \div 4 + 1]]_coreVars
  <2> SUFFICES ASSUME ProgramLoaded, CoreInv, IInv, CoreNext, phase = "fetch", phase' = "exec",
                      pc < 4 * Len(binary)
               PROVE  ir' = binary[pc \div 4 + 1]
    OBVIOUS
  <2>1. Fetch /\ ir' = ReadValue(pc, 4)
    BY DEF CoreNext, CoreThread, CoreDriver, CoreStages, CoreExecute, CoreTypes, CoreExited,
       StartCycle, Signal, LeaveLoop, CycleLimit, NextCycle, Tick, TickIC, TickInput,
       TickOutput, TickTimer, TickNull, TickOf, TakeInterrupt, NoInterrupt, ResetLine,
       CoreFetch, UserTypes, Exited
  <2>2. ReadRoute(pc, 4) # "error"
    BY <2>1 DEF Fetch
  <2>3. pc \in Addresses /\ pc \in Nat
    BY IInvParts DEF CpuTypes, Addresses
  <2>4. DeviceAt(pc) \notin Readable
    <3>1. pc < DevicesBase
      BY <1>0, <2>3, MapAssumption
    <3> QED BY <3>1 DEF DeviceAt, Readable, Devices, NoDevice
  <2>5. ReadRoute(pc, 4) = "memory" /\ pc % 4 = 0
    BY <2>2, <2>4 DEF ReadRoute, Aligned
  <2>6. ir' = ValueAt(pc, 4)
    BY <2>1, <2>5 DEF ReadValue
  <2>7. pc \div 4 + 1 \in 1..Len(binary)
    BY <1>0, <2>3
  <2>8. binary[pc \div 4 + 1] \in BitWord
    BY <1>0, <2>7
  <2>9. \A k \in 0..3 : ByteAt(pc + k) = StoredByte(binary[pc \div 4 + 1], 4, k)
    <3> TAKE k \in 0..3
    <3>1. (pc + k) \div 4 = pc \div 4 /\ (pc + k) % 4 = k
      BY <2>3, <2>5
    <3>2. pc + k \in 0..(4 * Len(binary) - 1)
      BY <1>0, <2>3, <2>5
    <3> QED BY <1>0, <3>1, <3>2 DEF ProgramLoaded, Image
  <2> HIDE DEF binary
  <2> QED BY <2>6, <2>8, <2>9, WordOfItsBytes
<1> QED BY <1>1, <1>2, <1>3, CoreInvariance, PTL DEF CoreSpec, FetchesTheProgram

-----------------------------------------------------------------------------
(* The array of words. *)

\* A step out of the fetch stage fetches, and one from execution to the reset of the
\* line executes.
LEMMA StepsOfPhases ==
  ASSUME CoreNext
  PROVE  /\ phase = "fetch" /\ phase' # "fetch" => CoreFetch
         /\ phase = "exec" /\ phase' = "reset" => CoreExecute
BY DEF CoreNext, CoreThread, CoreDriver, CoreStages, CoreExecute, CoreTypes, CoreExited,
   StartCycle, Signal, LeaveLoop, CycleLimit, NextCycle, Tick, TickIC, TickInput, TickOutput,
   TickTimer, TickNull, TickOf, TakeInterrupt, NoInterrupt, ResetLine, CoreFetch, Fetch,
   UserTypes, Exited

\* A load puts in its register what the bus returned.
LEMMA LoadDelivers ==
  ASSUME SourceCore, CoreInv, NEW w, ExecuteLoad(Decode(w))
  PROVE  LET i == Decode(w)   a == EffectiveAddress(i)   n == AccessWidth(i.name) IN
         /\ WordArray!LoadStep(a, n, ReadValue(a, n))
         /\ gpr'[i.rb] = IF i.rb = 0 \/ (i.name = "LW" /\ execState' # "RUNNING")
                           THEN gpr[i.rb] ELSE LoadResult(i.name, ReadValue(a, n))
<1> DEFINE i == Decode(w)   a == EffectiveAddress(i)   n == AccessWidth(i.name)
<1>1. a \in Addresses /\ n \in Widths /\ i.rb \in Registers
  BY AccessRange, Operands
<1>2. /\ WriteRegister(i.rb, Loaded(i, a)) /\ memory' = memory /\ garbage' = garbage
  BY DEF ExecuteLoad, Keeping
<1>3. RegistersInv /\ gpr[0] = {} /\ BytesAreBytes
  BY DEF CoreInv, RegistersInv, DataInv, BytesAreBytes
<1>4. Loaded(i, a) = IF i.name = "LW" /\ execState' # "RUNNING"
                       THEN gpr[i.rb] ELSE LoadResult(i.name, ReadValue(a, n))
  BY DEF Loaded
<1> HIDE DEF i, a, n
<1>5. WordArray!LoadStep(a, n, ReadValue(a, n))
  BY <1>1, <1>2, <1>3, ReadIsLoad
<1>6. gpr'[i.rb] = IF i.rb = 0 THEN {} ELSE Loaded(i, a)
  BY <1>1, <1>2, <1>3, RegisterWritten
<1> QED BY <1>3, <1>4, <1>5, <1>6 DEF i, a, n

\* A store is one of the array's.
LEMMA StoreArrives ==
  ASSUME SourceCore, CoreInv, NEW w, ExecuteStore(Decode(w))
  PROVE  LET i == Decode(w) IN
         WordArray!StoreStep(EffectiveAddress(i), AccessWidth(i.name), gpr[i.rb])
<1> DEFINE i == Decode(w)   a == EffectiveAddress(i)   n == AccessWidth(i.name)
           v == gpr[i.rb]
<1>1. a \in Addresses /\ n \in Widths
  BY AccessRange
<1>2. BusStore(a, v, n)
  BY DEF ExecuteStore
<1>3. BytesAreBytes
  BY DEF CoreInv, DataInv, BytesAreBytes
<1> HIDE DEF i, a, n, v
<1>4. WordArray!StoreStep(a, n, v)
  BY <1>1, <1>2, <1>3, WriteIsStore DEF BusStore
<1> QED BY <1>4 DEF i, a, n, v

\* For every program and every memory map, what the program fetches, loads and
\* stores goes through an array of words with byte lanes, in which nothing changes
\* but by its stores.
THEOREM ProgramsUseTheWordArray ==
  ASSUME SourceCore
  PROVE  CoreSpec => AccessesTheWordArray
<1> DEFINE Accesses ==
             LET i        == Decode(ir)
                 a        == EffectiveAddress(i)
                 n        == AccessWidth(i.name)
                 executed == phase = "exec" /\ phase' = "reset"
             IN
             /\ phase = "fetch" /\ phase' # "fetch" => WordArray!LoadStep(pc, 4, ir')
             /\ executed /\ i.name \in LoadNames =>
                  LET value == ReadValue(a, n) IN
                  /\ WordArray!LoadStep(a, n, value)
                  /\ gpr'[i.rb] = IF i.rb = 0 \/ (i.name = "LW" /\ execState' # "RUNNING")
                                    THEN gpr[i.rb] ELSE LoadResult(i.name, value)
             /\ executed /\ i.name \in StoreNames => WordArray!StoreStep(a, n, gpr[i.rb])
             /\ ~(executed /\ i.name \in StoreNames) => UNCHANGED View
<1>1. CoreInv /\ IInv /\ [CoreNext]_coreVars => [Accesses]_coreVars
  <2> SUFFICES ASSUME CoreInv, IInv, CoreNext PROVE Accesses
    OBVIOUS
  <2> DEFINE i == Decode(ir)   a == EffectiveAddress(i)   n == AccessWidth(i.name)
             executed == phase = "exec" /\ phase' = "reset"
  <2>1. ASSUME phase = "fetch", phase' # "fetch" PROVE WordArray!LoadStep(pc, 4, ir')
    <3>1. CoreFetch /\ ~CoreExecute
      BY <2>1, StepsOfPhases DEF CoreExecute
    <3>2. memory' = memory /\ garbage' = garbage
      BY <3>1, OthersKeepMemory
    <3>3. BytesAreBytes /\ pc \in Addresses /\ 4 \in Widths
      BY IInvParts DEF CoreInv, DataInv, BytesAreBytes, CpuTypes, Widths
    <3>4. ir' = ReadValue(pc, 4)
      BY <3>1 DEF CoreFetch
    <3> QED BY <3>2, <3>3, <3>4, ReadIsLoad
  <2>2. ASSUME executed, i.name \in LoadNames
        PROVE  /\ WordArray!LoadStep(a, n, ReadValue(a, n))
               /\ gpr'[i.rb] = IF i.rb = 0 \/ (i.name = "LW" /\ execState' # "RUNNING")
                                 THEN gpr[i.rb] ELSE LoadResult(i.name, ReadValue(a, n))
    <3>1. i.name \notin StoreNames
      BY <2>2 DEF LoadNames, StoreNames
    <3>2. ExecuteLoad(i)
      BY <2>2, <3>1, StepsOfPhases, AccessesAlone
    <3> QED BY <3>2, LoadDelivers
  <2>3. ASSUME executed, i.name \in StoreNames PROVE WordArray!StoreStep(a, n, gpr[i.rb])
    <3>1. i.name \notin LoadNames
      BY <2>3 DEF LoadNames, StoreNames
    <3>2. ExecuteStore(i)
      BY <2>3, <3>1, StepsOfPhases, AccessesAlone
    <3> QED BY <3>2, StoreArrives
  <2>4. ASSUME ~(executed /\ i.name \in StoreNames) PROVE View' = View
    <3>1. ~(CoreExecute /\ ExecuteStore(i))
      <4> SUFFICES ASSUME CoreExecute, ExecuteStore(i) PROVE FALSE
        OBVIOUS
      <4>1. executed /\ i.name \in StoreNames
        BY DEF ExecuteStore, FallsThrough, Executing
      <4> QED BY <2>4, <4>1
    <3>2. memory' = memory /\ garbage' = garbage
      BY <3>1, OthersKeepMemory
    <3> QED BY <3>2, SameBytesSameView
  <2> QED BY <2>1, <2>2, <2>3, <2>4
<1> QED BY <1>1, CoreInvariance, PTL DEF CoreSpec, AccessesTheWordArray
=============================================================================
