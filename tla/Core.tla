-------------------------------- MODULE Core ---------------------------------
(***************************************************************************)
(* The sequential core with its data: general registers, instruction words, *)
(* memory contents and the cycle counter, running a given program.  Every   *)
(* step is a step of Machine, which leaves the instruction open, with what  *)
(* execute() in src/src/cpu_seq/dlx_seq_core.c does to the data added and   *)
(* the instruction fixed by the word fetched.                               *)
(***************************************************************************)
EXTENDS Machine, Memory, InstructionSet

CONSTANTS
  AddressOf(_),   \* the address a word stands for; in the source, its value
  WordOf(_),      \* the word that holds an address
  Programs,       \* [names -> sequences of words], the binaries to run
  InitialGprs,    \* contents a general register other than R0 may start with
  MaxCycles       \* config->max_cycles, 0 = no limit

ASSUME CoreAssumption ==
  /\ MaxCycles \in Nat
  /\ InitialGprs \subseteq BitWord
  /\ \A p \in DOMAIN Programs :   \* the loader refuses a larger file
       Programs[p] \in Seq(BitWord) /\ 4 * Len(Programs[p]) <= RomSize

VARIABLES
  program,   \* the name of the binary in the ROM
  ir,        \* raw_i, the word fetched
  gpr,       \* the general registers
  cycles

registerVars == <<ir, gpr>>
coreVars     == <<vars, dataVars, registerVars, program, cycles>>

RegisterCount == 32
Registers     == Bits(RegisterCount)
LinkRegister  == 31

\* Special registers by number.
SR  == 0
IAR == 1
CR  == 2

\* The registers hold words, R0 holds 0, and the loaded and stored bytes are in
\* the ROM or the RAM.
CoreTypeOK ==
  /\ ir \in BitWord /\ gpr \in [Registers -> BitWord] /\ gpr[0] = {}
  /\ \A a \in DOMAIN memory : a \in Addresses /\ Backed(a) /\ memory[a] \in BitByte
  /\ \A k \in 1..Len(sent) : sent[k] \in BitByte
  /\ cycles \in Nat

\* dlx_load_program: the file's bytes, from the start of the ROM.
Image(binary) ==
  [a \in 0..(4 * Len(binary) - 1) |-> StoredByte(binary[a \div 4 + 1], 4, a % 4)]

\* dlx_state_init: registers are set by --init-gpr or left as they are found,
\* which a single value stands for.
CoreInit ==
  /\ Init
  /\ program \in DOMAIN Programs
  /\ memory = Image(Programs[program])
  /\ garbage \in Garbage /\ sent = <<>>
  /\ \E value \in InitialGprs : gpr = [r \in Registers |-> IF r = 0 THEN {} ELSE value]
  /\ ir = {}
  /\ cycles = 0

-----------------------------------------------------------------------------
\* The driver loop.

AtLimit == MaxCycles # 0 /\ cycles + 1 >= MaxCycles

CoreDriver ==
  /\ \/ (StartCycle \/ Signal \/ LeaveLoop) /\ UNCHANGED cycles
     \/ CycleLimit /\ AtLimit /\ cycles' = cycles + 1
     \/ NextCycle /\ ~(AtLimit /\ execState = "RUNNING") /\ cycles' = cycles + 1
  /\ UNCHANGED <<dataVars, registerVars, program>>

-----------------------------------------------------------------------------
\* Ticks, the trap, the fetch and the reset of the line.

CoreFetch == Fetch /\ ir' = ReadValue(pc, 4) /\ UNCHANGED gpr

CoreStages ==
  /\ \/ (Tick \/ TakeInterrupt \/ NoInterrupt \/ ResetLine) /\ UNCHANGED registerVars
     \/ CoreFetch
  /\ UNCHANGED <<dataVars, program, cycles>>

-----------------------------------------------------------------------------
\* Execution of the instruction in ir.

Keeping == UNCHANGED <<memory, garbage, sent>>

\* Mutant: R0 keeps what is written to it.
WriteAnyRegister(r, value) == gpr' = [gpr EXCEPT ![r] = value]

\* R0 is set to 0 again at the end of every instruction.
WriteRegister(r, value) == gpr' = [gpr EXCEPT ![r] = value, ![0] = {}]

ExecuteAlu(i) ==
  /\ \/ /\ i.name \in AluNames
        /\ WriteRegister(i.rc, Alu(i.name, gpr[i.ra], gpr[i.rb]))
     \/ /\ i.name \in ImmediateNames
        /\ WriteRegister(i.rb, AluImmediate(i.name, gpr[i.ra], i.imm16))
     \/ /\ i.name = "LHI"
        /\ WriteRegister(i.rb, LoadHigh(i.imm16))
  /\ Compute /\ Keeping

SpecialValue(n) ==
  CASE n = SR  -> Truth(ien = 1)
    [] n = IAR -> WordOf(iar)
    [] n = CR  -> Pattern(cr, WordBits)

ExecuteMoveFromSpecial(i) ==
  /\ i.name = "MOVS2I" /\ i.ra \in {SR, IAR, CR}
  /\ WriteRegister(i.rc, SpecialValue(i.ra))
  /\ Compute /\ Keeping

\* Only IEN is kept of a word written to SR, and nothing of one written to CR.
ExecuteMoveToSpecial(i) ==
  /\ i.name = "MOVI2S"
  /\ \/ /\ i.rc = SR
        /\ ien' = (IF 0 \in gpr[i.ra] THEN 1 ELSE 0) /\ iar' = iar
        /\ MoveToSpecial
     \/ /\ i.rc = IAR
        /\ iar' = AddressOf(gpr[i.ra]) /\ ien' = ien
        /\ MoveToSpecial
     \/ /\ i.rc = CR
        /\ Compute
  /\ Keeping /\ UNCHANGED gpr

\* The address of the next instruction plus the displacement.
RelativeTarget(i) == AddressOf(Plus(WordOf(pc), Displacement(i)))

Taken(i) == (i.name = "BEQZ") <=> (gpr[i.ra] = {})

ExecuteBranch(i) ==
  /\ i.name \in {"BEQZ", "BNEZ"}
  /\ \/ Taken(i)  /\ pc' = RelativeTarget(i) /\ Jump
     \/ ~Taken(i) /\ Compute
  /\ Keeping /\ UNCHANGED gpr

\* A jump to a register reads it before the link is saved.
ExecuteJump(i) ==
  /\ \/ i.name \in {"J", "JAL"}   /\ pc' = RelativeTarget(i)
     \/ i.name \in {"JR", "JALR"} /\ pc' = AddressOf(gpr[i.ra])
  /\ IF i.name \in {"JAL", "JALR"} THEN WriteRegister(LinkRegister, WordOf(pc))
                                   ELSE UNCHANGED gpr
  /\ Jump /\ Keeping

\* Mutant: the offset of a load or store is left out.
EffectiveAddressBase(i) == AddressOf(gpr[i.ra])

EffectiveAddress(i) == AddressOf(Plus(gpr[i.ra], SignExtend(i.imm16, HalfBits)))

\* What a load puts in its register: what the bus returned, except that a word
\* load that stopped the machine leaves the register alone.
Loaded(i, a) ==
  IF i.name = "LW" /\ execState' # "RUNNING"
    THEN gpr[i.rb] ELSE LoadResult(i.name, ReadValue(a, AccessWidth(i.name)))

ExecuteLoad(i) ==
  LET a == EffectiveAddress(i) IN
  /\ i.name \in LoadNames
  /\ Load(a, AccessWidth(i.name))
  /\ WriteRegister(i.rb, Loaded(i, a))
  /\ Keeping

ExecuteStore(i) ==
  /\ i.name \in StoreNames
  /\ BusStore(EffectiveAddress(i), gpr[i.rb], AccessWidth(i.name))
  /\ FallsThrough
  /\ UNCHANGED gpr

InterruptCode(i) == Unsigned(i.imm26)

\* The debug interrupts: the host's timer, and the halt.
StartTimer == 240
StopTimer  == 241
Halt       == 242

\* Mutant: any code that is not a debug one is taken for 0x80.
ExecuteInterruptAnyCode(i) ==
  /\ i.name = "INT"
  /\ \/ /\ InterruptCode(i) \in {StartTimer, StopTimer}
        /\ Compute \/ (execState' = "CRITICAL" /\ DebugStop)
     \/ InterruptCode(i) = Halt /\ execState' = "HALT" /\ DebugStop
     \/ /\ InterruptCode(i) \notin {StartTimer, StopTimer, Halt}
        /\ SoftwareInterrupt \/ NestedInterrupt
  /\ Keeping /\ UNCHANGED gpr

ExecuteInterrupt(i) ==
  /\ i.name = "INT"
  /\ \/ /\ InterruptCode(i) \in {StartTimer, StopTimer}
        /\ Compute \/ (execState' = "CRITICAL" /\ DebugStop)
     \/ InterruptCode(i) = Halt /\ execState' = "HALT" /\ DebugStop
     \/ InterruptCode(i) = SoftwareCause /\ (SoftwareInterrupt \/ NestedInterrupt)
     \/ InterruptCode(i) \notin {StartTimer, StopTimer, Halt, SoftwareCause} /\ Unimplemented
  /\ Keeping /\ UNCHANGED gpr

ExecuteRfe(i) == i.name = "RFE" /\ Rfe /\ Keeping /\ UNCHANGED gpr

\* An encoding nobody assigned, or a special register that does not exist.
ExecuteReserved(i) ==
  /\ \/ i.name = Reserved
     \/ i.name = "MOVI2S" /\ i.rc \notin {SR, IAR, CR}
     \/ i.name = "MOVS2I" /\ i.ra \notin {SR, IAR, CR}
  /\ Unimplemented
  /\ Keeping /\ UNCHANGED gpr

\* The word a failed fetch returned, 0, in the core's other notation.
ExecuteFailedFetch(i) ==
  /\ i.name = Reserved
  /\ ExecuteUnknown
  /\ Keeping /\ UNCHANGED gpr

CoreExecute ==
  /\ phase \in {"exec", "unknown"}
  /\ LET i == Decode(ir) IN
       \/ ExecuteAlu(i) \/ ExecuteMoveFromSpecial(i) \/ ExecuteMoveToSpecial(i)
       \/ ExecuteBranch(i) \/ ExecuteJump(i) \/ ExecuteLoad(i) \/ ExecuteStore(i)
       \/ ExecuteInterrupt(i) \/ ExecuteRfe(i) \/ ExecuteReserved(i)
       \/ ExecuteFailedFetch(i)
  /\ UNCHANGED <<ir, program, cycles>>

-----------------------------------------------------------------------------
CoreThread == CoreDriver \/ CoreStages \/ CoreExecute

CoreTypes  == UserTypes /\ UNCHANGED <<dataVars, registerVars, program, cycles>>
CoreExited == Exited /\ UNCHANGED <<dataVars, registerVars, program, cycles>>

CoreNext == CoreThread \/ CoreTypes \/ CoreExited

CoreSpec == CoreInit /\ [][CoreNext]_coreVars
=============================================================================
