--------------------------- MODULE CoreProperties ----------------------------
(***************************************************************************)
(* What the core must satisfy with its registers and its memory, whatever   *)
(* program it runs.                                                         *)
(***************************************************************************)
EXTENDS Core

\* Some byte of an access is where it may not go.
InvalidRead(a, n) ==
  a % n # 0 \/ (DeviceAt(a) \notin Readable /\ \E b \in a..(a + n - 1) : ~Backed(b))

InvalidWrite(a, n) ==
  a % n # 0 \/ (DeviceAt(a) \notin Writable /\ \E b \in a..(a + n - 1) : ~InRam(b))

InvalidAccess(i) ==
  \/ i.name \in LoadNames  /\ InvalidRead(EffectiveAddress(i), AccessWidth(i.name))
  \/ i.name \in StoreNames /\ InvalidWrite(EffectiveAddress(i), AccessWidth(i.name))

OtherRegistersKept(i) == \A r \in Registers \ {i.rb} : gpr'[r] = gpr[r]

\* An access of which any byte is out of place reads as 0 or stores nothing, and
\* disturbs no other register, no byte of memory and no device; in strict mode
\* the machine stops there, and a word load then leaves its register alone
\* (the loads and stores of execute() against get_phys_ptr, which looks at the
\* first byte only, and against "A faulty read returns 0 and a faulty write has
\* no effect" of src/docs/guide/Emulator.md).
InvalidAccessIsHarmless ==
  [][LET i == Decode(ir) IN
     phase = "exec" /\ phase' = "reset" /\ InvalidAccess(i) =>
       /\ UNCHANGED <<deviceVars, memory, sent, pc>>
       /\ OtherRegistersKept(i)
       /\ i.name \in StoreNames => gpr' = gpr
       /\ i.name \in LoadNames =>
            gpr'[i.rb] = IF StrictMode /\ i.name = "LW" THEN gpr[i.rb] ELSE {}
       /\ execState' = IF StrictMode THEN "FAULT" ELSE "RUNNING"]_coreVars

\* An instruction the documents do not define.
UnknownInstruction(i) ==
  \/ i.name = Reserved
  \/ i.name = "MOVI2S" /\ i.rc > 2
  \/ i.name = "MOVS2I" /\ i.ra > 2
  \/ i.name = "INT" /\ InterruptCode(i) \notin {128, 240, 241, 242}

\* The errors docs/guide/Emulator.md lists under "Strict mode", in a fetch and in
\* an instruction; a failed fetch goes on as an unknown one.
ProgramError ==
  \/ phase = "fetch" /\ InvalidRead(pc, 4)
  \/ /\ phase \in {"exec", "unknown"}
     /\ InvalidAccess(Decode(ir)) \/ UnknownInstruction(Decode(ir))

\* INT 0x80 executed with interrupts disabled.
NestedTrap ==
  phase = "exec" /\ ien = 0 /\ Decode(ir).name = "INT" /\ InterruptCode(Decode(ir)) = 128

\* The machine stops on a fault when the documents say so, and then only: at an
\* INT 0x80 with interrupts disabled, strict or not ("One case does not depend on
\* it", docs/guide/Emulator.md), and in strict mode at each of the listed errors,
\* while it goes on after them otherwise; no other instruction, fetch or stage,
\* with interrupts enabled or disabled, faults.  (What a device ignores without
\* reporting it is no error here: see UnsupportedAccessFaults.)
FaultsAsDocumented ==
  [][execState = "RUNNING" =>
       (execState' = "FAULT" <=>
          phase' # phase /\ (NestedTrap \/ (StrictMode /\ ProgramError)))]_coreVars

\* A machine that stops on a fault is left as the faulting instruction found it,
\* but for the program counter and a register that a half-word or byte load set
\* to 0: nothing is half done when the state is reported.
StopsInPlace ==
  [][execState = "RUNNING" /\ execState' = "FAULT" =>
       /\ UNCHANGED <<deviceVars, memory, sent, ien, iar, cr>>
       /\ gpr' = gpr \/ \E r \in Registers : gpr' = [gpr EXCEPT ![r] = {}]]_coreVars

\* What is fetched below the end of the program is the instruction the binary has
\* there, whatever the program has stored meanwhile: a program cannot change
\* itself, and its words reach the core as the assembler wrote them, big-endian
\* (dlx_load_program, and the `writable' flag and the byte order of the bus).
FetchesTheProgram ==
  [][LET binary == Programs[program] IN
     phase = "fetch" /\ phase' = "exec" /\ pc < 4 * Len(binary) =>
       ir' = binary[pc \div 4 + 1]]_coreVars
=============================================================================
