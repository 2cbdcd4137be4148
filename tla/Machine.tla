------------------------------- MODULE Machine -------------------------------
(***************************************************************************)
(* The sequential core, the devices and the driver loop around them         *)
(* (dlx_seq_step in src/src/cpu_seq/dlx_seq_core.c and main in              *)
(* src/src/cpu_seq/main.c).                                                 *)
(*                                                                         *)
(* One thread runs everything; `phase' is where it is in the loop, and a    *)
(* step of the specification is one stage of dlx_seq_step, or the tick of   *)
(* one device.  The host's terminal and its signals act between steps.  The *)
(* program is not fixed: in each cycle it may execute any instruction, so   *)
(* what holds here holds for every program (within the constants' bounds).  *)
(***************************************************************************)
EXTENDS MemoryBus

CONSTANTS
  JumpTargets,     \* values of a register or an offset used as an address to jump to
  CodeAddresses,   \* addresses the program may fall through to
  DataAddresses,   \* addresses its loads and stores use
  StoredWords      \* values its stores write

\* main.c wires the Input Port to line 0 and the Timer to line 1.
ASSUME WiringAssumption == InputLine # TimerLine

ASSUME ProgramAssumption ==
  /\ JumpTargets \subseteq Addresses
  /\ CodeAddresses \subseteq Addresses
  /\ DataAddresses \subseteq Addresses
  /\ StoredWords \subseteq Words

VARIABLES
  phase,   \* where the thread is: see Phases
  turn,    \* in phase "tick", the device to tick next
  ien,     \* SR[IEN], interrupts enabled
  iar,     \* the Interrupt Address Register
  cr,      \* the Cause Register
  pc

cpuVars == <<ien, iar, cr, pc>>
vars    == <<busVars, phase, turn, cpuVars>>

\* "loop": the while condition of main; "tick", "irq", "fetch", "exec" and
\* "reset": the stages of dlx_seq_step, "unknown" being execute() on the zero
\* word a failed fetch returns; "check": after the step; "exit": loop left.
Phases == {"loop", "tick", "irq", "fetch", "exec", "unknown", "reset", "check", "exit"}

SoftwareCause == 128   \* INT 0x80

\* Types: bits are bits, the counters stay in their width and below the bounds
\* their handlers test.
TypeOK ==
  /\ lines \in [Lines -> Bit] /\ interruptLine \in Bit
  /\ inReady \in Bit /\ inData \in Byte /\ inTickCount \in 0..InputCheckInterval
  /\ avail \in 0..Len(Input) /\ taken \in 0..avail
  /\ outReady \in Bit /\ outDelay \in 0..OutputPortDelay
  /\ startup \in Bit
  /\ period \in Words /\ counter \in Words /\ status \in Bit
  /\ execState \in ExecStates
  /\ phase \in Phases /\ turn \in Devices
  /\ ien \in Bit /\ iar \in Addresses /\ cr \in {0, SoftwareCause} /\ pc \in Addresses

Init ==
  /\ ICInit /\ InputInit /\ OutputInit /\ StartupInit /\ TimerInit /\ PowerInit
  /\ phase = "loop" /\ turn = IC
  /\ ien = 0 /\ iar = 0 /\ cr = 0 /\ pc = 0

-----------------------------------------------------------------------------
\* The driver loop.

\* Mutant: only a normal halt ends the loop.
StartCycleUnlessHalted ==
  /\ phase = "loop" /\ execState # "HALT"
  /\ phase' = "tick" /\ turn' = IC
  /\ UNCHANGED <<busVars, cpuVars>>

StartCycle ==
  /\ phase = "loop" /\ execState = "RUNNING"
  /\ phase' = "tick" /\ turn' = IC
  /\ UNCHANGED <<busVars, cpuVars>>

\* SIGINT or SIGTERM set `quit', which only the head of the loop reads.
Signal ==
  /\ phase = "loop" /\ execState = "RUNNING"
  /\ execState' = "SIGNAL" /\ phase' = "exit"
  /\ UNCHANGED <<deviceVars, turn, cpuVars>>

\* Mutant: the limit is compared whatever the step's outcome.
CycleLimitAlways ==
  /\ phase = "check"
  /\ execState' = "TIMEOUT" /\ phase' = "exit"
  /\ UNCHANGED <<deviceVars, turn, cpuVars>>

\* max_cycles is any number, so that any cycle may be the last.
CycleLimit ==
  /\ phase = "check" /\ execState = "RUNNING"
  /\ execState' = "TIMEOUT" /\ phase' = "exit"
  /\ UNCHANGED <<deviceVars, turn, cpuVars>>

NextCycle ==
  /\ phase = "check"
  /\ phase' = "loop"
  /\ UNCHANGED <<busVars, turn, cpuVars>>

LeaveLoop ==
  /\ phase = "loop" /\ execState # "RUNNING"
  /\ phase' = "exit"
  /\ UNCHANGED <<busVars, turn, cpuVars>>

-----------------------------------------------------------------------------
\* Stage 1: the devices tick, in the order of registration.

TickOf(d) ==
  /\ phase = "tick" /\ turn = d
  /\ IF d = TimerDev THEN phase' = "irq" /\ UNCHANGED turn
                     ELSE turn' = d + 1 /\ UNCHANGED phase
  /\ UNCHANGED <<startup, execState, cpuVars>>

TickIC     == TickOf(IC) /\ ICTick /\ UNCHANGED <<inputVars, outputVars, timerVars>>
TickInput  == TickOf(InPort) /\ InputTick /\ UNCHANGED <<outputVars, timerVars>>
TickOutput == TickOf(OutPort) /\ OutputTick /\ UNCHANGED <<icVars, inputVars, timerVars>>
TickTimer  == TickOf(TimerDev) /\ TimerTick /\ UNCHANGED <<inputVars, outputVars>>

\* The devices whose tick is NULL.
TickNull ==
  /\ TickOf(Startup) \/ TickOf(Power)
  /\ UNCHANGED <<icVars, inputVars, outputVars, timerVars>>

Tick == TickIC \/ TickInput \/ TickOutput \/ TickTimer \/ TickNull

-----------------------------------------------------------------------------
\* Stage 2: the interrupt line is sampled.

\* Mutant: the line is sampled without looking at SR[IEN].
InterruptedUnmasked == interruptLine = 1

Interrupted == interruptLine = 1 /\ ien = 1

\* Mutant: the instruction about to be executed counts as done.
TakeInterruptSkips ==
  /\ phase = "irq" /\ Interrupted
  /\ ien' = 0 /\ iar' = (pc + 4) % AddressSpace /\ cr' = 0 /\ pc' = 0
  /\ phase' = "fetch"
  /\ UNCHANGED <<busVars, turn>>

TakeInterrupt ==
  /\ phase = "irq" /\ Interrupted
  /\ ien' = 0 /\ iar' = pc /\ cr' = 0 /\ pc' = 0
  /\ phase' = "fetch"
  /\ UNCHANGED <<busVars, turn>>

NoInterrupt ==
  /\ phase = "irq" /\ ~Interrupted
  /\ phase' = "fetch"
  /\ UNCHANGED <<busVars, turn, cpuVars>>

-----------------------------------------------------------------------------
\* Stages 3 and 4: fetch and decode.  The fetch is a word read like any other,
\* with the side effects of the device it may reach.  A fetch that fails
\* in strict mode ends the step at once, before the interrupt line is reset.

Fetch ==
  /\ phase = "fetch"
  /\ BusRead(pc, 4)
  /\ IF execState' # "RUNNING"
       THEN phase' = "check" /\ UNCHANGED pc
       ELSE /\ phase' = IF ReadRoute(pc, 4) = "error" THEN "unknown" ELSE "exec"
            /\ pc' = (pc + 4) % AddressSpace
  /\ UNCHANGED <<turn, ien, iar, cr>>

-----------------------------------------------------------------------------
\* Stage 5: execute.  Registers and memory hold data this model leaves out, so
\* operands, results and branch conditions are arbitrary.

Executing == phase = "exec" /\ phase' = "reset" /\ UNCHANGED turn

\* An instruction after which the next one in line is executed.
FallsThrough == Executing /\ pc \in CodeAddresses /\ UNCHANGED cpuVars

\* Arithmetic, logic, LHI, MOVS2I, branches not taken, MOVI2S to CR (whose
\* write mask is 0) and the debug timer.
Compute == FallsThrough /\ UNCHANGED busVars

\* Branches taken, J, JAL, JR, JALR.
Jump ==
  /\ Executing
  /\ pc' \in JumpTargets
  /\ UNCHANGED <<busVars, ien, iar, cr>>

Load(a, n) == FallsThrough /\ BusRead(a, n)

Store(a, n, v) == FallsThrough /\ BusWrite(a, v, n)

\* MOVI2S: only bit IEN of SR is writable, all of IAR is.
MoveToSpecial ==
  /\ Executing /\ pc \in CodeAddresses
  /\ \/ ien' \in Bit /\ UNCHANGED iar
     \/ iar' \in JumpTargets /\ UNCHANGED ien
  /\ UNCHANGED <<busVars, cr, pc>>

\* INT 0x80 with interrupts enabled: a trap like a hardware interrupt, with
\* another cause, that resumes after the INT.
SoftwareInterrupt ==
  /\ Executing /\ ien = 1
  /\ ien' = 0 /\ iar' = pc /\ cr' = SoftwareCause /\ pc' = 0
  /\ UNCHANGED busVars

\* INT 0x80 with interrupts disabled stops the machine, strict or not.
NestedInterrupt ==
  /\ Executing /\ ien = 0
  /\ execState' = "FAULT"
  /\ UNCHANGED <<deviceVars, cpuVars>>

Rfe ==
  /\ Executing
  /\ ien' = 1 /\ pc' = iar
  /\ UNCHANGED <<busVars, iar, cr>>

\* The debug interrupts that stop the machine: the halt, and the timer when the
\* host's clock fails.
DebugStop ==
  /\ Executing
  /\ execState' \in {"HALT", "CRITICAL"}
  /\ UNCHANGED <<deviceVars, cpuVars>>

\* An opcode, function, interrupt code or special register that does not exist.
Unimplemented == FallsThrough /\ AccessError

\* The zero word a failed fetch returns decodes to an R-type instruction with
\* function 0, which does not exist.
ExecuteUnknown ==
  /\ phase = "unknown" /\ phase' = "reset"
  /\ AccessError
  /\ UNCHANGED <<turn, cpuVars>>

Execute ==
  \/ Compute \/ Jump \/ MoveToSpecial \/ SoftwareInterrupt \/ NestedInterrupt
  \/ Rfe \/ DebugStop \/ Unimplemented \/ ExecuteUnknown
  \/ \E a \in DataAddresses, n \in Widths : Load(a, n)
  \/ \E a \in DataAddresses, n \in Widths, v \in StoredWords : Store(a, n, v)

\* Mutant: the line is left as it is.
ResetLineForgotten ==
  /\ phase = "reset" /\ phase' = "check"
  /\ UNCHANGED <<busVars, turn, cpuVars>>

\* Stage 6: the interrupt line is reset; a request still pending raises it
\* again in the next tick.
ResetLine ==
  /\ phase = "reset" /\ phase' = "check"
  /\ interruptLine' = 0
  /\ UNCHANGED <<lines, inputVars, outputVars, startup, timerVars, execState, turn, cpuVars>>

-----------------------------------------------------------------------------
\* The user types at any time.
UserTypes ==
  /\ Type
  /\ UNCHANGED <<icVars, outputVars, startup, timerVars, execState, phase, turn, cpuVars>>

\* The loop is left: nothing more happens to the machine.
Exited == phase = "exit" /\ UNCHANGED vars

Driver == StartCycle \/ Signal \/ CycleLimit \/ NextCycle \/ LeaveLoop

\* The emulator's thread, which the host keeps running.
Thread ==
  Driver \/ Tick \/ TakeInterrupt \/ NoInterrupt \/ Fetch \/ Execute \/ ResetLine

Next == Thread \/ UserTypes \/ Exited

Spec     == Init /\ [][Next]_vars
FairSpec == Spec /\ WF_vars(Thread)
=============================================================================
