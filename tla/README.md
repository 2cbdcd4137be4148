# Verification of tinyDLX

TLA+ models of tinyDLX, an emulator of the DLX processor in C with an assembler
in Python: the sequential core, its instruction set, its memory bus, six
memory-mapped devices, the process around them, the assembler, and the programs
of the test suite. TLC checks the models on small instances; TLAPS proves most
of the safety properties for every value of the constants.

## 1. The system

One host thread runs everything. `main` (`src/src/cpu_seq/main.c`) sets the
machine up and calls `dlx_seq_step` until `exec_state` is no longer `RUNNING`;
each call ticks the devices, samples the interrupt line, fetches, decodes,
executes and resets the line. What acts beside the thread: the user at the
terminal, the signals SIGINT and SIGTERM, and the host's clock and file system,
any of which may fail.

| Component | State | Operations | Interacts with | Correct when |
|:--|:--|:--|:--|:--|
| Interrupt Controller (`devices/dlx_ic.c`) | `lines[]` | assert, deassert, tick, read | devices call it; it calls `dlx_assert_interrupt` on the CPU | it latches only lines of devices that ask; the line it reports is the lowest |
| Input Port (`devices/dlx_input_port.c`) | latch, `ready`, `tick_count` | tick, read | polls standard input; asserts line 0 | no byte lost, repeated or reordered; a typed byte is eventually latched |
| Timer (`devices/dlx_timer.c`) | `period`, `counter`, `status` | tick, read (ack), write | asserts line 1 | expires exactly at the multiples of the period; no expiration after an ack is missed |
| Output Port (`devices/dlx_output_port.c`) | `ready`, `delay` (uint8) | tick, read, write | standard output | a busy port becomes ready again; the countdown does not wrap |
| Startup Circuit | one flip-flop | read, write | | |
| Power Manager | none | write | sets `exec_state` | a halt ends execution |
| Memory bus (`common/dlx_memory_bus.c`) | ROM, RAM | read, write of 1, 2, 4 bytes | devices, `exec_state` | an access goes to one place, stays inside the array, and errors are reported |
| Sequential core (`cpu_seq/dlx_seq_core.c`) | PC, GPRs, SR, IAR, CR, `interrupt_line` | `dlx_seq_step` | all of the above | a pending enabled request traps at once; a trap is resumable |
| Debug interrupts (`common/dlx_interrupts.c`) | a start time | start, stop, halt | clock, `exec_state` | |
| Driver and lifecycle (`main.c`, `common/dlx_state.c`) | `quit`, `cycles`, allocations | set-up, loop, limit, throttle, exit | everything | nothing leaks; the exit code is true; limit and frequency are respected |
| Loader, command line, snapshot, terminal, clock (`common/`) | ROM image, options, file, termios | called by `main` | host | their failures end the process cleanly |
| Assembler (`tools/asm.py`) | symbol table, `included_files`, the output | `open_file`, `parse`, `assemble_instr`, `main` | files | every field is in range and decodes to what was written; each file is expanded once, in its place; no source is overwritten |
| Test runner (`tools/run_tests.sh`, `tests/`) | | assembles, runs, compares | assembler, emulator | each program ends in its recorded state |

**What is hard.** The interrupt path keeps the same request in four places: the
device's bit, the controller's line, the CPU's line, SR[IEN]. They are updated
at different stages, and the CPU's line is cleared every cycle, the
controller's by a read, the device's by another: everything rests on all of them
being rebuilt in the next tick before the line is sampled. Then: errors in the
middle of a cycle (a failed fetch), two reasons to stop in the same cycle, bytes
that arrive at any time, traps inside handlers, counters at their width, and
every partial failure of the set-up. Around it: an access of which only the first
byte is compared with the bounds of a region; a program interrupted between two
of its instructions that share a device or a register with the handler; two
tables of the same encodings, one in C and one in Python; files that include each
other. `PROJECT.json` lists these hazards, each at
its line, with the properties that watch it.

## 2. Modules

```
LevelInterrupts                  what the interrupt path promises
WordLanes  <-  WordMemory        what the memory promises
InterruptController  <- InputPort, Timer
OutputPort, StartupCircuit, PowerManager
   all EXTENDed by  MemoryBus  <-  Machine  <-  MachineProperties  <-  MachineHistory
BitWords  <-  InstructionSet  <-  Arithmetic
MemoryBus, BitWords  <-  Memory  <-  MemoryView  <-  MemoryAccess
Machine, Memory, InstructionSet  <-  Core
Core  <-  CoreProperties       CoreProperties, MemoryView  <-  CoreMemory
BitWords  <-  Assembler  <-  AssemblerRun, TestPrograms
AssemblerRun, InstructionSet  <-  AssemblerProperties
Core, TestPrograms  <-  MCCore
MCCore, CoreProperties  <-  MCPrograms, MCInstruction
Machine  <-  AccessHistory       Timer  <-  TimerHistory
Emulator                         the life of the process

MachineProofs  <-  HistoryProofs          MemoryAccess  <-  MemoryProofs
MachineProofs, MemoryProofs, WordProofs, CoreMemory  <-  CoreProofs
WordProofs  <-  AssemblerProofs  <-  IncludeProofs          EmulatorProofs
MCMap, MCMachine, MCMachineHistory, MCAccessHistory, MCMemoryAccess, MCAssemblerRun
```

**The machine with an arbitrary program.**

- A device module holds the device's variables and one operator per function of
  its C file: `...Init` is the constructor, `...Tick`, `...Read` and `...Write`
  the functions it registers, `...ReadValue` what a read returns.
- `MemoryBus` numbers the devices in their order of registration, which is also
  their order of ticking and of lookup. `ReadRoute` and `WriteRoute` are the
  tests of `dlx_memory_read_*` and `dlx_memory_write_*` in their order; `BusRead`
  and `BusWrite` add what the access does to the device or to `exec_state`.
- `Machine` is `dlx_seq_step` and the loop of `main`. `phase` is the thread's
  position; one step is one stage of the cycle, and the tick of each device is a
  step of its own, so that the properties are also looked at between them and a
  byte can be typed there. `Execute` is a disjunction over kinds of instruction.
- `MachineHistory`, `AccessHistory` and `TimerHistory` put history variables
  beside the machine (the trap in progress, the bytes delivered, the last
  access, the ticks since the last write). They only observe.
- `LevelInterrupts` is the abstract specification of the interrupt path: sources
  raise requests between instructions; an instruction starts with a trap exactly
  when interrupts are enabled and a request is raised. `Machine` implements it under
  `requests <- Pending` (the devices whose own bit says they ask),
  `enabled <- ien = 1`, `busy <-` the phases from fetch to reset. Controller,
  lines, polling and phases disappear.

**The machine with its data and a given program.**

- `BitWords`: a machine word is the set of its bits that are 1, so that logic and
  shifts are set operations, and sums and comparisons are defined bit by bit. No
  value leaves TLC's integers, and the width is a parameter.
- `InstructionSet` is `dlx_isa.h`, `decode()` and the arithmetic of `execute()`.
  `Arithmetic` compares each operation with its reference definition over
  integers, read in the ISA document.
- `Memory` adds to the bus what the bytes are: their order, what a load returns,
  what a store leaves, what reaches standard output. `MemoryAccess` makes any
  sequence of accesses, and implements `WordMemory`, the array of 32-bit words
  with byte lanes of `docs/architecture/Memory.md`. The loads and stores of that
  array are `WordLanes`, and `MemoryView` is the array as it is seen through the
  bytes: both are also what `CoreMemory` compares a program's accesses with.
- `Core` refines `Machine` by conjunction: each of its actions is an action of
  `Machine` with the choice of instruction, operand, address or branch fixed by
  the word fetched, and with what happens to the registers and to memory.
  `CoreProperties` says what holds of any program.
- `Assembler` is `parse()` and `assemble_instr()` of `asm.py` on lines that are
  already split into tokens; `AssemblerRun` is `main()` and `open_file()`, the
  recursion being an explicit stack. `AssemblerProperties` states what holds of any
  files and lines (`AssemblerSpec`), with the fields of docs/architecture/ISA.md as
  the reference; the run gives it small sets of both. Its history variable
  `origins` has the file and the item each line comes from, which asm.py keeps as
  `file_path` and `line_num` of a `SourceLine`.
- `TestPrograms` holds the sources of `src/tests` and of the guide, and the
  recorded final states. `MCPrograms` assembles them with `Assembler` and runs
  them on `Core`.

**The process.** `Emulator` is `main` again, seen from outside: resources, terminal,
signal, limit, throttle, snapshot, exit code. `dlx_seq_step` is any outcome there.

**Abstractions.** In `Machine` the program is not fixed: in every cycle any
instruction may be executed, with any operand of the sets `JumpTargets`,
`CodeAddresses` (where it may fall through), `DataAddresses` and `StoredWords`.
General registers, ALU results and memory contents are left out, and branch
conditions are choices: there are more behaviours than the code has, so safety
carries over. A word fetched from a device executes as any instruction; the zero
word of a failed fetch executes as the instruction it decodes to, in the phase
"unknown". `max_cycles` is a choice in `Machine` (any cycle may be the last) and a
number in `Core` and `Emulator`. In `AssemblerRun` a file is its canonical name, a
file that cannot be read is an absent one, and while the output is open its content
is what was given to it, in the file or still in its buffer; when a write or the close
fails, any first part of that may be what is left. In `Core`, `AddressOf` and `WordOf` are parameters
that relate words to addresses; in the source both are the identity on 32 bits.

## 3. Runs

| Run | Specification | Shows |
|:--|:--|:--|
| `machine_core` | `MachineHistory!HSpec`, strict mode | that `IInv`, which the proofs use, is an invariant; `SampledLineIsExact`, `NoUnservicedFetch`, `StopIsFinal`; `TrapIsIntact`, `HandlerFindsSource`, `InputIsIntact`; the refinement `ImplementsLevelInterrupts` |
| `machine_liveness` | `Machine!FairSpec`, no strict mode | `OutputBecomesReady`, `InputIsLatched`, `RequestTraps`, `StopLeadsToExit`, also through fetches that fail |
| `timer_exact` | `TimerHistory!TSpec` | `CounterIsExact`, `StatusIsExact` |
| `timer_access` | `ASpec`, **violation expected** | `UnsupportedAccessFaults`: finding 1 |
| `emulator` | `FairSpec` | `NothingLeaks`, `ExitCodeIsTrue`, `SnapshotAgrees`, `LimitIsExact`, `FrequencyIsRespected`, `SignalEnds` |
| `emulator_throttle` | `Spec`, no limit, **violation expected** | `FrequencyIsRespected`: finding 2 |
| `arithmetic` | `Arithmetic!ArithmeticSpec` | `AluIsDocumented`, `ImmediatesAreDocumented`: every operation on every pair of words |
| `memory_contents` | `MemoryAccess!AccessSpec` | `ImplementsWordMemory` |
| `instruction` | `CoreSpec`, no strict mode | each opcode and function code with registers at the edges of the map: `CoreTypeOK`, `InvalidAccessIsHarmless`, `FaultsAsDocumented` |
| `programs` | `FairProgramsSpec` | `EndsAsRecorded`: the test suite, as recorded; `NothingSentIsLost`, `HandlerIsTransparent`: a key pressed anywhere in the guide's programs; `ProgramGetsTheRest`: what a periodic handler leaves; `StopsInPlace`, `FetchesTheProgram`, `ProgramEnds` |
| `timer_starvation` | `ProgramsSpec`, **violation expected** | `LongHandlerStarves`: finding 3 |
| `assembler` | `MCSpec` | `InputsAreKept`, `LinesMeetTheirWords`, `IncludesAreInPlace`, `OutputIsAPrefix`, `DecodesAsWritten`, `ReachesTheLabel`, `AssemblerEnds` |

Each property has a mutant, an operator marked "Mutant" beside the definition it
replaces, under which TLC finds the property violated.

### Bounds

- **Memory map** (`MCMap`): 48 bytes with ROM, RAM, a hole, the six devices and a
  hole above them, in the order of the real map. The code compares addresses with
  region ends and devices only by their ranges, so one or two words per region
  reach every branch; `DataAddresses` of `machine_core` has each region, each
  register of the Timer and misaligned addresses. Its jumps go to 0, to the Input
  Port and to the Interrupt Controller, because a fetch has the side effects of a
  load; those of `machine_liveness` to 0 and to an unmapped address.
- `InputCheckInterval` 1, and 2 for liveness (10 in the source): both branches of
  the test are taken. `OutputPortDelay` 2, and 3 for liveness (3): the countdown
  takes a value that is neither the first nor the last. In `machine_liveness` both
  are long enough for a program that loops over one access to repeat it before the
  poll or the end of the countdown, so that a program can try to starve the port.
- `LineCount = 3` (15), or 2 where the lines do not matter: two wired lines with
  different priorities and one that nobody asserts.
- `WordSize` 4 in the machine and 8 for the Timer alone (2^32): the longest
  period is included, so that a wrap of the counter would be seen. `StoredWords`
  {0, 2} disables the Timer or starts it.
- `Input` one or two bytes: two are needed for an order and for an overwrite. Any
  number of them may be there from the start, as when the input is a file.
- `MaxTicks = 20`: at least two expirations of the longest period of 7, and
  partial periods between two acknowledgements.
- `Emulator`: `MaxCycles = 7`, three synchronisations; `CounterRange = 32`
  stands for 2^64 and `NsPerSec = 4` for 10^9: with the limit the product stays
  below the width, without it the wrap is reached. `MaxElapsed = 20` bounds the
  clock. A step takes 0 or 1 units, a sleep may last longer than asked for or be cut
  short by a signal.
- `Arithmetic`: words of 4 bits, all pairs, with shift amounts of 2 bits and
  immediates of 2: every carry, both signs, every amount. The definitions are bit
  by bit and the same at every width.
- `MemoryAccess`: accesses of every width at both ends of the ROM and of the RAM,
  in the hole and at two devices, in any order and number; two values with four
  different bytes. The RAM is one word: the proof covers the rest.
- `Core` in `instruction` and `programs`: words of 32 bits and the regions and
  devices of the real map at their real sizes, in a space compacted to 2^24
  (`MCAddressOf`): a word's two upper bits choose a quarter and its 22 lower ones the
  place in it, and addresses with other bits set, which are unmapped, become the last
  word of their quarter, which is unmapped too. `WordSize` 2^30 bounds the Timer's
  period and counter, whose values stay far below it.
- `instruction`: two cycles, so that a first instruction that went wrong meets a
  second one; the registers all hold one of 13 addresses at edges of the map.
  `FaultsAsDocumented` says of each step that it faults exactly if the instruction
  makes an error the documents list, strict mode permitting, or is INT 0x80 with
  interrupts disabled. So other programs, of two instructions, enable interrupts
  before an INT. The run is without strict mode, the theorem for both.
- `programs`: `MaxCycles = 400`. The runner's limit is 1000; the longest test takes 176
  cycles and no program reaches 400, which `ProgramEnds` checks. The RAM starts as
  zeros or as garbage and the registers as 0 for the tests, as `--init-gpr` sets
  them, or as 1. Two bytes are typed, at any stages. The Timer's periods are
  1 to 40, around a handler of 15 instructions that acknowledges at the tenth:
  shorter than, equal to and longer than the handler.
- `assembler`: three files of at most two items, five in all, each including any of
  the others, itself or a missing file, one of them under two names; and sources of
  one instruction, every mnemonic, with operands at both ends of their field and
  next to them, and labels as far as a displacement goes and one further.

### Fairness

`WF(Thread)` in `Machine`, `WF(ThreadMoves)` in `MCPrograms`, `WF(Main)` in `Emulator`
and `WF(AssemblerNext)` in `MCAssemblerRun`: each is one thread which never waits for
another and which the host keeps scheduling. Fairness is on the whole of it and not
on its branches: no instruction, outcome, limit or clock failure is promised. The
user (`UserTypes`) and signals (`SignalArrives`) have no fairness. A write to a
standard output that nobody reads could block the thread; the liveness results
assume it does not.

## 4. Findings

1. **Unsupported accesses to the Timer are silent** (`dlx_timer.c:77` and the end
   of `d_write`). The documents call them invalid and treated as accesses to an
   unmapped address, which strict mode turns into a fault; a device has no way to
   tell the bus. Run `timer_access`.
2. **The throttle's product overflows** (`main.c:104`). `cycles * NS_PER_SEC` wraps
   at about 1.8 * 10^10 cycles; after that the loop believes it is late and does not
   sleep. Run `emulator_throttle`. `FrequencyIsRespected` holds as long as the product
   fits, which is what run `emulator` shows and `FrequencyHolds` proves.
3. **A long handler does not always starve the program** (`dlx_timer.c:48`).
   `Devices.md` says that with a handler at least as long as the period the next
   interrupt is already pending at RFE. The request is withdrawn at the
   acknowledgement, and the next expiration may fall after RFE: with period 8 and
   a handler of 15 the program does get instructions. `ProgramGetsTheRest` gives
   the number. Run `timer_starvation`.

Three remarks that no run of its own illustrates. A snapshot may be reported and not
be there: of `dlx_snapshot_write` only `fopen` is looked at (`dlx_snapshot.c:19`), and a
`fprintf` or the `fclose` that fails, on a full disk for example, leaves the file empty
or cut short while `main` logs "Snapshot saved into" and leaves with the code of the
program. `WriteSnapshot` has that outcome (`"incomplete"`), and what holds in spite of it
is `SnapshotAgrees`: a reason that is in the file is the true one, it goes with its exit
code, and a file that does not open is an error. The errors `asm.py` reports while it
parses or includes do not show the text of the line, which
`docs/guide/Assembler.md:11` says of every error (`report` in `AssemblerRun` keeps
the difference). And the programs of the guide, which wait for the Output Port and
then write, depend on its delay being shorter than their handler: with the
source's 3 cycles, and up to 9, `NothingSentIsLost` holds; with 10 a byte is lost.

## 5. Proofs

For every memory map allowed by `MapAssumption`, every program, input, delay,
polling interval, number of lines and word size:

- `MachineProofs`: `Invariance` is `Spec => []IInv`. From it follow
  `TypeCorrect`, `NoPhantom`, `SampledExactly`, `RequestsAreServed`,
  `StoppedIsIdle` and the action property `StopStays`. `Refinement` is `Spec => ImplementsLevelInterrupts`.
- `HistoryProofs`: `TrapStaysIntact`, `SourceIsFound`, `InputStaysIntact`, of the machine
  beside its history; `NoDrift`, `NoExpirationMissed`, of the Timer for every period
  and width.
- `MemoryProofs`: `ReadsStayInside`, `WritesStayInRam`, `DevicesAreApart`. The
  first answers a question the code raises: `get_phys_ptr` looks only at the
  first address of an access, and alignment is what keeps the others inside.
  `MemoryIsWords` is `AccessSpec => ImplementsWordMemory`.
- `WordProofs`: what the operations on words of bits are over integers (`PlusAdds`,
  `MinusSubtracts`, `BelowIsSmaller`, the shifts, `SignExtensionValue`,
  `PatternValue`); from them `AluComputes`, and `AluStaysDocumented` and
  `ImmediatesStayDocumented`: what run `arithmetic` shows at 4 bits holds at the
  32 bits of the source.
- `CoreProofs`, for every program and every way to number addresses:
  `CoreTypeCorrect`; `CoreIsMachine` is `CoreSpec => Spec`, so that everything
  proved of the machine with open instructions is proved of every program
  (`ProgramsAreInterruptible`); `InvalidAccessStaysHarmless`, `FaultsStopInPlace`,
  `CoreFetchesTheProgram`; `ProgramsFaultAsDocumented`, in both modes; and `ProgramsUseTheWordArray`, which is
  `CoreSpec => AccessesTheWordArray`: the fetches, loads and stores of any program
  are those of the array of words, and only its stores touch it. No run checks that
  property: with the map of the source every step would compare every word of it, and
  so it stands in `CoreMemory`, which no run reads.
- `AssemblerProofs`, for every set of files, includes and lines: `InputsStayKept`,
  `OutputStaysAPrefix`, `LinesStayInStep`, `WordsStayDecodable`,
  `BranchesStayInReach`.
- `IncludeProofs`, for every set of files and names: `ExpansionInvariance`, and from
  it `IncludesStayInPlace`, which is `AssemblerSpec => []IncludesAreInPlace`.
- `EmulatorProofs`: `NothingEverLeaks`, `ExitCodeStaysTrue`, `SnapshotAlwaysAgrees`,
  `LimitStaysExact`; and `FrequencyHolds` for a limit whose simulated time fits
  the counter, which is the condition finding 2 is about.

**The arguments.**

*The interrupt path.* `SampledLineIsExact` speaks of the moment of sampling, which
the devices prepare one by one. `IInv` adds what each of them contributes:
`TickProgress` (after the controller's tick a latched line has raised the CPU's;
after the Input Port's tick its own request is latched), `LineIsReset` (the CPU's
line is down between cycles, so that an old request cannot be sampled),
`NoPhantomLine` (no line outlives its request), `TimerShape` (a disabled timer
asks nothing, so that its silent tick is harmless; the counter stays below the
period), `OutputShape` (the countdown is not 0 while the port is busy, so that
it does not wrap), `SampledUntilFetch`, and `ExitIsStopped`. Types are its first
conjunct. Each has a lemma per stage of the cycle; the bus is treated once
(`BusReadInv`, `BusWriteInv`) and used by the fetch and by loads and stores. For the
refinement a tick raises at most one request, an access serves at most one
(`BusReadServes`, `BusWriteServes`), and the two sampling steps are `Trap` and `Begin`
because of `SampledLineIsExact`.

*The history.* A step of the history is a step of the machine, so `IInv` holds
there too. `TrapIsIntact` is inductive as it stands. `HandlerFindsSource` is not:
`StillAsking` says that from the trap on some device still asks, and that at
execution the controller holds exactly those that do. It is lost only by an access
to a device that clears a line, which ends `untouched`; `IInv` gives it at the trap
and rebuilds the controller in each later cycle. `InputIsIntact` needs that
`delivered` is a sequence of bytes, and then follows from three facts: a tick moves
one byte to a free latch, a read moves the latch to `delivered`, nothing else
touches either.

*The Timer.* `TimerInv` joins types and the two properties: a tick adds 1 to the
ticks and, to their remainder by the period, 1 or the reset; the quotient grows
exactly at the reset, which is when the status rises.

*Memory.* `BytesAreBytes` is the invariant. The regions are whole words
(`RegionWords`), so an aligned access is valid for the array exactly when the bus
sends it to memory (`ValidReads`, `ValidWrites`), and it lies in one word
(`PlaceInWord`). `LanesRead` and `LanesWritten` compare that word with the bytes, bit
by bit; `OtherWords` says the others stay. So a read is a load of the array
(`ReadIsLoad`) and a write a store (`WriteIsStore`), wherever they come from.

*The process.* `HeldInv` says for each stage what is allocated, as the number of times each
resource was allocated less that of its releases, so that one released twice would
show; `OutcomeInv` ties
the reason to stop to the number of cycles and to the signal, `ReportInv` the exit
code and the snapshot to the reason.

*Words.* A word is a set of bits, and `Unsigned` the sum of their weights. Every
fact is an induction on how many of the low bits are looked at: a carry into bit n
says by how much the sums of the first n bits differ (`PartialSum`), the highest
differing bit decides a comparison because all lower weights together are smaller
(`HighestDecides`), a shift splits the sum in two (`ValueSplit`), the parity of an
integer shifted n times is its bit n (`BitIsParity`). The prover cannot instantiate
the library's induction theorem, whose parameter is an operator; `Inductive` and
`InductiveUpTo`, about a set that contains 0 and the successors of its members,
are proved here instead, from the well-foundedness of the naturals, and a fact for
all n is the membership of n in the set of those it holds for.

*The core.* `CoreInv` (registers and bytes have their types, R0 is 0) and the
machine's `IInv` support each other: the addresses of accesses and jumps are in
range because the registers hold words, and a register that receives the program
counter, IAR or a status holds a word because the machine's are in range.
So each step of `Core` is a step of `Machine` (`CoreStep`) and both are invariants
together. An access of which any byte is out of place is rejected because of the
first one (`InvalidIsRejected`, from `ReadsStayInside` and `WritesStayInRam`), and a
rejected access leaves what it finds. `ProgramsFaultAsDocumented` compares, for each kind of
instruction, what `Execute` does to `execState` with the documents' list: the bus's
tests are the listed invalid accesses (`AccessFaultsAsDocumented`), the rest is the
decoder's and INT's (`OtherFaultsAsDocumented`). For `CoreFetchesTheProgram`, `RomStep` says that no store
reaches the ROM, and `WordOfItsBytes` that the bytes of a word in the order of the
loader are the word in the order of the bus. For `ProgramsUseTheWordArray` the bytes
of the machine stay bytes by `CoreInv`; a stage that is not a store leaves them alone
(`OthersKeepMemory`), a load that completes leaves in its register the lanes it
selects, extended (`LoadDelivers`), and a store the low bits of its register
(`StoreArrives`).

*The assembler.* `RunInv` is what the stages owe each other: until the output is
opened the disk is the original one; from the comparison of names on, the target
is not among the files read; from the parse on, `parsed` is what `Parse` makes of
`lines`; once open, the output holds the words of the first `written` instructions,
which were all accepted, or of fewer, and perhaps a part of one more, if the output is
`"cut"` (`Holding`): `WriteFails` and a close that fails keep of the words a first part
(`FirstWords`, `CutKeeps`). `OutputIsAPrefix` alone is not inductive: nothing in it
says that the output is another file than the sources, nor that the words are of
the program as parsed. Parsing is a fold over the lines; `FoldExists` shows that
the fold is the succession of states of its loop (`ParseStates`), and `ParsedInStep`
is an invariant of that loop: the address it counts is 4 times the instructions so
far.

*Includes.* `IncludesAreInPlace` speaks only of the end, of lines and files that are
all read. What holds on the way is said of the items *passed*: those of a file that has
been entered, up to where its call of `open_file` stands if it is still on the stack.
`FramesOK`: the stack holds entered files, each once and each the one the item before
its caller's place names. `LinesOK`: the lines read are those of the items
passed, each once, a file's in their order. `FilesOK`: the files entered are the source and
those that passed directives name, and all are reached. `OrderOK`: the two statements about
places, together with what they need of a file that is still being read: a file named before
a line already read can be on the stack only if it leads to that line's file (a cycle), and
what was read since the first line of a file on the stack is what that file leads to. At
the end the stack is empty, so that passed means read. Each kind of step has its lemma
(`DirectiveGoes`, `SkipKeeps`, `FollowKeeps`, `OpenKeeps`, `LineKeeps`, `ReturnKeeps`). A
file is reached if it is in every set that holds the first one and what its members name
(`Reached`), a definition without recursion that gives the prover its induction: to show
that all that is reached is read, it suffices that what is read is closed.

*Decoding.* The two tables of codes agree entry by entry (`FunctionsAgree`,
`OpcodesAgree`) and no two instructions share their codes (`CodesDiffer`), so the name
comes back (`NameOfPacked`). The fields of a format do not overlap (`FieldsApart`), so
a packed operand comes back from its field (`FieldOfPacked`), where `PatternValue`
makes it the operand modulo the field's width. For branches, `FieldLeads`: a
displacement that fits its field leads to the goal; `FieldMisses`: for one that does
not, no value of the field it would be truncated to does, unless the goal is a
quarter of the address space away.

**Assumptions** are the named ones of the modules: `LineCountAssumption`,
`InputAssumption`, `OutputAssumption` (a delay from 1 to 255; 0 would wrap),
`StrictModeAssumption`, `TimerAssumption`, `MapAssumption` (regions of whole
words, in order), `WiringAssumption` (two different lines), `ProgramAssumption`,
`WordAssumption` (the width of words and of shift amounts), `CoreAssumption` (the
programs are words that fit the ROM, and registers start as words),
`GarbageAssumption` (an uninitialised byte is a byte), `MemoryAccessAssumption`
(so are those of the image, and addresses are in range), `PathsAssumption` (each
path is the name of one file), `LinesAssumption` (a line is a sequence of tokens, and
a token that is a number has one), `MaxTicksAssumption` and `EmulatorAssumption`. TLC
evaluates them in the runs. Some theorems have a hypothesis of their own, stated in
them: that of `FrequencyHolds`; `SourceWidth`, words of
up to 32 bits with shift amounts of up to 5; `SourceBits`, exactly those of the source, on
which its encodings rest; and `SourceCore`, which adds that every address of the
space may be computed and every word stored, as any program may do, and that
`AddressOf` and `WordOf` stay in range.

**Only model-checked**:

- liveness, which this prover does not reach: `OutputBecomesReady`, `InputIsLatched`,
  `RequestTraps`, `StopLeadsToExit`, `SignalEnds`, `ProgramEnds`, `AssemblerEnds`;
- what is said of given programs, that is of their execution step by step:
  `EndsAsRecorded`, `NothingSentIsLost`, `ProgramGetsTheRest`, `HandlerIsTransparent`.

## 6. Not modelled, and the plan

| Order | Work | Status |
|:--|:--|:--|
| 1 | Devices, bus, core and loop; interrupt invariants; liveness; refinement | done |
| 2 | Lifecycle of the process | done |
| 3 | Proofs of the invariant and of the refinement | done |
| 4 | Instruction set: words of bits, decode, sign extension, ALU and comparisons against reference definitions | done |
| 5 | Memory contents: big-endian bytes over the three widths, refinement of an array of words, and its proof | done |
| 6 | A concrete core executing the repository's programs; what a periodic handler leaves to the program; polled output that never loses a byte | done |
| 7 | Assembler: symbols, ranges, inclusion once, encoding then decoding, the output file | done |
| 8 | Proofs of the history properties, of the Timer's exactness and of the process | done |
| 9 | Proofs of the arithmetic of words, of the core with any program, and of the assembler: its files, lines, encodings and displacements | done |
| 10 | Proof that the core's loads and stores, too, implement the array of words | done |
| 11 | Proof that the stack of files expands what the recursion does, stated without recursion | done |
| 12 | Command-line numbers (`parse_u64`, `parse_u32`) | open: text input |

Left out:

- the reading of text: the options and numbers of the command line (their failure is
  modelled), and how the assembler splits a line into tokens and reads a number;
- the loader's file input: sizes and read errors are one failure in `Emulator`;
- the writing of text: logging (`debug.h`), messages, the layout of the snapshot;
- a standard output that fails or blocks: the Output Port does not look at what its
  write returns;
- hard links: `asm.py` compares canonical names, and an output that is a hard link of
  an input has another; `InputsAreKept` is about paths and symbolic links;
- a signal that kills the assembler, files it cannot decode as text, and a file that
  changes while it is read;
- the termios flags and the conversions of `struct timespec`;
- the full table of devices, which cannot occur with the six that `main` creates;
- `tests/stress.asm`, which no case of the runner executes, and the shell script
  around the cases.
