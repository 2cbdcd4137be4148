------------------------------ MODULE Emulator -------------------------------
(***************************************************************************)
(* The life of the emulator's process: main() in src/src/cpu_seq/main.c,    *)
(* with what it calls to set up, load, report and clean up.  The machine is *)
(* reduced to the outcome of each dlx_seq_step (module Machine models it);  *)
(* here are the resources the process holds, the signal that may arrive at  *)
(* any moment, the cycle limit, the throttle and the exit code.             *)
(***************************************************************************)
EXTENDS Integers, FiniteSets

CONSTANTS
  MaxCycles,      \* config.max_cycles, 0 = no limit
  Freq,           \* config.freq_hz, 0 = as fast as the host allows
  SyncRate,       \* synchronisations per second of simulated time, 100 in the source
  NsPerSec,       \* NS_PER_SEC
  CounterRange,   \* number of values of a uint64_t, 2^64 in the source
  DumpState,      \* config.dump_state is set
  MaxElapsed      \* bound on the time the host's clock can show

ASSUME EmulatorAssumption ==
  /\ MaxCycles \in Nat /\ Freq \in Nat /\ MaxElapsed \in Nat
  /\ SyncRate \in Nat \ {0} /\ NsPerSec \in Nat \ {0} /\ CounterRange \in Nat \ {0}
  /\ MaxCycles < CounterRange
  /\ DumpState \in BOOLEAN

VARIABLES
  stage,        \* where main is: see Stages
  held,         \* the memories and the devices: how often each was allocated, less
                \* how often it was released, so that a double release shows as -1
  registered,   \* state.device_count
  terminal,     \* the host's terminal: "cooked", as it was found, or "raw"
  quit,         \* the flag the signal handler sets
  execState,
  cycles,       \* state.cycles, a uint64_t
  elapsed,      \* nanoseconds since start_ns on the host's clock
  snapshot,     \* the exit reason in the snapshot file; "none" if main has not opened
                \* it, "incomplete" if it is empty or cut short
  exitCode      \* the process's exit code, or NoCode while it runs

vars == <<stage, held, registered, terminal, quit, execState, cycles, elapsed, snapshot, exitCode>>

\* The devices in the order setup_devices creates and registers them.
DeviceNames ==
  <<"Interrupt Controller", "Startup Circuit", "Input Port", "Output Port",
    "Power Manager", "Timer">>
DeviceTotal == 6
Memories    == {"rom", "ram"}
Resources   == Memories \union {DeviceNames[i] : i \in 1..DeviceTotal}

\* Each resource of S allocated once, and no other.
Holding(S) == [r \in Resources |-> IF r \in S THEN 1 ELSE 0]

Stages == {"arguments", "init", "devices", "load", "clock", "loop", "step", "limit",
           "throttle", "report", "snapshot", "free", "exit"}

ExecStates == {"RUNNING", "HALT", "FAULT", "SIGNAL", "TIMEOUT", "CRITICAL"}

\* DLX_exit_codes.
Success    == 0
FaultCode  == 1
SignalCode == 2
ErrorCode  == 3
LimitCode  == 4
NoCode     == 5

\* One synchronisation in SyncInterval cycles; the interval without a frequency
\* is never used.
SyncInterval == IF Freq \div SyncRate > 0 THEN Freq \div SyncRate ELSE 1

\* Types, and the throttle never sleeps past the time the run may take.
TypeOK ==
  /\ stage \in Stages /\ held \in [Resources -> Int] /\ registered \in 0..DeviceTotal
  /\ terminal \in {"cooked", "raw"}
  /\ quit \in BOOLEAN /\ execState \in ExecStates
  /\ cycles \in 0..(CounterRange - 1) /\ elapsed \in 0..MaxElapsed
  /\ snapshot \in ExecStates \union {"none", "incomplete"} /\ exitCode \in 0..NoCode

Init ==
  /\ stage = "arguments" /\ held = Holding({}) /\ registered = 0
  /\ terminal = "cooked"
  /\ quit = FALSE /\ execState = "RUNNING"
  /\ cycles = 0 /\ elapsed = 0
  /\ snapshot = "none" /\ exitCode = NoCode

machineVars == <<execState, cycles, elapsed, snapshot>>

-----------------------------------------------------------------------------
\* Setting up.

\* However the process exits, the handler registered with atexit restores the
\* terminal.
Exit(code) == stage' = "exit" /\ exitCode' = code /\ terminal' = "cooked"

Allocate(S) == held' = [r \in Resources |-> held[r] + Holding(S)[r]]
Release(S)  == held' = [r \in Resources |-> held[r] - Holding(S)[r]]

\* Mutant: the devices are forgotten.
FreeStateMemories ==
  /\ Release(Memories)
  /\ registered' = 0

\* dlx_state_free: the memories its pointers still show, then every registered
\* device, whether it is still allocated or not.
FreeState ==
  /\ Release({r \in Memories : held[r] > 0} \union {DeviceNames[i] : i \in 1..registered})
  /\ registered' = 0

\* An error once the state exists.
Abort == FreeState /\ Exit(ErrorCode)

\* parse_arguments ends the process by itself for --help and for bad values;
\* otherwise the terminal is put in raw mode.
ParseArguments ==
  /\ stage = "arguments"
  /\ \/ stage' = "init" /\ terminal' = "raw" /\ UNCHANGED exitCode
     \/ \E code \in {Success, ErrorCode} : Exit(code)
  /\ UNCHANGED <<held, registered, quit, machineVars>>

\* dlx_state_init: the ROM, then the RAM; if the RAM fails the ROM is released.
InitState ==
  /\ stage = "init"
  /\ \/ Allocate(Memories) /\ stage' = "devices" /\ UNCHANGED <<terminal, exitCode>>
     \/ UNCHANGED held /\ Exit(ErrorCode)
  /\ UNCHANGED <<registered, quit, machineVars>>

\* setup_devices: one device after the other, until one cannot be allocated.
CreateDevice ==
  /\ stage = "devices" /\ registered < DeviceTotal
  /\ \/ /\ Allocate({DeviceNames[registered + 1]})
        /\ registered' = registered + 1
        /\ stage' = IF registered' = DeviceTotal THEN "load" ELSE "devices"
        /\ UNCHANGED <<terminal, exitCode>>
     \/ Abort
  /\ UNCHANGED <<quit, machineVars>>

\* The program is read, then the clock; either may fail.
Load ==
  /\ stage = "load"
  /\ \/ stage' = "clock" /\ UNCHANGED <<held, registered, terminal, exitCode>>
     \/ Abort
  /\ UNCHANGED <<quit, machineVars>>

StartClock ==
  /\ stage = "clock"
  /\ \/ stage' = "loop" /\ UNCHANGED <<held, registered, terminal, exitCode>>
     \/ Abort
  /\ UNCHANGED <<quit, machineVars>>

-----------------------------------------------------------------------------
\* The loop.

\* Mutant: the flag is read only once the machine has stopped.
LoopHeadDeaf ==
  /\ stage = "loop"
  /\ \/ /\ execState # "RUNNING"
        /\ stage' = "report" /\ UNCHANGED execState
     \/ /\ execState = "RUNNING"
        /\ stage' = "step" /\ UNCHANGED execState
  /\ UNCHANGED <<held, registered, terminal, quit, cycles, elapsed, snapshot, exitCode>>

LoopHead ==
  /\ stage = "loop"
  /\ \/ /\ execState # "RUNNING"
        /\ stage' = "report" /\ UNCHANGED execState
     \/ /\ execState = "RUNNING" /\ quit
        /\ execState' = "SIGNAL" /\ stage' = "report"
     \/ /\ execState = "RUNNING" /\ ~quit
        /\ stage' = "step" /\ UNCHANGED execState
  /\ UNCHANGED <<held, registered, terminal, quit, cycles, elapsed, snapshot, exitCode>>

\* dlx_seq_step, with any outcome, and the cycle counter.
Step ==
  /\ stage = "step"
  /\ execState' \in {"RUNNING", "HALT", "FAULT", "CRITICAL"}
  /\ cycles' = (cycles + 1) % CounterRange
  /\ elapsed' \in {elapsed, elapsed + 1} \intersect 0..MaxElapsed
  /\ stage' = "limit"
  /\ UNCHANGED <<held, registered, terminal, quit, snapshot, exitCode>>

\* Mutant: off by one.
LimitPassed == execState = "RUNNING" /\ MaxCycles # 0 /\ cycles > MaxCycles

LimitReached == execState = "RUNNING" /\ MaxCycles # 0 /\ cycles >= MaxCycles

CheckLimit ==
  /\ stage = "limit"
  /\ IF LimitReached THEN execState' = "TIMEOUT" /\ stage' = "report"
                     ELSE stage' = "throttle" /\ UNCHANGED execState
  /\ UNCHANGED <<held, registered, terminal, quit, cycles, elapsed, snapshot, exitCode>>

SyncDue == Freq > 0 /\ cycles % SyncInterval = 0

\* Mutant: the product is computed on half the width.
SimulatedNsNarrow == ((cycles * NsPerSec) % (CounterRange \div 2)) \div Freq

\* The time the program should have taken, in uint64_t arithmetic.
SimulatedNs == ((cycles * NsPerSec) % CounterRange) \div Freq

SkipThrottle ==
  /\ stage = "throttle" /\ ~SyncDue
  /\ stage' = "loop"
  /\ UNCHANGED <<held, registered, terminal, quit, machineVars, exitCode>>

\* The sleep ends when the time has come, or later when the host is slow, or as
\* soon as a signal arrives.
Throttle ==
  /\ stage = "throttle" /\ SyncDue
  /\ stage' = "loop"
  /\ \/ /\ SimulatedNs > elapsed
        /\ \/ elapsed' \in SimulatedNs..MaxElapsed /\ UNCHANGED quit
           \/ elapsed' \in elapsed..MaxElapsed /\ quit' = TRUE
     \/ /\ SimulatedNs <= elapsed
        /\ UNCHANGED <<elapsed, quit>>
  /\ UNCHANGED <<held, registered, terminal, execState, cycles, snapshot, exitCode>>

\* The clock fails at a synchronisation: the process ends at once.
ClockFails ==
  /\ stage = "throttle" /\ SyncDue
  /\ Abort
  /\ UNCHANGED <<quit, machineVars>>

-----------------------------------------------------------------------------
\* Reporting and leaving.

\* Mutant: a missing break.
CodeOfFallsThrough(state) ==
  CASE state \in {"HALT", "FAULT"} -> FaultCode
    [] state = "SIGNAL"  -> SignalCode
    [] state = "TIMEOUT" -> LimitCode
    [] OTHER             -> ErrorCode

CodeOf(state) ==
  CASE state = "HALT"    -> Success
    [] state = "FAULT"   -> FaultCode
    [] state = "SIGNAL"  -> SignalCode
    [] state = "TIMEOUT" -> LimitCode
    [] OTHER             -> ErrorCode

Report ==
  /\ stage = "report"
  /\ stage' = IF DumpState THEN "snapshot" ELSE "free"
  /\ UNCHANGED <<held, registered, terminal, quit, machineVars, exitCode>>

\* Mutant: a file that cannot be opened is ignored.
WriteSnapshotUnchecked ==
  /\ stage = "snapshot"
  /\ snapshot' \in {execState, "incomplete", "none"} /\ stage' = "free"
  /\ UNCHANGED <<held, registered, terminal, quit, execState, cycles, elapsed, exitCode>>

\* dlx_snapshot_write fails only if the file cannot be opened.  What fprintf and
\* fclose return is not looked at: a full disk or an input/output error leaves the
\* file empty or cut short, and main goes on as if it were whole.
WriteSnapshot ==
  /\ stage = "snapshot"
  /\ \/ /\ snapshot' \in {execState, "incomplete"} /\ stage' = "free"
        /\ UNCHANGED <<held, registered, terminal, exitCode>>
     \/ Abort /\ UNCHANGED snapshot
  /\ UNCHANGED <<quit, execState, cycles, elapsed>>

Leave ==
  /\ stage = "free"
  /\ FreeState /\ Exit(CodeOf(execState))
  /\ UNCHANGED <<quit, machineVars>>

-----------------------------------------------------------------------------
\* SIGINT or SIGTERM: the handler sets a flag and returns.
SignalArrives ==
  /\ stage # "exit" /\ ~quit
  /\ quit' = TRUE
  /\ UNCHANGED <<stage, held, registered, terminal, machineVars, exitCode>>

Exited == stage = "exit" /\ UNCHANGED vars

Main ==
  \/ ParseArguments \/ InitState \/ CreateDevice \/ Load \/ StartClock
  \/ LoopHead \/ Step \/ CheckLimit \/ SkipThrottle \/ Throttle \/ ClockFails
  \/ Report \/ WriteSnapshot \/ Leave

Next == Main \/ SignalArrives \/ Exited

Spec     == Init /\ [][Next]_vars
FairSpec == Spec /\ WF_vars(Main)

-----------------------------------------------------------------------------
\* On every way out of main, early or late, what was allocated is released, each
\* memory and device exactly once (dlx_state_free), and the terminal is as it was
\* found; and the machine runs only with all of it.
NothingLeaks ==
  /\ stage = "exit" => held = Holding({}) /\ terminal = "cooked"
  /\ stage \in {"load", "clock", "loop", "step", "limit", "throttle", "report", "snapshot",
                "free"} => held = Holding(Resources)

\* The exit code tells how execution ended (docs/guide/Emulator.md), unless the
\* emulator itself failed: a limit means exactly MaxCycles cycles, a signal that
\* one was received, and the only success without a halt is --help.
ExitCodeIsTrue ==
  stage = "exit" =>
    /\ exitCode # NoCode
    /\ exitCode = Success => execState = "HALT" \/ (execState = "RUNNING" /\ cycles = 0)
    /\ exitCode = FaultCode => execState = "FAULT"
    /\ exitCode = SignalCode => execState = "SIGNAL" /\ quit
    /\ exitCode = LimitCode => execState = "TIMEOUT" /\ cycles = MaxCycles

\* What the snapshot file and the exit code say of each other (main.c:136,
\* dlx_snapshot_write): a reason the file gives is the one execution ended with,
\* a file that was opened goes with the exit code of that reason, and if a
\* snapshot was asked for, no reason is reported without opening its file.  The
\* file may be cut short all the same (see WriteSnapshot), and then no exit code tells.
SnapshotAgrees ==
  stage = "exit" =>
    /\ snapshot # "none" =>
         DumpState /\ snapshot \in {execState, "incomplete"} /\ exitCode = CodeOf(execState)
    /\ DumpState /\ execState # "RUNNING" /\ exitCode # ErrorCode => snapshot # "none"

\* The limit --max-cycles sets (main.c:93) is never overrun by a cycle.
LimitIsExact == MaxCycles # 0 => cycles <= MaxCycles

\* A frequency is respected (docs/internals/Sequential-Core.md: "the loop
\* compares the time the program should have taken, cycles / freq_hz, with the
\* time actually elapsed, and sleeps for the difference when it is running
\* ahead"): after a synchronisation no signal interrupted, the program is not
\* ahead of the time it should have taken.
FrequencyIsRespected ==
  (stage = "loop" /\ SyncDue /\ ~quit) => elapsed >= (cycles * NsPerSec) \div Freq

\* A signal ends the process (handle_exit_signal in main.c) wherever it arrives,
\* setting up included; and one that finds the loop running is the reason that is
\* reported, however few cycles the limit leaves or the program needs to halt.
SignalEnds ==
  /\ quit ~> (stage = "exit")
  /\ (quit /\ stage = "loop" /\ execState = "RUNNING") ~> (exitCode \in {SignalCode, ErrorCode})
=============================================================================
