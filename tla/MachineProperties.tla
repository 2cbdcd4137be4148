-------------------------- MODULE MachineProperties --------------------------
(***************************************************************************)
(* What the machine must satisfy, whatever the program does: the properties *)
(* the runs check and the invariant the proofs use.                         *)
(***************************************************************************)
EXTENDS Machine

\* The lines of the devices that have something to ask.
Pending ==
  {i \in Lines : (i = InputLine /\ inReady = 1) \/ (i = TimerLine /\ status = 1)}

-----------------------------------------------------------------------------
(* Safety of the interrupt path. *)

\* No phantom request: at every moment, even between two stages of a cycle, a
\* line latched in the controller belongs to a device that is still asking.
\* (assert_interrupt and deassert_interrupt of dlx_ic.c against the ready and
\* status bits of the devices.)
NoPhantomLine == Asserted \subseteq Pending

\* When the CPU samples its line, the controller latches exactly the devices
\* that ask, although a read of the controller in an earlier cycle may have
\* cleared a line whose device was not served; and the CPU's line is up exactly
\* when some device asks, although it was reset at the end of the last cycle.
SampledLineIsExact ==
  phase = "irq" =>
    /\ Asserted = Pending
    /\ (interruptLine = 1) <=> (Pending # {})

\* An instruction is never fetched with interrupts enabled and a request
\* pending: the trap is taken in the very cycle in which the request is raised.
NoUnservicedFetch == (phase = "fetch" /\ ien = 1) => Pending = {}

(* Safety of stopping. *)

\* A machine that has stopped starts no stage of a further instruction: a fetch
\* that faults is not executed and the loop is not entered again.
StoppedRunsNothing ==
  execState # "RUNNING" => phase \in {"reset", "check", "loop", "exit"}

\* The first reason to stop is the one that is reported: a cycle limit or a
\* signal that arrives in the cycle of a halt or a fault does not hide it.
StopIsFinal == [][execState # "RUNNING" => execState' = execState]_vars

(* The refinement. *)

\* The machine, seen through its devices' requests and SR[IEN], implements
\* LevelInterrupts.
Level == INSTANCE LevelInterrupts WITH
  Sources  <- {InputLine, TimerLine},
  requests <- Pending,
  enabled  <- ien = 1,
  busy     <- phase \in {"fetch", "exec", "unknown", "reset"}

ImplementsLevelInterrupts == Level!LevelSpec

(* Liveness. *)

\* A busy Output Port becomes ready again, whatever the program writes to it
\* meanwhile, unless the machine stops.
OutputBecomesReady == (outReady = 0) ~> (outReady = 1 \/ execState # "RUNNING")

\* A byte typed while the latch is free reaches the latch, whatever the program
\* does, unless the machine stops.
InputIsLatched ==
  (taken < avail /\ inReady = 0) ~> (inReady = 1 \/ execState # "RUNNING")

\* A request raised with interrupts enabled leads to a trap, unless the program
\* disables interrupts or serves it first, or the machine stops.
RequestTraps ==
  (Pending # {} /\ ien = 1) ~> (ien = 0 \/ execState # "RUNNING")

\* A machine that stops leaves the loop, so that main can report the outcome.
StopLeadsToExit == (execState # "RUNNING") ~> (phase = "exit")

-----------------------------------------------------------------------------
(* The inductive invariant. *)

\* A disabled timer neither counts nor asks; an enabled one counts below its
\* period.
TimerShape ==
  /\ period = 0 => counter = 0 /\ status = 0
  /\ period # 0 => counter < period

\* The countdown of the Output Port runs exactly while it is busy.
OutputShape == (outReady = 0) <=> (outDelay # 0)

\* Before a cycle starts the CPU's line is down.
LineIsReset == (phase \in {"loop", "check"} /\ execState = "RUNNING") => interruptLine = 0

\* While the devices tick, the CPU's line is up only for a line latched in the
\* controller (or not yet), and the Input Port, once ticked, is heard.
TickProgress ==
  phase = "tick" =>
    /\ interruptLine = 1 => Asserted # {}
    /\ (turn > IC /\ Asserted # {}) => interruptLine = 1
    /\ (turn > InPort /\ inReady = 1) => InputLine \in Asserted

\* Until the fetch nothing disturbs what was sampled.
SampledUntilFetch ==
  phase \in {"irq", "fetch"} =>
    /\ Asserted = Pending
    /\ (interruptLine = 1) <=> (Pending # {})

\* The loop is left only with the machine stopped.
ExitIsStopped == phase = "exit" => execState # "RUNNING"

\* All of it together: what every stage of dlx_seq_step and every turn of the
\* loop of main preserves.
IInv ==
  /\ TypeOK
  /\ NoPhantomLine
  /\ TimerShape
  /\ OutputShape
  /\ LineIsReset
  /\ TickProgress
  /\ SampledUntilFetch
  /\ NoUnservicedFetch
  /\ StoppedRunsNothing
  /\ ExitIsStopped
=============================================================================
