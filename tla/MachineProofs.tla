---------------------------- MODULE MachineProofs ----------------------------
(***************************************************************************)
(* Proofs, for every value of the constants, that IInv is an inductive      *)
(* invariant of the machine, of the safety properties that follow, and that *)
(* the machine implements LevelInterrupts: every step of the machine is a   *)
(* step of the abstract interrupt path, or leaves its variables unchanged.  *)
(***************************************************************************)
EXTENDS MachineProperties, TLAPS

\* A number below the modulus is its own remainder, and a remainder is below
\* the modulus: the counter of the Timer and the program counter stay words.
LEMMA RemainderSmall ==
  ASSUME NEW n \in Nat \ {0}, NEW a \in 0..(n - 1)
  PROVE  a % n = a
OBVIOUS

\* A remainder is below the modulus, whatever is divided.
LEMMA RemainderRange ==
  ASSUME NEW n \in Nat \ {0}, NEW a \in Nat
  PROVE  a % n \in 0..(n - 1)
OBVIOUS

\* The countdown of the Output Port does not wrap while it is busy.
LEMMA DecrementedBusy ==
  ASSUME NEW d \in 1..255
  PROVE  Decremented(d) = d - 1
BY DEF Decremented

-----------------------------------------------------------------------------
(* The part of IInv that speaks of the devices only, whatever the phase. *)

BusTypes ==
  /\ lines \in [Lines -> Bit] /\ interruptLine \in Bit
  /\ inReady \in Bit /\ inData \in Byte /\ inTickCount \in 0..InputCheckInterval
  /\ avail \in 0..Len(Input) /\ taken \in 0..avail
  /\ outReady \in Bit /\ outDelay \in 0..OutputPortDelay
  /\ startup \in Bit
  /\ period \in Words /\ counter \in Words /\ status \in Bit
  /\ execState \in ExecStates

CpuTypes ==
  /\ phase \in Phases /\ turn \in Devices
  /\ ien \in Bit /\ iar \in Addresses /\ cr \in {0, SoftwareCause} /\ pc \in Addresses

DevicesInv == BusTypes /\ NoPhantomLine /\ TimerShape /\ OutputShape

\* The type invariant, split into the part the bus can disturb and the core.
LEMMA TypeParts == TypeOK <=> BusTypes /\ CpuTypes
BY DEF TypeOK, BusTypes, CpuTypes

\* A read of the controller clears at most the line it reports.
LEMMA ICReadLines ==
  ASSUME lines \in [Lines -> Bit], ICRead
  PROVE  lines' \in [Lines -> Bit] /\ Asserted' \subseteq Asserted
<1>1. CASE Asserted = {}
  BY <1>1 DEF ICRead, Asserted
<1>2. CASE Asserted # {}
  <2>1. lines' = [lines EXCEPT ![ICReadValue] = 0]
    BY <1>2 DEF ICRead
  <2>2. \A i \in Lines : lines'[i] = IF i = ICReadValue THEN 0 ELSE lines[i]
    BY <2>1
  <2> QED BY <2>1, <2>2 DEF Asserted, Bit
<1> QED BY <1>1, <1>2

\* What asserting and deasserting a line does to the set of asserted lines.
LEMMA AssertLines ==
  ASSUME lines \in [Lines -> Bit], NEW i \in Lines, AssertInterrupt(i)
  PROVE  /\ lines' \in [Lines -> Bit] /\ interruptLine' = 1
         /\ Asserted' = Asserted \union {i}
BY DEF AssertInterrupt, Asserted, Bit

\* Withdrawing a request takes exactly that line out of the asserted ones.
LEMMA DeassertLines ==
  ASSUME lines \in [Lines -> Bit], NEW i \in Lines, DeassertInterrupt(i)
  PROVE  /\ lines' \in [Lines -> Bit] /\ interruptLine' = interruptLine
         /\ Asserted' = Asserted \ {i}
BY DEF DeassertInterrupt, Asserted, Bit

-----------------------------------------------------------------------------
(* Accesses over the bus. *)

\* A read of the Input Port frees the latch and its line together
\* (input_port_read).
LEMMA InputReadInv ==
  ASSUME DevicesInv, InputRead, UNCHANGED <<outputVars, startup, timerVars, execState>>
  PROVE  DevicesInv'
<1> USE InputAssumption DEF DevicesInv, BusTypes
<1>1. lines' \in [Lines -> Bit] /\ interruptLine' = interruptLine
      /\ Asserted' = Asserted \ {InputLine}
  BY DeassertLines DEF InputRead
<1>2. BusTypes'
  BY <1>1 DEF InputRead, outputVars, timerVars, Bit
<1>3. NoPhantomLine'
  BY <1>1 DEF InputRead, outputVars, timerVars, NoPhantomLine, Pending
<1>4. TimerShape' /\ OutputShape'
  BY DEF InputRead, outputVars, timerVars, TimerShape, OutputShape
<1> QED BY <1>2, <1>3, <1>4

\* A read of the Interrupt Controller (ic_read) clears a line only in the
\* controller: what remains asserted still belongs to a device that asks.
LEMMA ICReadInv ==
  ASSUME DevicesInv, ICRead,
         UNCHANGED <<inputVars, outputVars, startup, timerVars, execState>>
  PROVE  DevicesInv'
<1>1. lines' \in [Lines -> Bit] /\ interruptLine' = interruptLine /\ Asserted' \subseteq Asserted
  BY ICReadLines DEF ICRead, DevicesInv, BusTypes
<1>2. BusTypes'
  BY <1>1 DEF DevicesInv, BusTypes, inputVars, outputVars, timerVars
<1>3. NoPhantomLine'
  BY <1>1 DEF DevicesInv, inputVars, outputVars, timerVars, NoPhantomLine, Pending
<1>4. TimerShape' /\ OutputShape'
  BY DEF DevicesInv, outputVars, timerVars, TimerShape, OutputShape
<1> QED BY <1>2, <1>3, <1>4 DEF DevicesInv

\* A read of the Timer (timer_read) clears the status and its line together.
LEMMA TimerReadInv ==
  ASSUME DevicesInv, NEW offset, NEW bytes, TimerRead(offset, bytes),
         UNCHANGED <<inputVars, outputVars, startup, execState>>
  PROVE  DevicesInv'
<1>1. CASE UNCHANGED <<timerVars, icVars>>
  BY <1>1 DEF DevicesInv, BusTypes, icVars, inputVars, outputVars, timerVars,
              NoPhantomLine, Asserted, Pending, TimerShape, OutputShape
<1>2. CASE status' = 0 /\ DeassertInterrupt(TimerLine) /\ UNCHANGED <<period, counter>>
  <2>1. lines' \in [Lines -> Bit] /\ interruptLine' = interruptLine
        /\ Asserted' = Asserted \ {TimerLine}
    BY <1>2, DeassertLines, TimerAssumption DEF DevicesInv, BusTypes
  <2>2. BusTypes'
    BY <1>2, <2>1 DEF DevicesInv, BusTypes, inputVars, outputVars, Bit
  <2>3. NoPhantomLine'
    BY <1>2, <2>1 DEF DevicesInv, inputVars, NoPhantomLine, Pending
  <2>4. TimerShape' /\ OutputShape'
    BY <1>2 DEF DevicesInv, outputVars, TimerShape, OutputShape
  <2> QED BY <2>2, <2>3, <2>4 DEF DevicesInv
<1> QED BY <1>1, <1>2 DEF TimerRead

\* A write of the period (timer_write) restarts the counter below it and
\* withdraws the request of the old period.
LEMMA TimerWriteInv ==
  ASSUME DevicesInv, NEW offset, NEW bytes, NEW data \in Words,
         TimerWrite(offset, data, bytes),
         UNCHANGED <<inputVars, outputVars, startup, execState>>
  PROVE  DevicesInv'
<1>1. CASE UNCHANGED <<timerVars, icVars>>
  BY <1>1 DEF DevicesInv, BusTypes, icVars, inputVars, outputVars, timerVars,
              NoPhantomLine, Asserted, Pending, TimerShape, OutputShape
<1>2. CASE period' = data /\ counter' = 0 /\ status' = 0 /\ DeassertInterrupt(TimerLine)
  <2>1. lines' \in [Lines -> Bit] /\ interruptLine' = interruptLine
        /\ Asserted' = Asserted \ {TimerLine}
    BY <1>2, DeassertLines, TimerAssumption DEF DevicesInv, BusTypes
  <2>2. BusTypes'
    BY <1>2, <2>1, TimerAssumption DEF DevicesInv, BusTypes, inputVars, outputVars, Bit, Words
  <2>3. NoPhantomLine'
    BY <1>2, <2>1 DEF DevicesInv, inputVars, NoPhantomLine, Pending
  <2>4. TimerShape' /\ OutputShape'
    BY <1>2, TimerAssumption DEF DevicesInv, outputVars, TimerShape, OutputShape, Words
  <2> QED BY <2>2, <2>3, <2>4 DEF DevicesInv
<1> QED BY <1>1, <1>2 DEF TimerWrite

\* A program error (FAULT_OR_WARN) disturbs no device and can only fault.
LEMMA AccessErrorInv ==
  ASSUME DevicesInv, AccessError
  PROVE  DevicesInv' /\ execState' \in {execState, "FAULT"}
BY DEF AccessError, FaultOrWarn, DevicesInv, BusTypes, ExecStates, deviceVars, icVars,
       inputVars, outputVars, timerVars, NoPhantomLine, Asserted, Pending, TimerShape,
       OutputShape

\* What leaves the devices alone leaves their invariant alone.
LEMMA BusUnchanged ==
  ASSUME DevicesInv, UNCHANGED busVars
  PROVE  DevicesInv'
BY DEF busVars, DevicesInv, BusTypes, deviceVars, icVars, inputVars, outputVars, timerVars,
       NoPhantomLine, Asserted, Pending, TimerShape, OutputShape

\* A write to the Output Port (output_port_write) starts the countdown of a
\* ready port only.
LEMMA OutputWriteInv ==
  ASSUME DevicesInv, OutputWrite,
         UNCHANGED <<icVars, inputVars, startup, timerVars, execState>>
  PROVE  DevicesInv'
BY OutputAssumption
   DEF OutputWrite, DevicesInv, BusTypes, Bit, icVars, inputVars, outputVars, timerVars,
       NoPhantomLine, Asserted, Pending, TimerShape, OutputShape

\* A read of the bus, wherever it goes, keeps the devices consistent and can
\* stop the machine only with a fault.
LEMMA BusReadInv ==
  ASSUME DevicesInv, NEW a \in Addresses, NEW n \in Widths, BusRead(a, n)
  PROVE  DevicesInv' /\ execState' \in {execState, "FAULT"}
<1> DEFINE d == DeviceAt(a)
           o == a - DeviceBase[d]
<1>1. CASE UNCHANGED busVars
  BY <1>1, BusUnchanged DEF busVars
<1>2. CASE AccessError
  BY <1>2, AccessErrorInv
<1>3. CASE DeviceRead(d, o, n) /\ UNCHANGED execState
  <2>1. CASE ICRead /\ UNCHANGED <<inputVars, outputVars, startup, timerVars>>
    BY <1>3, <2>1, ICReadInv
  <2>2. CASE UNCHANGED deviceVars
    BY <1>3, <2>2, BusUnchanged DEF busVars
  <2>3. CASE InputRead /\ UNCHANGED <<outputVars, startup, timerVars>>
    BY <1>3, <2>3, InputReadInv
  <2>4. CASE TimerRead(o, n) /\ UNCHANGED <<inputVars, outputVars, startup>>
    BY <1>3, <2>4, TimerReadInv
  <2> QED BY <1>3, <2>1, <2>2, <2>3, <2>4 DEF DeviceRead
<1> QED BY <1>1, <1>2, <1>3 DEF BusRead

\* A write too, or by the Power Manager.
LEMMA BusWriteInv ==
  ASSUME DevicesInv, NEW a \in Addresses, NEW n \in Widths, NEW v \in Words,
         BusWrite(a, v, n)
  PROVE  DevicesInv' /\ execState' \in {execState, "FAULT", "HALT"}
<1> DEFINE d == DeviceAt(a)
           o == a - DeviceBase[d]
<1>1. CASE UNCHANGED busVars
  BY <1>1, BusUnchanged DEF busVars
<1>2. CASE AccessError
  BY <1>2, AccessErrorInv
<1>3. CASE DeviceWrite(d, o, v, n)
  <2>1. CASE StartupWrite /\ UNCHANGED <<icVars, inputVars, outputVars, timerVars, execState>>
    BY <2>1 DEF StartupWrite, DevicesInv, BusTypes, Bit, icVars, inputVars, outputVars,
                timerVars, NoPhantomLine, Asserted, Pending, TimerShape, OutputShape
  <2>2. CASE OutputWrite /\ UNCHANGED <<icVars, inputVars, startup, timerVars, execState>>
    BY <2>2, OutputWriteInv
  <2>3. CASE PowerManagerWrite /\ UNCHANGED deviceVars
    BY <2>3 DEF PowerManagerWrite, deviceVars, DevicesInv, BusTypes, ExecStates, icVars,
                inputVars, outputVars, timerVars, NoPhantomLine, Asserted, Pending,
                TimerShape, OutputShape
  <2>4. CASE TimerWrite(o, v, n) /\ UNCHANGED <<inputVars, outputVars, startup, execState>>
    BY <2>4, TimerWriteInv
  <2> QED BY <1>3, <2>1, <2>2, <2>3, <2>4 DEF DeviceWrite
<1> QED BY <1>1, <1>2, <1>3 DEF BusWrite

-----------------------------------------------------------------------------
(* The ticks. *)

\* A tick of the Input Port (input_port_tick) asks for the latch it fills,
\* and leaves a full latch asking.
LEMMA InputTickInv ==
  ASSUME DevicesInv, InputTick, UNCHANGED <<outputVars, startup, timerVars, execState>>
  PROVE  /\ DevicesInv'
         /\ Asserted \subseteq Asserted'
         /\ inReady' = 1 => InputLine \in Asserted' /\ interruptLine' = 1
         /\ inReady' = 0 => UNCHANGED icVars
<1> USE InputAssumption DEF DevicesInv, BusTypes
<1>1. CASE InputTickReady
  <2>1. lines' \in [Lines -> Bit] /\ interruptLine' = 1
        /\ Asserted' = Asserted \union {InputLine}
    BY <1>1, AssertLines DEF InputTickReady
  <2>2. BusTypes'
    BY <1>1, <2>1 DEF InputTickReady, inputVars, outputVars, timerVars, Bit
  <2>3. NoPhantomLine' /\ TimerShape' /\ OutputShape'
    BY <1>1, <2>1 DEF InputTickReady, inputVars, outputVars, timerVars, NoPhantomLine,
                      Pending, TimerShape, OutputShape
  <2> QED BY <1>1, <2>1, <2>2, <2>3 DEF InputTickReady, inputVars
<1>2. CASE InputTickWait
  BY <1>2 DEF InputTickWait, icVars, outputVars, timerVars, NoPhantomLine, Asserted,
              Pending, TimerShape, OutputShape
<1>3. CASE InputTickPoll /\ taken = avail /\ UNCHANGED <<inReady, inData, taken, icVars>>
  BY <1>3 DEF InputTickPoll, icVars, outputVars, timerVars, NoPhantomLine, Asserted,
              Pending, TimerShape, OutputShape
<1>4. CASE /\ InputTickPoll /\ taken < avail /\ taken' = taken + 1
           /\ inData' = Input[taken + 1] /\ inReady' = 1 /\ AssertInterrupt(InputLine)
  <2>1. lines' \in [Lines -> Bit] /\ interruptLine' = 1
        /\ Asserted' = Asserted \union {InputLine}
    BY <1>4, AssertLines
  <2>2. Input[taken + 1] \in Byte /\ taken + 1 \in 0..avail
    BY <1>4
  <2>3. BusTypes'
    BY <1>4, <2>1, <2>2 DEF InputTickPoll, outputVars, timerVars, Bit
  <2>4. NoPhantomLine' /\ TimerShape' /\ OutputShape'
    BY <1>4, <2>1 DEF InputTickPoll, outputVars, timerVars, NoPhantomLine,
                      Pending, TimerShape, OutputShape
  <2> QED BY <1>4, <2>1, <2>3, <2>4
<1> QED BY <1>1, <1>2, <1>3, <1>4 DEF InputTick, InputTickPoll

\* A tick of the Output Port (output_port_tick) makes it ready exactly when
\* the countdown ends.
LEMMA OutputTickInv ==
  ASSUME DevicesInv, OutputTick,
         UNCHANGED <<icVars, inputVars, startup, timerVars, execState>>
  PROVE  DevicesInv'
<1>1. CASE outReady = 1 /\ UNCHANGED outputVars
  BY <1>1, BusUnchanged DEF busVars, deviceVars
<1>2. CASE outReady = 0
  <2>1. outDelay \in 1..255 /\ outDelay \in 1..OutputPortDelay
    BY <1>2, OutputAssumption DEF DevicesInv, BusTypes, OutputShape
  <2>2. outDelay' = outDelay - 1 /\ outReady' = IF outDelay = 1 THEN 1 ELSE 0
    BY <1>2, <2>1, DecrementedBusy DEF OutputTick
  <2>3. outReady' \in Bit /\ outDelay' \in 0..OutputPortDelay /\ OutputShape'
    BY <2>1, <2>2, OutputAssumption DEF Bit, OutputShape
  <2> QED
    BY <2>3 DEF DevicesInv, BusTypes, icVars, inputVars, timerVars, NoPhantomLine,
                Asserted, Pending, TimerShape
<1> QED BY <1>1, <1>2 DEF OutputTick

\* A tick of the Timer (timer_tick) keeps the counter below the period and
\* leaves an expired timer asking.
LEMMA TimerTickInv ==
  ASSUME DevicesInv, TimerTick, UNCHANGED <<inputVars, outputVars, startup, execState>>
  PROVE  /\ DevicesInv'
         /\ Asserted \subseteq Asserted'
         /\ status' = 1 => TimerLine \in Asserted' /\ interruptLine' = 1
         /\ status' = 0 => UNCHANGED icVars
<1> USE TimerAssumption DEF DevicesInv, BusTypes
<1>1. CASE period = 0 /\ UNCHANGED <<timerVars, icVars>>
  <2>1. DevicesInv'
    BY <1>1, BusUnchanged DEF busVars, deviceVars
  <2> QED BY <1>1, <2>1 DEF timerVars, icVars, TimerShape, Asserted
<1>2. CASE period # 0 /\ UNCHANGED period
  <2>1. Incremented(counter) = counter + 1
    <3>1. counter + 1 \in 0..(WordSize - 1)
      BY <1>2 DEF TimerShape, Words
    <3> QED BY <3>1, RemainderSmall DEF Incremented
  <2>2. /\ counter' \in Words /\ counter' < period /\ status' \in Bit
    BY <1>2, <2>1 DEF TimerTick, TimerShape, Words, Bit
  <2>3. TimerShape'
    BY <1>2, <2>2 DEF TimerShape
  <2>4. CASE status' = 1
    <3>1. lines' \in [Lines -> Bit] /\ interruptLine' = 1
          /\ Asserted' = Asserted \union {TimerLine}
      BY <1>2, <2>4, AssertLines DEF TimerTick
    <3>2. BusTypes'
      BY <1>2, <2>2, <3>1 DEF inputVars, outputVars, Bit
    <3>3. NoPhantomLine' /\ OutputShape'
      BY <2>4, <3>1 DEF inputVars, outputVars, NoPhantomLine, Pending, OutputShape
    <3> QED BY <2>3, <2>4, <3>1, <3>2, <3>3
  <2>5. CASE status' = 0
    <3>1. UNCHANGED icVars /\ status = 0
      BY <1>2, <2>5 DEF TimerTick, Bit
    <3>2. BusTypes'
      BY <1>2, <2>2, <3>1 DEF icVars, inputVars, outputVars
    <3>3. NoPhantomLine' /\ OutputShape'
      BY <2>5, <3>1 DEF icVars, inputVars, outputVars, NoPhantomLine, Asserted, Pending,
                        OutputShape
    <3> QED BY <2>3, <2>5, <3>1, <3>2, <3>3 DEF icVars, Asserted
  <2> QED BY <2>2, <2>4, <2>5 DEF Bit
<1> QED BY <1>1, <1>2 DEF TimerTick

-----------------------------------------------------------------------------
(* The whole step. *)

\* The part of IInv that depends on the phase.
PhaseInv ==
  /\ LineIsReset
  /\ TickProgress
  /\ SampledUntilFetch
  /\ NoUnservicedFetch
  /\ StoppedRunsNothing
  /\ ExitIsStopped

\* The invariant regrouped: what the devices alone say, the types of the core,
\* and what depends on the stage of the cycle.
LEMMA IInvParts == IInv <=> DevicesInv /\ CpuTypes /\ PhaseInv
BY TypeParts DEF IInv, DevicesInv, PhaseInv

\* The same regrouping after a step.
LEMMA IInvPartsNext ==
  ASSUME DevicesInv', CpuTypes', PhaseInv'
  PROVE  IInv'
BY DEF IInv, TypeOK, DevicesInv, BusTypes, CpuTypes, PhaseInv

\* The state dlx_state_init and the device constructors build satisfies it.
LEMMA InitInv == ASSUME Init PROVE IInv
<1> USE DEF Init, ICInit, InputInit, OutputInit, StartupInit, TimerInit, PowerInit
<1>1. BusTypes
  BY InputAssumption, OutputAssumption, TimerAssumption
     DEF BusTypes, Bit, Byte, Words, ExecStates
<1>2. Asserted = {}
  BY DEF Asserted
<1>3. DevicesInv
  BY <1>1, <1>2 DEF DevicesInv, NoPhantomLine, TimerShape, OutputShape
<1>4. CpuTypes
  BY MapAssumption DEF CpuTypes, Phases, Devices, IC, Bit, Addresses
<1>5. PhaseInv
  BY DEF PhaseInv, LineIsReset, TickProgress, SampledUntilFetch, NoUnservicedFetch,
         StoppedRunsNothing, ExitIsStopped
<1> QED BY <1>3, <1>4, <1>5, IInvParts

\* The driver loop of main keeps it.
LEMMA DriverInv == ASSUME IInv, Driver PROVE IInv'
<1> USE DEF CpuTypes, Phases, Devices, IC, cpuVars
<1>0. DevicesInv /\ CpuTypes /\ PhaseInv
  BY IInvParts
<1>1. DevicesInv'
  <2>1. CASE UNCHANGED busVars
    BY <1>0, <2>1, BusUnchanged
  <2>2. CASE UNCHANGED deviceVars /\ execState' \in {"SIGNAL", "TIMEOUT"}
    BY <1>0, <2>2 DEF deviceVars, DevicesInv, BusTypes, ExecStates, icVars, inputVars,
                  outputVars, timerVars, NoPhantomLine, Asserted, Pending, TimerShape,
                  OutputShape
  <2> QED BY <2>1, <2>2 DEF Driver, StartCycle, Signal, CycleLimit, NextCycle, LeaveLoop
<1>2. CpuTypes'
  BY <1>0 DEF Driver, StartCycle, Signal, CycleLimit, NextCycle, LeaveLoop
<1>3. PhaseInv'
  <2> USE <1>0 DEF PhaseInv, LineIsReset, TickProgress, SampledUntilFetch,
                   NoUnservicedFetch, StoppedRunsNothing, ExitIsStopped
  <2>1. CASE StartCycle
    BY <2>1 DEF StartCycle, busVars, deviceVars, icVars, InPort, Asserted
  <2>2. CASE Signal
    BY <2>2 DEF Signal
  <2>3. CASE CycleLimit
    BY <2>3 DEF CycleLimit
  <2>4. CASE NextCycle
    BY <2>4 DEF NextCycle, busVars, deviceVars, icVars
  <2>5. CASE LeaveLoop
    BY <2>5 DEF LeaveLoop, busVars
  <2> QED BY <2>1, <2>2, <2>3, <2>4, <2>5 DEF Driver
<1> QED BY <1>1, <1>2, <1>3, IInvPartsNext

\* Stage 1 of dlx_seq_step keeps it: after each tick the controller and the
\* CPU line know of the devices ticked so far.
LEMMA TickInv == ASSUME IInv, Tick PROVE IInv'
<1> USE DEF IC, Startup, InPort, OutPort, Power, TimerDev, Devices
<1>0. DevicesInv /\ CpuTypes /\ PhaseInv
  BY IInvParts
<1>1. phase = "tick" /\ execState = "RUNNING" /\ UNCHANGED <<startup, execState, cpuVars>>
  BY <1>0 DEF Tick, TickIC, TickInput, TickOutput, TickTimer, TickNull, TickOf, PhaseInv,
              StoppedRunsNothing
<1>2. CpuTypes'
  BY <1>0, <1>1 DEF Tick, TickIC, TickInput, TickOutput, TickTimer, TickNull, TickOf,
                    CpuTypes, Phases, cpuVars
<1>3. \/ turn # TimerDev /\ phase' = "tick" /\ turn' = turn + 1
      \/ turn = TimerDev /\ phase' = "irq"
  BY <1>1 DEF Tick, TickIC, TickInput, TickOutput, TickTimer, TickNull, TickOf
<1>4. InputLine \in Lines /\ TimerLine \in Lines
  BY InputAssumption, TimerAssumption
\* All the devices but the Timer: TickProgress is kept.
<1>5. ASSUME phase' = "tick", DevicesInv', TickProgress'
      PROVE  IInv'
  <2>1. PhaseInv'
    BY <1>1, <1>5 DEF PhaseInv, LineIsReset, SampledUntilFetch, NoUnservicedFetch,
                      StoppedRunsNothing, ExitIsStopped
  <2> QED BY <1>2, <1>5, <2>1, IInvPartsNext
<1>6. CASE TickIC
  <2>1. UNCHANGED lines /\ turn = IC /\ phase' = "tick" /\ turn' = 2
    BY <1>6, <1>3 DEF TickIC, TickOf, ICTick
  <2>2. interruptLine' \in Bit
        /\ (Asserted # {} => interruptLine' = 1)
        /\ (interruptLine' = 1 => Asserted # {})
    BY <1>0, <1>1, <1>6 DEF TickIC, ICTick, Asserted, Bit, DevicesInv, BusTypes, PhaseInv,
                            TickProgress
  <2>3. DevicesInv'
    BY <1>0, <1>1, <1>6, <2>1, <2>2
       DEF TickIC, DevicesInv, BusTypes, inputVars, outputVars, timerVars, NoPhantomLine,
           Asserted, Pending, TimerShape, OutputShape
  <2>4. TickProgress'
    BY <2>1, <2>2 DEF TickProgress, Asserted
  <2> QED BY <1>5, <2>1, <2>3, <2>4
<1>7. CASE TickInput
  <2>1. turn = InPort /\ phase' = "tick" /\ turn' = 4
    BY <1>7, <1>3 DEF TickInput, TickOf
  <2>2. /\ DevicesInv'
        /\ Asserted \subseteq Asserted'
        /\ inReady' = 1 => InputLine \in Asserted' /\ interruptLine' = 1
        /\ inReady' = 0 => UNCHANGED icVars
    BY <1>0, <1>1, <1>7, InputTickInv DEF TickInput
  <2>3. inReady' = 0 \/ inReady' = 1
    BY <2>2 DEF DevicesInv, BusTypes, Bit
  <2>4. TickProgress'
    BY <1>0, <1>1, <2>1, <2>2, <2>3 DEF PhaseInv, TickProgress, icVars, Asserted
  <2> QED BY <1>5, <2>1, <2>2, <2>4
<1>8. CASE TickOutput
  <2>1. turn = OutPort /\ phase' = "tick" /\ turn' = 5 /\ UNCHANGED <<icVars, inputVars>>
    BY <1>8, <1>3 DEF TickOutput, TickOf
  <2>2. DevicesInv'
    BY <1>0, <1>1, <1>8, OutputTickInv DEF TickOutput
  <2>3. TickProgress'
    BY <1>0, <1>1, <2>1 DEF PhaseInv, TickProgress, icVars, inputVars, Asserted
  <2> QED BY <1>5, <2>1, <2>2, <2>3
<1>9. CASE TickNull
  <2>1. /\ turn \in {Startup, Power} /\ phase' = "tick" /\ turn' = turn + 1
        /\ UNCHANGED <<icVars, inputVars>>
    BY <1>9, <1>3 DEF TickNull, TickOf
  <2>2. DevicesInv'
    BY <1>0, <1>1, <1>9, BusUnchanged DEF TickNull, busVars, deviceVars
  <2>3. TickProgress'
    <3>1. Asserted' = Asserted /\ interruptLine' = interruptLine /\ inReady' = inReady
      BY <2>1 DEF icVars, inputVars, Asserted
    <3>2. (turn' > InPort => turn > InPort) /\ (turn' > IC => turn > IC)
      BY <2>1
    <3> QED BY <1>0, <1>1, <3>1, <3>2 DEF PhaseInv, TickProgress
  <2> QED BY <1>5, <2>1, <2>2, <2>3
<1>10. CASE TickTimer
  <2>1. turn = TimerDev /\ phase' = "irq" /\ UNCHANGED <<inputVars, outputVars>>
    BY <1>10, <1>3 DEF TickTimer, TickOf
  <2>2. /\ DevicesInv'
        /\ Asserted \subseteq Asserted'
        /\ status' = 1 => TimerLine \in Asserted' /\ interruptLine' = 1
        /\ status' = 0 => UNCHANGED icVars
    BY <1>0, <1>1, <1>10, TimerTickInv DEF TickTimer
  <2>3. /\ interruptLine = 1 => Asserted # {}
        /\ Asserted # {} => interruptLine = 1
        /\ inReady = 1 => InputLine \in Asserted
    BY <1>0, <1>1, <2>1 DEF PhaseInv, TickProgress
  <2>4. inReady' = inReady /\ (status' = 0 \/ status' = 1)
    BY <2>1, <2>2 DEF DevicesInv, BusTypes, Bit, inputVars
  <2>5. Pending' \subseteq Asserted' /\ Asserted' \subseteq Pending'
    BY <2>2, <2>3, <2>4 DEF Pending, DevicesInv, NoPhantomLine
  <2>6. (interruptLine' = 1) <=> (Asserted' # {})
    BY <2>2, <2>3, <2>4 DEF icVars, Asserted
  <2>7. PhaseInv'
    BY <1>1, <2>1, <2>5, <2>6 DEF PhaseInv, LineIsReset, TickProgress, SampledUntilFetch,
       NoUnservicedFetch, StoppedRunsNothing, ExitIsStopped
  <2> QED BY <1>2, <2>2, <2>7, IInvPartsNext
<1> QED BY <1>6, <1>7, <1>8, <1>9, <1>10 DEF Tick

\* Stage 2 keeps it: a pending request is taken when interrupts are enabled,
\* so none is left for the fetch.
LEMMA SampleInv == ASSUME IInv, TakeInterrupt \/ NoInterrupt PROVE IInv'
<1>0. DevicesInv /\ CpuTypes /\ PhaseInv
  BY IInvParts
<1>1. UNCHANGED busVars /\ phase = "irq" /\ phase' = "fetch"
  BY DEF TakeInterrupt, NoInterrupt
<1>2. DevicesInv'
  BY <1>0, <1>1, BusUnchanged
<1>3. CpuTypes'
  BY <1>0, MapAssumption DEF TakeInterrupt, NoInterrupt, CpuTypes, Phases, Bit, Addresses,
                             cpuVars
<1>4. /\ Asserted' = Asserted /\ Pending' = Pending /\ UNCHANGED <<interruptLine, execState>>
  BY <1>1 DEF busVars, deviceVars, icVars, inputVars, timerVars, Asserted, Pending
<1>5. ien' = 1 => interruptLine # 1
  BY <1>0 DEF TakeInterrupt, NoInterrupt, Interrupted, cpuVars
<1>6. PhaseInv'
  BY <1>0, <1>1, <1>4, <1>5
     DEF PhaseInv, LineIsReset, TickProgress, SampledUntilFetch, NoUnservicedFetch,
         StoppedRunsNothing, ExitIsStopped
<1> QED BY <1>2, <1>3, <1>6, IInvPartsNext

\* The fetch keeps it, even from a device whose read has side effects.
LEMMA FetchInv == ASSUME IInv, Fetch PROVE IInv'
<1>0. DevicesInv /\ CpuTypes /\ PhaseInv
  BY IInvParts
<1>1. DevicesInv'
  BY <1>0, BusReadInv DEF Fetch, CpuTypes, Widths
<1>2. CpuTypes'
  <2>1. (pc + 4) % AddressSpace \in Addresses
    BY <1>0, MapAssumption, RemainderRange DEF CpuTypes, Addresses
  <2> QED BY <1>0, <2>1 DEF Fetch, CpuTypes, Phases
<1>3. PhaseInv'
  BY DEF Fetch, PhaseInv, LineIsReset, TickProgress, SampledUntilFetch, NoUnservicedFetch,
         StoppedRunsNothing, ExitIsStopped
<1> QED BY <1>1, <1>2, <1>3, IInvPartsNext

\* Every instruction keeps it.
LEMMA ExecuteInv == ASSUME IInv, Execute PROVE IInv'
<1>0. DevicesInv /\ CpuTypes
  BY IInvParts
<1>1. ASSUME phase' = "reset", UNCHANGED turn, DevicesInv',
             ien' \in Bit, iar' \in Addresses, cr' \in {0, SoftwareCause}, pc' \in Addresses
      PROVE  IInv'
  <2>1. CpuTypes'
    BY <1>0, <1>1 DEF CpuTypes, Phases
  <2>2. PhaseInv'
    BY <1>1 DEF PhaseInv, LineIsReset, TickProgress, SampledUntilFetch, NoUnservicedFetch,
                StoppedRunsNothing, ExitIsStopped
  <2> QED BY <1>1, <2>1, <2>2, IInvPartsNext
<1> USE <1>0 DEF CpuTypes, cpuVars
<1>2. CASE Compute
  BY <1>1, <1>2, BusUnchanged DEF Compute, FallsThrough, Executing
<1>3. CASE Jump
  BY <1>1, <1>3, BusUnchanged, ProgramAssumption DEF Jump, Executing
<1>4. CASE MoveToSpecial
  BY <1>1, <1>4, BusUnchanged, ProgramAssumption DEF MoveToSpecial, Executing
<1>5. CASE SoftwareInterrupt
  BY <1>1, <1>5, BusUnchanged, MapAssumption DEF SoftwareInterrupt, Executing, Bit, Addresses
<1>6. CASE NestedInterrupt \/ DebugStop
  <2>1. UNCHANGED deviceVars /\ execState' \in ExecStates
    BY <1>6 DEF NestedInterrupt, DebugStop, ExecStates
  <2>2. DevicesInv'
    BY <2>1 DEF deviceVars, DevicesInv, BusTypes, icVars, inputVars, outputVars, timerVars,
                NoPhantomLine, Asserted, Pending, TimerShape, OutputShape
  <2> QED BY <1>1, <1>6, <2>2 DEF NestedInterrupt, DebugStop, Executing
<1>7. CASE Rfe
  BY <1>1, <1>7, BusUnchanged DEF Rfe, Executing, Bit
<1>8. CASE Unimplemented
  BY <1>1, <1>8, AccessErrorInv DEF Unimplemented, FallsThrough, Executing
<1>9. CASE ExecuteUnknown
  BY <1>1, <1>9, AccessErrorInv DEF ExecuteUnknown
<1>10. ASSUME NEW a \in DataAddresses, NEW n \in Widths, Load(a, n)
       PROVE  IInv'
  BY <1>1, <1>10, BusReadInv, ProgramAssumption DEF Load, FallsThrough, Executing
<1>11. ASSUME NEW a \in DataAddresses, NEW n \in Widths, NEW v \in StoredWords, Store(a, n, v)
       PROVE  IInv'
  BY <1>1, <1>11, BusWriteInv, ProgramAssumption DEF Store, FallsThrough, Executing
<1> QED BY <1>2, <1>3, <1>4, <1>5, <1>6, <1>7, <1>8, <1>9, <1>10, <1>11 DEF Execute

\* The reset of the line at the end of dlx_seq_step keeps it.
LEMMA ResetLineInv == ASSUME IInv, ResetLine PROVE IInv'
<1>0. DevicesInv /\ CpuTypes
  BY IInvParts
<1>1. DevicesInv'
  BY <1>0 DEF ResetLine, DevicesInv, BusTypes, Bit, inputVars, outputVars, timerVars,
              NoPhantomLine, Asserted, Pending, TimerShape, OutputShape
<1>2. CpuTypes'
  BY <1>0 DEF ResetLine, CpuTypes, Phases, cpuVars
<1>3. PhaseInv'
  BY DEF ResetLine, PhaseInv, LineIsReset, TickProgress, SampledUntilFetch,
         NoUnservicedFetch, StoppedRunsNothing, ExitIsStopped
<1> QED BY <1>1, <1>2, <1>3, IInvPartsNext

\* A byte typed at the terminal changes nothing the machine has read.
LEMMA UserTypesInv == ASSUME IInv, UserTypes PROVE IInv'
<1>0. DevicesInv /\ CpuTypes /\ PhaseInv
  BY IInvParts
<1>1. UNCHANGED <<icVars, outputVars, startup, timerVars, execState, phase, turn, cpuVars,
                  inReady, inData, inTickCount, taken>>
  BY DEF UserTypes, Type
<1>2. avail' \in 0..Len(Input) /\ taken \in 0..avail'
  BY <1>0, InputAssumption DEF UserTypes, Type, DevicesInv, BusTypes
<1>3. Asserted' = Asserted /\ Pending' = Pending
  BY <1>1 DEF icVars, timerVars, Asserted, Pending
<1>4. DevicesInv' /\ CpuTypes'
  BY <1>0, <1>1, <1>2, <1>3 DEF DevicesInv, BusTypes, CpuTypes, icVars, outputVars,
     timerVars, cpuVars, NoPhantomLine, TimerShape, OutputShape
<1>5. PhaseInv'
  BY <1>0, <1>1, <1>3 DEF PhaseInv, LineIsReset, TickProgress, SampledUntilFetch,
     NoUnservicedFetch, StoppedRunsNothing, ExitIsStopped, icVars, cpuVars
<1> QED BY <1>4, <1>5, IInvPartsNext

\* A step that changes nothing keeps it.
LEMMA StutterInv == ASSUME IInv, UNCHANGED vars PROVE IInv'
<1>0. DevicesInv /\ CpuTypes /\ PhaseInv
  BY IInvParts
<1>1. DevicesInv' /\ CpuTypes'
  BY <1>0, BusUnchanged DEF vars, cpuVars, CpuTypes
<1>2. Asserted' = Asserted /\ Pending' = Pending
  BY DEF vars, busVars, deviceVars, icVars, inputVars, timerVars, Asserted, Pending
<1>3. PhaseInv'
  BY <1>0, <1>2 DEF vars, cpuVars, busVars, deviceVars, icVars, inputVars, PhaseInv,
     LineIsReset, TickProgress, SampledUntilFetch, NoUnservicedFetch, StoppedRunsNothing,
     ExitIsStopped
<1> QED BY <1>1, <1>3, IInvPartsNext

-----------------------------------------------------------------------------
(* The theorems. *)

\* Every step of the machine keeps IInv.
LEMMA StepInv == ASSUME IInv, [Next]_vars PROVE IInv'
<1>1. CASE Driver
  BY <1>1, DriverInv
<1>2. CASE Tick
  BY <1>2, TickInv
<1>3. CASE TakeInterrupt \/ NoInterrupt
  BY <1>3, SampleInv
<1>4. CASE Fetch
  BY <1>4, FetchInv
<1>5. CASE Execute
  BY <1>5, ExecuteInv
<1>6. CASE ResetLine
  BY <1>6, ResetLineInv
<1>7. CASE UserTypes
  BY <1>7, UserTypesInv
<1>8. CASE UNCHANGED vars
  BY <1>8, StutterInv
<1> QED
  BY <1>1, <1>2, <1>3, <1>4, <1>5, <1>6, <1>7, <1>8 DEF Next, Thread, Exited

\* It holds initially and every step keeps it.
THEOREM Invariance == Spec => []IInv
<1>1. Init => IInv
  BY InitInv
<1>2. IInv /\ [Next]_vars => IInv'
  BY StepInv
<1> QED BY <1>1, <1>2, PTL DEF Spec

\* Every variable keeps its type: the uint8_t countdown of the Output Port never
\* wraps, the counter of the Timer stays a word and a byte read from the host is
\* one that was typed.
THEOREM TypeCorrect == Spec => []TypeOK
<1>1. IInv => TypeOK
  BY DEF IInv
<1> QED BY <1>1, Invariance, PTL

\* The controller never latches a line whose device is not asking.
THEOREM NoPhantom == Spec => []NoPhantomLine
<1>1. IInv => NoPhantomLine
  BY DEF IInv
<1> QED BY <1>1, Invariance, PTL

\* When the CPU samples its line, the controller and the line show exactly the
\* requests of the devices, for every program and every memory map.
THEOREM SampledExactly == Spec => []SampledLineIsExact
<1>1. IInv => SampledLineIsExact
  BY DEF IInv, SampledUntilFetch, SampledLineIsExact
<1> QED BY <1>1, Invariance, PTL

\* No instruction is fetched with interrupts enabled and a request pending.
THEOREM RequestsAreServed == Spec => []NoUnservicedFetch
<1>1. IInv => NoUnservicedFetch
  BY DEF IInv
<1> QED BY <1>1, Invariance, PTL

\* A stopped machine begins no stage of another instruction.
THEOREM StoppedIsIdle == Spec => []StoppedRunsNothing
<1>1. IInv => StoppedRunsNothing
  BY DEF IInv
<1> QED BY <1>1, Invariance, PTL

\* The outcome of a stopped machine never changes: neither the cycle limit, nor
\* a signal, nor the rest of the instruction overwrites the first reason to stop.
THEOREM StopStays == Spec => StopIsFinal
<1>1. IInv /\ [Next]_vars => [execState # "RUNNING" => execState' = execState]_vars
  <2> SUFFICES ASSUME IInv, Next, execState # "RUNNING" PROVE execState' = execState
    BY DEF vars
  <2>1. phase \in {"reset", "check", "loop", "exit"}
    BY DEF IInv, StoppedRunsNothing
  <2>2. CASE Driver
    BY <2>2 DEF Driver, StartCycle, Signal, CycleLimit, NextCycle, LeaveLoop, busVars
  <2>3. CASE ResetLine \/ UserTypes \/ Exited
    BY <2>3 DEF ResetLine, UserTypes, Exited, vars, busVars
  <2>4. ~Tick /\ ~TakeInterrupt /\ ~NoInterrupt /\ ~Fetch /\ ~Execute
    BY <2>1 DEF Tick, TickIC, TickInput, TickOutput, TickTimer, TickNull, TickOf,
       TakeInterrupt, NoInterrupt, Fetch, Execute, Compute, Jump, MoveToSpecial,
       SoftwareInterrupt, NestedInterrupt, Rfe, DebugStop, Unimplemented, ExecuteUnknown,
       Load, Store, FallsThrough, Executing
  <2> QED BY <2>2, <2>3, <2>4 DEF Next, Thread
<1> QED BY <1>1, Invariance, PTL DEF Spec, StopIsFinal

-----------------------------------------------------------------------------
(* The refinement of LevelInterrupts. *)

\* What the abstract variables stand for.
Enabled == ien = 1
Busy    == phase \in {"fetch", "exec", "unknown", "reset"}

\* A step that changes neither the requests, nor SR[IEN], nor the side of the
\* cycle the thread is on, is invisible.
LEMMA Invisible ==
  ASSUME Pending' = Pending, Enabled' = Enabled, Busy' = Busy
  PROVE  UNCHANGED Level!levelVars
BY DEF Level!levelVars, Enabled, Busy

\* A step that leaves the latch and the status alone changes no request.
LEMMA PendingStays ==
  ASSUME inReady' = inReady, status' = status
  PROVE  Pending' = Pending
BY DEF Pending

\* An access clears at most one request.
Served == Pending' = Pending \/ \E s \in Pending : Pending' = Pending \ {s}

\* A read of the Input Port serves its request and no other.
LEMMA InputReadServes ==
  ASSUME DevicesInv, InputRead, UNCHANGED timerVars
  PROVE  Served
<1>1. Pending' = Pending \ {InputLine}
  BY InputAssumption, TimerAssumption, WiringAssumption DEF InputRead, timerVars, Pending
<1>2. CASE InputLine \in Pending
  BY <1>1, <1>2 DEF Served
<1>3. CASE InputLine \notin Pending
  BY <1>1, <1>3 DEF Served
<1> QED BY <1>2, <1>3

\* An acknowledgement or a new period serves the request of the Timer and no
\* other.
LEMMA TimerServes ==
  ASSUME DevicesInv, UNCHANGED inputVars, status' = 0 \/ status' = status
  PROVE  Served
<1>1. CASE status' = status
  BY <1>1, PendingStays DEF Served, inputVars
<1>2. CASE status' = 0
  <2>1. Pending' = Pending \ {TimerLine}
    BY <1>2, InputAssumption, TimerAssumption, WiringAssumption DEF inputVars, Pending
  <2>2. CASE TimerLine \in Pending
    BY <2>1, <2>2 DEF Served
  <2>3. CASE TimerLine \notin Pending
    BY <2>1, <2>3 DEF Served
  <2> QED BY <2>2, <2>3
<1> QED BY <1>1, <1>2

\* Through the bus, a read serves at most one request.
LEMMA BusReadServes ==
  ASSUME DevicesInv, NEW a \in Addresses, NEW n \in Widths, BusRead(a, n)
  PROVE  Served /\ (execState' # execState => Pending' = Pending)
<1>1. CASE UNCHANGED <<inputVars, timerVars>>
  BY <1>1, PendingStays DEF Served, inputVars, timerVars
<1>2. CASE InputRead /\ UNCHANGED <<timerVars, execState>>
  BY <1>2, InputReadServes
<1>3. ASSUME NEW o, TimerRead(o, n), UNCHANGED <<inputVars, execState>>
      PROVE  Served /\ UNCHANGED execState
  BY <1>3, TimerServes DEF TimerRead, timerVars
<1> QED BY <1>1, <1>2, <1>3 DEF BusRead, DeviceRead, AccessError, busVars, deviceVars

\* Through the bus, a write serves at most one request.
LEMMA BusWriteServes ==
  ASSUME DevicesInv, NEW a \in Addresses, NEW n \in Widths, NEW v \in Words,
         BusWrite(a, v, n)
  PROVE  Served
<1>1. CASE UNCHANGED <<inputVars, timerVars>>
  BY <1>1, PendingStays DEF Served, inputVars, timerVars
<1>2. ASSUME NEW o, TimerWrite(o, v, n), UNCHANGED inputVars
      PROVE  Served
  BY <1>2, TimerServes DEF TimerWrite, timerVars
<1> QED BY <1>1, <1>2 DEF BusWrite, DeviceWrite, AccessError, busVars, deviceVars

-----------------------------------------------------------------------------
\* The initial state maps to an initial state: no request, interrupts disabled.
LEMMA InitMaps == ASSUME Init PROVE Level!LevelInit
<1>1. Pending = {} /\ ~Enabled /\ ~Busy
  BY DEF Init, InputInit, TimerInit, Pending, Enabled, Busy
<1> QED BY <1>1 DEF Level!LevelInit, Enabled, Busy

\* A tick raises at most the request of the device ticked.
LEMMA TickMaps == ASSUME IInv, Tick PROVE [Level!LevelNext]_(Level!levelVars)
<1>0. DevicesInv
  BY IInvParts
<1>1. ~Busy /\ ~Busy' /\ Enabled' = Enabled
  BY DEF Tick, TickIC, TickInput, TickOutput, TickTimer, TickNull, TickOf, cpuVars, Busy,
         Enabled
<1>2. InputLine \in Lines /\ TimerLine \in Lines /\ InputLine # TimerLine
  BY InputAssumption, TimerAssumption, WiringAssumption
<1>3. Pending' = Pending \/ \E s \in {InputLine, TimerLine} \ Pending : Pending' = Pending \union {s}
  <2>1. CASE UNCHANGED <<inputVars, timerVars>>
    BY <2>1, PendingStays DEF inputVars, timerVars
  <2>2. CASE InputTick /\ UNCHANGED timerVars
    <3>1. inReady' = inReady \/ (inReady = 0 /\ inReady' = 1)
      BY <2>2 DEF InputTick, InputTickReady, InputTickWait, InputTickPoll, inputVars
    <3> QED BY <1>2, <2>2, <3>1 DEF Pending, timerVars
  <2>3. CASE TimerTick /\ UNCHANGED inputVars
    <3>1. status' = status \/ (status = 0 /\ status' = 1)
      BY <1>0, <2>3 DEF TimerTick, timerVars, DevicesInv, BusTypes, Bit
    <3> QED BY <1>2, <2>3, <3>1 DEF Pending, inputVars
  <2> QED BY <2>1, <2>2, <2>3 DEF Tick, TickIC, TickInput, TickOutput, TickTimer, TickNull
<1>4. CASE Pending' = Pending
  <2>1. Busy' = Busy
    BY <1>1 DEF Busy
  <2> QED BY <1>1, <1>4, <2>1, Invisible
<1>5. CASE \E s \in {InputLine, TimerLine} \ Pending : Pending' = Pending \union {s}
  BY <1>1, <1>5 DEF Level!LevelNext, Level!Raise, Busy, Enabled
<1> QED BY <1>3, <1>4, <1>5

\* Sampling the line is the trap exactly when an enabled request is raised:
\* here the invariant is needed, that the line says what the devices ask.
LEMMA SampleMaps == ASSUME IInv, TakeInterrupt \/ NoInterrupt PROVE Level!LevelNext
<1>1. Pending' = Pending /\ ~Busy /\ Busy'
  BY PendingStays DEF TakeInterrupt, NoInterrupt, busVars, deviceVars, inputVars, timerVars,
     Busy
<1>2. (interruptLine = 1) <=> (Pending # {})
  BY DEF IInv, SampledUntilFetch, TakeInterrupt, NoInterrupt
<1>3. CASE TakeInterrupt
  <2>1. Enabled /\ ~Enabled' /\ Pending # {}
    BY <1>2, <1>3 DEF TakeInterrupt, Interrupted, Enabled
  <2> QED BY <1>1, <2>1 DEF Level!LevelNext, Level!Trap, Busy, Enabled
<1>4. CASE NoInterrupt
  <2>1. Enabled' = Enabled /\ (~Enabled \/ Pending = {})
    BY <1>2, <1>4 DEF NoInterrupt, Interrupted, Enabled, cpuVars
  <2> QED BY <1>1, <2>1 DEF Level!LevelNext, Level!Begin, Busy, Enabled
<1> QED BY <1>3, <1>4

\* What serves at most one request and goes on is Serve or a stutter.
LEMMA ServeMaps ==
  ASSUME Served, Busy, Busy', Enabled' = Enabled
  PROVE  [Level!LevelNext]_(Level!levelVars)
<1>1. CASE Pending' = Pending
  BY <1>1, Invisible
<1>2. CASE \E s \in Pending : Pending' = Pending \ {s}
  BY <1>2 DEF Level!LevelNext, Level!Serve, Busy, Enabled
<1> QED BY <1>1, <1>2 DEF Served

\* What ends the instruction and serves nothing is Finish.
LEMMA FinishMaps ==
  ASSUME Pending' = Pending, Busy, ~Busy', Enabled' = Enabled
  PROVE  Level!LevelNext
BY DEF Level!LevelNext, Level!Finish, Busy, Enabled

\* What only changes SR[IEN] is SetEnabled.
LEMMA SetEnabledMaps ==
  ASSUME Pending' = Pending, Busy, Busy'
  PROVE  Level!LevelNext
BY DEF Level!LevelNext, Level!SetEnabled, Busy, Enabled

\* A fetch serves at most one request, or fails and ends the instruction.
LEMMA FetchMaps == ASSUME IInv, Fetch PROVE [Level!LevelNext]_(Level!levelVars)
<1>0. DevicesInv /\ CpuTypes /\ execState = "RUNNING"
  BY IInvParts DEF PhaseInv, StoppedRunsNothing, Fetch
<1>1. Served /\ (execState' # execState => Pending' = Pending)
  BY <1>0, BusReadServes DEF Fetch, CpuTypes, Widths
<1>2. Busy /\ Enabled' = Enabled
  BY DEF Fetch, Busy, Enabled
<1>3. CASE Busy'
  BY <1>1, <1>2, <1>3, ServeMaps
<1>4. CASE ~Busy'
  <2>1. execState' # execState
    BY <1>0, <1>4 DEF Fetch, Busy
  <2> QED BY <1>1, <1>2, <1>4, <2>1, FinishMaps
<1> QED BY <1>3, <1>4

\* An instruction serves at most one request or changes SR[IEN], never both.
LEMMA ExecuteMaps == ASSUME IInv, Execute PROVE [Level!LevelNext]_(Level!levelVars)
<1>0. DevicesInv /\ CpuTypes
  BY IInvParts
<1>1. Busy /\ Busy'
  BY DEF Execute, Compute, Jump, MoveToSpecial, SoftwareInterrupt, NestedInterrupt, Rfe,
     DebugStop, Unimplemented, ExecuteUnknown, Load, Store, FallsThrough, Executing, Busy
<1>2. CASE Compute \/ Jump \/ MoveToSpecial \/ SoftwareInterrupt \/ NestedInterrupt
           \/ Rfe \/ DebugStop \/ Unimplemented \/ ExecuteUnknown
  <2>1. Pending' = Pending
    BY <1>2, PendingStays DEF Compute, Jump, MoveToSpecial, SoftwareInterrupt,
       NestedInterrupt, Rfe, DebugStop, Unimplemented, ExecuteUnknown, FallsThrough,
       AccessError, busVars, deviceVars, inputVars, timerVars
  <2> QED BY <1>1, <2>1, SetEnabledMaps
<1>3. ASSUME NEW a \in DataAddresses, NEW n \in Widths, Load(a, n)
      PROVE  [Level!LevelNext]_(Level!levelVars)
  <2>1. Served
    BY <1>0, <1>3, BusReadServes, ProgramAssumption DEF Load
  <2>2. Enabled' = Enabled
    BY <1>3 DEF Load, FallsThrough, cpuVars, Enabled
  <2> QED BY <1>1, <2>1, <2>2, ServeMaps
<1>4. ASSUME NEW a \in DataAddresses, NEW n \in Widths, NEW v \in StoredWords, Store(a, n, v)
      PROVE  [Level!LevelNext]_(Level!levelVars)
  <2>1. Served
    BY <1>0, <1>4, BusWriteServes, ProgramAssumption DEF Store
  <2>2. Enabled' = Enabled
    BY <1>4 DEF Store, FallsThrough, cpuVars, Enabled
  <2> QED BY <1>1, <2>1, <2>2, ServeMaps
<1> QED BY <1>2, <1>3, <1>4 DEF Execute

\* A step of any other kind is invisible, but for the end of the cycle.
LEMMA OtherMaps ==
  ASSUME IInv, Driver \/ ResetLine \/ UserTypes \/ Exited \/ UNCHANGED vars
  PROVE  [Level!LevelNext]_(Level!levelVars)
<1>1. Pending' = Pending /\ Enabled' = Enabled
  BY PendingStays
     DEF Driver, StartCycle, Signal, CycleLimit, NextCycle, LeaveLoop, ResetLine, UserTypes,
         Type, Exited, vars, busVars, deviceVars, inputVars, timerVars, cpuVars, Enabled
<1>2. CASE ResetLine
  <2>1. Busy /\ ~Busy'
    BY <1>2 DEF ResetLine, Busy
  <2> QED BY <1>1, <2>1, FinishMaps
<1>3. CASE Driver \/ UserTypes \/ Exited \/ UNCHANGED vars
  <2>1. Busy' = Busy
    BY <1>3 DEF Driver, StartCycle, Signal, CycleLimit, NextCycle, LeaveLoop, UserTypes,
                Exited, vars, Busy
  <2> QED BY <1>1, <2>1, Invisible
<1> QED BY <1>2, <1>3

\* The machine implements the abstract interrupt path, whatever the program, the
\* memory map, the period and the user do: no request is lost, none is invented,
\* and a trap is taken exactly when an enabled request is raised.
THEOREM Refinement == Spec => ImplementsLevelInterrupts
<1>1. Init => Level!LevelInit
  BY InitMaps
<1>2. IInv /\ [Next]_vars => [Level!LevelNext]_(Level!levelVars)
  <2> SUFFICES ASSUME IInv, [Next]_vars PROVE [Level!LevelNext]_(Level!levelVars)
    OBVIOUS
  <2>1. CASE Tick
    BY <2>1, TickMaps
  <2>2. CASE TakeInterrupt \/ NoInterrupt
    BY <2>2, SampleMaps
  <2>3. CASE Fetch
    BY <2>3, FetchMaps
  <2>4. CASE Execute
    BY <2>4, ExecuteMaps
  <2>5. CASE Driver \/ ResetLine \/ UserTypes \/ Exited \/ UNCHANGED vars
    BY <2>5, OtherMaps
  <2> QED BY <2>1, <2>2, <2>3, <2>4, <2>5 DEF Next, Thread
<1> QED BY <1>1, <1>2, Invariance, PTL DEF Spec, ImplementsLevelInterrupts, Level!LevelSpec
=============================================================================
