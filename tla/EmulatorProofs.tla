---------------------------- MODULE EmulatorProofs ----------------------------
(***************************************************************************)
(* Proofs, for every value of the constants, of what the emulator's process *)
(* promises however it ends: nothing leaks, the exit code is true and the    *)
(* snapshot does not contradict it, the limit is exact, the throttle holds the program back.       *)
(***************************************************************************)
EXTENDS Emulator, TLAPS

Running == {"load", "clock", "loop", "step", "limit", "throttle", "report", "snapshot", "free"}

Before == {"arguments", "init", "devices", "load", "clock"}

Created(n) == {DeviceNames[i] : i \in 1..n}

\* What is held is what has been set up so far.
HeldInv ==
  /\ stage \in {"arguments", "init"} => held = Holding({}) /\ registered = 0
  /\ stage = "devices" =>
       held = Holding(Memories \union Created(registered)) /\ registered < DeviceTotal
  /\ stage \in Running => held = Holding(Resources) /\ registered = DeviceTotal
  /\ stage = "exit" => held = Holding({}) /\ terminal = "cooked"

\* The reason to stop and the number of cycles agree, at every stage.
OutcomeInv ==
  /\ stage \in Before => execState = "RUNNING" /\ cycles = 0
  /\ stage = "step" => execState = "RUNNING"
  /\ stage \in {"report", "snapshot", "free"} => execState # "RUNNING"
  /\ execState = "SIGNAL" => quit
  /\ execState = "TIMEOUT" => cycles = MaxCycles
  /\ MaxCycles # 0 =>
       /\ cycles <= MaxCycles
       /\ stage \in {"loop", "step"} /\ execState = "RUNNING" => cycles < MaxCycles
       /\ stage = "throttle" /\ execState = "RUNNING" => cycles < MaxCycles

\* What WriteSnapshot may leave behind when it reports success.
Outcomes == IF DumpState THEN {execState, "incomplete"} ELSE {"none"}

\* The exit code and the snapshot tell the reason to stop, or the code an error.
ReportInv ==
  /\ stage \notin {"free", "exit"} => snapshot = "none"
  /\ stage = "snapshot" => DumpState
  /\ stage = "free" => snapshot \in Outcomes
  /\ stage = "exit" =>
       \/ exitCode = ErrorCode /\ snapshot = "none"
       \/ exitCode = Success /\ execState = "RUNNING" /\ cycles = 0 /\ snapshot = "none"
       \/ execState # "RUNNING" /\ exitCode = CodeOf(execState) /\ snapshot \in Outcomes

EmulatorInv == TypeOK /\ HeldInv /\ OutcomeInv /\ ReportInv

-----------------------------------------------------------------------------
LEMMA CreatedNext ==
  ASSUME NEW n \in Nat
  PROVE  Created(n + 1) = Created(n) \union {DeviceNames[n + 1]}
<1>1. 1..(n + 1) = (1..n) \union {n + 1}
  OBVIOUS
<1> QED BY <1>1 DEF Created

LEMMA CreatedNone == Created(0) = {}
BY DEF Created

LEMMA AllCreated == Resources = Memories \union Created(DeviceTotal)
BY DEF Resources, Created

\* No two devices, and no device and memory, have one name.
LEMMA NewDevice ==
  ASSUME NEW n \in 0..DeviceTotal, n < DeviceTotal
  PROVE  /\ DeviceNames[n + 1] \in Resources
         /\ DeviceNames[n + 1] \notin Memories \union Created(n)
<1>1. n \in 0..5 /\ n + 1 \in 1..DeviceTotal
  BY DEF DeviceTotal
<1>2. 1..6 = {1, 2, 3, 4, 5, 6}
  OBVIOUS
<1>3. /\ DeviceNames[1] = "Interrupt Controller" /\ DeviceNames[2] = "Startup Circuit"
      /\ DeviceNames[3] = "Input Port" /\ DeviceNames[4] = "Output Port"
      /\ DeviceNames[5] = "Power Manager" /\ DeviceNames[6] = "Timer"
  BY DEF DeviceNames
<1>4. \A i, j \in 1..6 : i # j => DeviceNames[i] # DeviceNames[j]
  BY <1>2, <1>3
<1>5. \A i \in 1..6 : DeviceNames[i] \notin Memories
  BY <1>2, <1>3 DEF Memories
<1> QED BY <1>1, <1>4, <1>5 DEF Resources, Created, DeviceTotal

\* Allocating what was not held.
LEMMA AllocateNew ==
  ASSUME NEW S, NEW T, S \intersect T = {}, held = Holding(S), Allocate(T)
  PROVE  held' = Holding(S \union T)
BY DEF Allocate, Holding

\* Releasing all that is held leaves nothing, and nothing below.
LEMMA ReleaseAll ==
  ASSUME NEW S, held = Holding(S), Release(S)
  PROVE  held' = Holding({})
BY DEF Release, Holding

\* The state that was set up is released whole.
LEMMA FreeStateFreesAll ==
  ASSUME FreeState, held = Holding(Memories \union Created(registered))
  PROVE  held' = Holding({}) /\ registered' = 0
<1>1. {r \in Memories : held[r] > 0} = Memories
  BY DEF Holding, Resources
<1>2. Release(Memories \union Created(registered)) /\ registered' = 0
  BY <1>1 DEF FreeState, Created
<1> QED BY <1>2, ReleaseAll

LEMMA InitEmulator == Init => EmulatorInv
<1> SUFFICES ASSUME Init PROVE EmulatorInv
  OBVIOUS
<1> USE DEF Init
<1>1. TypeOK
  <2>1. quit \in BOOLEAN
    BY Zenon
  <2>2. /\ cycles \in 0..(CounterRange - 1) /\ elapsed \in 0..MaxElapsed
        /\ registered \in 0..DeviceTotal /\ exitCode \in 0..NoCode
    BY EmulatorAssumption DEF DeviceTotal, NoCode
  <2>3. held \in [Resources -> Int]
    BY DEF Holding
  <2> QED BY <2>1, <2>2, <2>3, Zenon DEF TypeOK, Stages, ExecStates
<1>2. HeldInv
  BY DEF HeldInv, Running
<1>3. OutcomeInv
  BY EmulatorAssumption DEF OutcomeInv, Before
<1>4. ReportInv
  BY DEF ReportInv
<1> QED BY <1>1, <1>2, <1>3, <1>4 DEF EmulatorInv

-----------------------------------------------------------------------------
\* Types.
LEMMA TypeStep == TypeOK /\ HeldInv /\ [Next]_vars => TypeOK'
<1> SUFFICES ASSUME TypeOK, HeldInv, [Next]_vars PROVE TypeOK'
  OBVIOUS
<1> USE DEF TypeOK, Stages, machineVars, Allocate, Release, Holding
<1>1. CASE ParseArguments
  BY <1>1 DEF ParseArguments, Exit, Success, ErrorCode, NoCode
<1>2. CASE InitState
  <2>1. held' \in [Resources -> Int]
    BY <1>2 DEF InitState
  <2>2. CASE stage' = "devices" /\ UNCHANGED <<terminal, exitCode>>
    BY <1>2, <2>1, <2>2, Zenon DEF InitState
  <2>3. CASE Exit(ErrorCode)
    <3>1. ErrorCode \in 0..NoCode
      BY DEF ErrorCode, NoCode
    <3> QED BY <1>2, <2>1, <2>3, <3>1, Zenon DEF InitState, Exit
  <2> QED BY <1>2, <2>2, <2>3, Zenon DEF InitState
<1>3. CASE CreateDevice
  <2>1. CASE Abort
    BY <1>3, <2>1 DEF CreateDevice, Abort, FreeState, Exit, ErrorCode, NoCode, DeviceTotal
  <2>2. CASE Allocate({DeviceNames[registered + 1]})
             /\ registered' = registered + 1
             /\ stage' = (IF registered' = DeviceTotal THEN "load" ELSE "devices")
             /\ UNCHANGED <<terminal, exitCode>>
    <3>1. registered + 1 \in 1..DeviceTotal
      BY <1>3 DEF CreateDevice, DeviceTotal
    <3>2. held' \in [Resources -> Int]
      BY <2>2
    <3> QED BY <1>3, <2>2, <3>1, <3>2 DEF CreateDevice, DeviceTotal
  <2> QED BY <1>3, <2>1, <2>2 DEF CreateDevice
<1>4. CASE Load \/ StartClock \/ ClockFails
  BY <1>4 DEF Load, StartClock, ClockFails, Abort, FreeState, Exit, ErrorCode, NoCode, DeviceTotal
<1>5. CASE LoopHead
  BY <1>5 DEF LoopHead, ExecStates
<1>6. CASE Step
  BY <1>6, EmulatorAssumption DEF Step, ExecStates
<1>7. CASE CheckLimit \/ SkipThrottle \/ Report
  BY <1>7 DEF CheckLimit, SkipThrottle, Report, ExecStates
<1>8. CASE Throttle
  <2>1. SimulatedNs \in Nat
    BY <1>8, EmulatorAssumption DEF Throttle, SyncDue, SimulatedNs
  <2>2. elapsed' \in 0..MaxElapsed
    BY <1>8, <2>1, EmulatorAssumption DEF Throttle
  <2>3. quit' \in BOOLEAN
    BY <1>8, Zenon DEF Throttle
  <2> QED BY <1>8, <2>2, <2>3 DEF Throttle
<1>9. CASE WriteSnapshot
  BY <1>9 DEF WriteSnapshot, Abort, FreeState, Exit, ErrorCode, NoCode, DeviceTotal, ExecStates
<1>10. CASE Leave
  BY <1>10 DEF Leave, FreeState, Exit, CodeOf, Success, FaultCode, SignalCode, LimitCode, ErrorCode,
               NoCode, DeviceTotal
<1>11. CASE SignalArrives \/ Exited \/ UNCHANGED vars
  BY <1>11 DEF SignalArrives, Exited, vars
<1> QED BY <1>1, <1>2, <1>3, <1>4, <1>5, <1>6, <1>7, <1>8, <1>9, <1>10, <1>11 DEF Next, Main

\* Resources.
LEMMA HeldStep == TypeOK /\ HeldInv /\ [Next]_vars => HeldInv'
<1> SUFFICES ASSUME TypeOK, HeldInv, [Next]_vars PROVE HeldInv'
  OBVIOUS
<1> USE DEF HeldInv, Running, Exit
<1>0. ASSUME Abort, held = Holding(Memories \union Created(registered))
      PROVE  HeldInv'
  BY <1>0, FreeStateFreesAll DEF Abort
<1>1. CASE ParseArguments
  BY <1>1 DEF ParseArguments
<1>2. CASE InitState
  <2>1. CASE Allocate(Memories) /\ stage' = "devices"
    <3>1. held = Holding({}) /\ registered' = 0
      BY <1>2 DEF InitState
    <3>2. held' = Holding({} \union Memories)
      BY <2>1, <3>1, AllocateNew
    <3> QED BY <2>1, <3>1, <3>2, CreatedNone DEF DeviceTotal
  <2> QED BY <1>2, <2>1 DEF InitState
<1>3. CASE CreateDevice
  <2>1. CASE Abort
    BY <1>0, <1>3, <2>1 DEF CreateDevice
  <2>2. CASE Allocate({DeviceNames[registered + 1]})
             /\ registered' = registered + 1
             /\ stage' = (IF registered' = DeviceTotal THEN "load" ELSE "devices")
             /\ UNCHANGED <<terminal, exitCode>>
    <3>1. registered \in Nat /\ registered < DeviceTotal
          /\ held = Holding(Memories \union Created(registered))
      BY <1>3 DEF CreateDevice, TypeOK
    <3>2. held' = Holding((Memories \union Created(registered))
                            \union {DeviceNames[registered + 1]})
      BY <2>2, <3>1, NewDevice, AllocateNew DEF TypeOK
    <3>3. held' = Holding(Memories \union Created(registered'))
      <4>1. (Memories \union Created(registered)) \union {DeviceNames[registered + 1]}
              = Memories \union Created(registered')
        BY <2>2, <3>1, CreatedNext
      <4> QED BY <3>2, <4>1
    <3> QED BY <2>2, <3>1, <3>3, AllCreated DEF DeviceTotal
  <2> QED BY <1>3, <2>1, <2>2 DEF CreateDevice
<1>4. CASE Load \/ StartClock \/ ClockFails \/ WriteSnapshot
  <2>1. held = Holding(Memories \union Created(registered))
    BY <1>4, AllCreated DEF Load, StartClock, ClockFails, WriteSnapshot
  <2>2. CASE Abort
    BY <1>0, <2>1, <2>2
  <2>3. CASE UNCHANGED <<held, registered>> /\ stage' \in Running
    BY <1>4, <2>3 DEF Load, StartClock, ClockFails, WriteSnapshot
  <2> QED BY <1>4, <2>2, <2>3 DEF Load, StartClock, ClockFails, WriteSnapshot
<1>5. CASE LoopHead \/ Step \/ CheckLimit \/ SkipThrottle \/ Throttle \/ Report
  BY <1>5 DEF LoopHead, Step, CheckLimit, SkipThrottle, Throttle, Report
<1>6. CASE Leave
  <2>1. held = Holding(Memories \union Created(registered))
    BY <1>6, AllCreated DEF Leave
  <2> QED BY <1>6, <2>1, FreeStateFreesAll DEF Leave
<1>7. CASE SignalArrives \/ Exited \/ UNCHANGED vars
  BY <1>7 DEF SignalArrives, Exited, vars
<1> QED BY <1>1, <1>2, <1>3, <1>4, <1>5, <1>6, <1>7 DEF Next, Main

\* The outcome.
LEMMA OutcomeStep == TypeOK /\ OutcomeInv /\ [Next]_vars => OutcomeInv'
<1> SUFFICES ASSUME TypeOK, OutcomeInv, [Next]_vars PROVE OutcomeInv'
  OBVIOUS
<1> USE EmulatorAssumption DEF OutcomeInv, Before, machineVars, Exit
<1>1. CASE ParseArguments \/ InitState
  BY <1>1 DEF ParseArguments, InitState
<1>2. CASE CreateDevice \/ Load
  BY <1>2 DEF CreateDevice, Load, Abort
<1>3. CASE StartClock
  BY <1>3 DEF StartClock, Abort
<1>4. CASE LoopHead
  BY <1>4 DEF LoopHead
<1>5. CASE Step
  <2>1. MaxCycles # 0 => cycles' = cycles + 1 /\ cycles' <= MaxCycles
    BY <1>5 DEF Step, TypeOK
  <2>2. execState' \notin {"SIGNAL", "TIMEOUT"} /\ stage' = "limit"
    BY <1>5 DEF Step
  <2> QED BY <2>1, <2>2
<1>6. CASE CheckLimit
  BY <1>6 DEF CheckLimit, LimitReached, TypeOK
<1>7. CASE SkipThrottle \/ Throttle
  BY <1>7 DEF SkipThrottle, Throttle
<1>8. CASE ClockFails \/ Leave \/ WriteSnapshot
  BY <1>8 DEF ClockFails, Leave, WriteSnapshot, Abort
<1>9. CASE Report
  BY <1>9 DEF Report
<1>10. CASE SignalArrives \/ Exited \/ UNCHANGED vars
  BY <1>10 DEF SignalArrives, Exited, vars
<1> QED BY <1>1, <1>2, <1>3, <1>4, <1>5, <1>6, <1>7, <1>8, <1>9, <1>10 DEF Next, Main

\* The report.
LEMMA ReportStep == OutcomeInv /\ ReportInv /\ [Next]_vars => ReportInv'
<1> SUFFICES ASSUME OutcomeInv, ReportInv, [Next]_vars PROVE ReportInv'
  OBVIOUS
<1> USE DEF ReportInv, machineVars, Exit
<1>1. CASE ParseArguments
  BY <1>1 DEF ParseArguments, OutcomeInv, Before
<1>2. CASE InitState \/ CreateDevice \/ Load \/ StartClock \/ ClockFails
  BY <1>2 DEF InitState, CreateDevice, Load, StartClock, ClockFails, Abort
<1>3. CASE LoopHead \/ Step \/ CheckLimit \/ SkipThrottle \/ Throttle
  BY <1>3 DEF LoopHead, Step, CheckLimit, SkipThrottle, Throttle
<1>4. CASE Report
  BY <1>4 DEF Report, Outcomes
<1>5. CASE WriteSnapshot
  <2>1. DumpState
    BY <1>5 DEF WriteSnapshot
  <2> QED BY <1>5, <2>1 DEF WriteSnapshot, Abort, Outcomes
<1>6. CASE Leave
  BY <1>6 DEF Leave, Outcomes, OutcomeInv
<1>7. CASE SignalArrives \/ Exited \/ UNCHANGED vars
  BY <1>7 DEF SignalArrives, Exited, vars, Outcomes
<1> QED BY <1>1, <1>2, <1>3, <1>4, <1>5, <1>6, <1>7 DEF Next, Main

-----------------------------------------------------------------------------
\* What holds at every moment of the process's life.
THEOREM EmulatorInvariance == Spec => []EmulatorInv
<1>1. EmulatorInv /\ [Next]_vars => EmulatorInv'
  BY TypeStep, HeldStep, OutcomeStep, ReportStep DEF EmulatorInv
<1> QED BY InitEmulator, <1>1, PTL DEF Spec

\* Whatever fails, and whenever, nothing stays allocated or is released twice, and
\* the terminal is restored; and the machine never runs on half of what it needs.
THEOREM NothingEverLeaks == Spec => []NothingLeaks
<1>1. EmulatorInv => NothingLeaks
  BY DEF EmulatorInv, HeldInv, Running, NothingLeaks
<1> QED BY <1>1, EmulatorInvariance, PTL

\* The exit code is what the documents say of it.
THEOREM ExitCodeStaysTrue == Spec => []ExitCodeIsTrue
<1>1. EmulatorInv => ExitCodeIsTrue
  BY DEF EmulatorInv, TypeOK, ExecStates, OutcomeInv, ReportInv, ExitCodeIsTrue, CodeOf, Success,
         FaultCode, SignalCode, LimitCode, ErrorCode, NoCode
<1> QED BY <1>1, EmulatorInvariance, PTL

\* Whatever fails, a reason in the snapshot is the one the exit code gives, and
\* unless the code is that of an error the file asked for has been opened.
THEOREM SnapshotAlwaysAgrees == Spec => []SnapshotAgrees
<1>1. EmulatorInv => SnapshotAgrees
  BY DEF EmulatorInv, TypeOK, ExecStates, ReportInv, Outcomes, SnapshotAgrees, CodeOf, Success,
         FaultCode, SignalCode, LimitCode, ErrorCode
<1> QED BY <1>1, EmulatorInvariance, PTL

\* No limit is overrun, whatever the limit.
THEOREM LimitStaysExact == Spec => []LimitIsExact
<1>1. EmulatorInv => LimitIsExact
  BY DEF EmulatorInv, OutcomeInv, LimitIsExact
<1> QED BY <1>1, EmulatorInvariance, PTL

-----------------------------------------------------------------------------
(* The throttle. *)

\* The product of the throttle stays in its width when the limit's does.
LEMMA ProductFits ==
  ASSUME MaxCycles * NsPerSec < CounterRange, NEW c \in Nat, c <= MaxCycles
  PROVE  (c * NsPerSec) % CounterRange = c * NsPerSec
<1>1. MaxCycles \in Nat /\ NsPerSec \in Nat /\ CounterRange \in Nat \ {0}
  BY EmulatorAssumption
<1>2. c * NsPerSec \in Nat /\ MaxCycles * NsPerSec \in Nat
  BY <1>1
<1>3. c * NsPerSec <= MaxCycles * NsPerSec
  <2>1. PICK d \in Nat : MaxCycles = c + d
    <3>1. MaxCycles - c \in Nat /\ MaxCycles = c + (MaxCycles - c)
      BY <1>1
    <3> QED BY <3>1
  <2>2. MaxCycles * NsPerSec = c * NsPerSec + d * NsPerSec
    BY <1>1, <2>1
  <2>3. d * NsPerSec \in Nat
    BY <1>1, <2>1
  <2> QED BY <1>2, <2>2, <2>3
<1> DEFINE product == c * NsPerSec
<1>4. product \in 0..(CounterRange - 1)
  BY <1>1, <1>2, <1>3
<1> HIDE DEF product
<1>5. product % CounterRange = product
  BY <1>1, <1>4
<1> QED BY <1>5 DEF product

\* A run whose simulated time fits the counter of nanoseconds, MaxCycles being
\* the limit that is set, is never ahead of the frequency: the condition that the
\* run emulator_throttle violates.
THEOREM FrequencyHolds ==
  ASSUME MaxCycles # 0, MaxCycles * NsPerSec < CounterRange
  PROVE  Spec => []FrequencyIsRespected
<1> DEFINE Due == (cycles * NsPerSec) \div Freq
<1>1. Init => FrequencyIsRespected
  BY DEF Init, FrequencyIsRespected
<1>2. EmulatorInv /\ FrequencyIsRespected /\ [Next]_vars => FrequencyIsRespected'
  <2> SUFFICES ASSUME EmulatorInv, FrequencyIsRespected, [Next]_vars,
                      stage' = "loop", SyncDue', ~quit'
               PROVE  elapsed' >= Due'
    BY DEF FrequencyIsRespected
  <2>0. cycles \in Nat /\ elapsed \in Nat /\ cycles <= MaxCycles /\ Freq \in Nat
    BY EmulatorAssumption DEF EmulatorInv, TypeOK, OutcomeInv
  <2>1. CASE StartClock
    <3>1. cycles' = 0 /\ elapsed' = elapsed /\ Freq > 0
      BY <2>1 DEF StartClock, machineVars, EmulatorInv, OutcomeInv, Before, SyncDue
    <3>2. (0 * NsPerSec) \div Freq = 0
      BY <2>0, <3>1, EmulatorAssumption
    <3> QED BY <2>0, <3>1, <3>2
  <2>2. CASE SkipThrottle
    BY <2>2 DEF SkipThrottle, machineVars, SyncDue
  <2>3. CASE Throttle
    <3>1. cycles' = cycles /\ Freq > 0
      BY <2>3 DEF Throttle, SyncDue
    <3>2. SimulatedNs = Due
      BY <2>0, ProductFits DEF SimulatedNs
    <3>3. SimulatedNs \in Nat
      BY <2>0, <3>1, EmulatorAssumption DEF SimulatedNs
    <3>4. elapsed' >= SimulatedNs
      BY <2>0, <2>3, <3>3, EmulatorAssumption DEF Throttle
    <3> QED BY <3>1, <3>2, <3>4
  <2>4. CASE SignalArrives
    BY <2>4 DEF SignalArrives
  <2>5. CASE UNCHANGED vars
    BY <2>5 DEF vars, FrequencyIsRespected, SyncDue
  <2>6. ~(ParseArguments \/ InitState \/ CreateDevice \/ Load \/ LoopHead \/ Step \/ CheckLimit
          \/ ClockFails \/ Report \/ WriteSnapshot \/ Leave \/ Exited)
    BY DEF ParseArguments, InitState, CreateDevice, Load, LoopHead, Step, CheckLimit, ClockFails,
           Report, WriteSnapshot, Leave, Exited, Abort, Exit, vars
  <2> QED BY <2>1, <2>2, <2>3, <2>4, <2>5, <2>6 DEF Next, Main
<1> QED BY <1>1, <1>2, EmulatorInvariance, PTL DEF Spec
=============================================================================
