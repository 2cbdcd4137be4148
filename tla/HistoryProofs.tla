---------------------------- MODULE HistoryProofs ----------------------------
(***************************************************************************)
(* Proofs, for every value of the constants, of what holds across cycles:   *)
(* traps are intact, handlers find their source, input is not disturbed;    *)
(* and, of the Timer beside its own history, that it expires when it should *)
(* for every width of a word, every period and every number of ticks.       *)
(***************************************************************************)
EXTENDS MachineHistory, MachineProofs, TimerHistory, SequenceTheorems

\* The history observes the machine: its steps are steps of the machine.
LEMMA StepOfMachine == HNext => Next
BY DEF HNext, HTakeInterrupt, HSoftwareInterrupt, HRfe, HMoveToSpecial, HFetch, HLoad, HStore,
       Unobserved, Next, Thread, Execute

\* So what the machine keeps it keeps beside its history.
THEOREM HistoryInvariance == HSpec => []IInv
<1>1. HInit => Init
  BY DEF HInit
<1>2. [HNext]_<<vars, historyVars>> => [Next]_vars
  BY StepOfMachine
<1>3. HSpec => Spec
  BY <1>1, <1>2, PTL DEF HSpec, Spec
<1> QED BY <1>3, Invariance, PTL

-----------------------------------------------------------------------------
(* What the steps leave alone. *)

\* The steps that trap, return or write a special register are observed; the others
\* keep the registers of the trap.
LEMMA UnobservedKeepsTrap == Unobserved => UNCHANGED <<ien, iar, cr>>
BY DEF Unobserved, Driver, StartCycle, Signal, CycleLimit, NextCycle, LeaveLoop,
       Tick, TickIC, TickInput, TickOutput, TickTimer, TickNull, TickOf, NoInterrupt, ResetLine,
       UserTypes, Exited, Compute, Jump, NestedInterrupt, DebugStop, Unimplemented,
       ExecuteUnknown, FallsThrough, cpuVars, vars

\* A read of the bus that goes to no device that asks for interrupts, nor to the
\* controller, leaves the requests and the lines alone.
LEMMA ReadElsewhere ==
  ASSUME NEW a, NEW n, BusRead(a, n),
         ReadRoute(a, n) = "device" => DeviceAt(a) \notin {IC, InPort, TimerDev}
  PROVE  UNCHANGED <<icVars, inputVars, timerVars>>
BY DEF BusRead, DeviceRead, AccessError, busVars, deviceVars

\* Only the Input Port's own read touches its latch.
LEMMA ReadOfLatch ==
  ASSUME NEW a, NEW n, BusRead(a, n)
  PROVE  \/ ReadRoute(a, n) = "device" /\ DeviceAt(a) = InPort /\ InputRead
         \/ /\ ~(ReadRoute(a, n) = "device" /\ DeviceAt(a) = InPort)
            /\ UNCHANGED inputVars
BY DEF BusRead, DeviceRead, AccessError, busVars, deviceVars, IC, Startup, InPort, OutPort, TimerDev

\* A write of the bus never touches the Input Port, and touches the Timer and the
\* lines only where the Timer is.
LEMMA WriteOfBus ==
  ASSUME NEW a, NEW n, NEW v, BusWrite(a, v, n)
  PROVE  /\ UNCHANGED inputVars
         /\ DeviceAt(a) # TimerDev => UNCHANGED <<icVars, timerVars>>
BY DEF BusWrite, DeviceWrite, AccessError, busVars, deviceVars

-----------------------------------------------------------------------------
(* The registers of the trap. *)

\* Every step keeps them while a handler runs.
LEMMA TrapStep == TrapIsIntact /\ [HNext]_<<vars, historyVars>> => TrapIsIntact'
<1> SUFFICES ASSUME TrapIsIntact, [HNext]_<<vars, historyVars>> PROVE TrapIsIntact'
  OBVIOUS
<1>1. CASE HTakeInterrupt
  BY <1>1 DEF HTakeInterrupt, TakeInterrupt, Interrupted, Trapped, TrapIsIntact
<1>2. CASE HSoftwareInterrupt
  BY <1>2 DEF HSoftwareInterrupt, SoftwareInterrupt, Trapped, TrapIsIntact
<1>3. CASE HRfe
  BY <1>3 DEF HRfe, TrapIsIntact
<1>4. CASE HMoveToSpecial
  BY <1>4 DEF HMoveToSpecial, MoveToSpecial, TrapIsIntact
<1>5. CASE HFetch
  BY <1>5 DEF HFetch, Fetch, ObserveRead, TrapIsIntact
<1>6. CASE \E a \in DataAddresses, n \in Widths : HLoad(a, n)
  BY <1>6 DEF HLoad, Load, FallsThrough, cpuVars, ObserveRead, TrapIsIntact
<1>7. CASE \E a \in DataAddresses, n \in Widths, v \in StoredWords : HStore(a, n, v)
  BY <1>7 DEF HStore, Store, FallsThrough, cpuVars, TrapIsIntact
<1>8. CASE Unobserved /\ UNCHANGED historyVars
  BY <1>8, UnobservedKeepsTrap DEF historyVars, TrapIsIntact
<1>9. CASE UNCHANGED <<vars, historyVars>>
  BY <1>9 DEF vars, cpuVars, historyVars, TrapIsIntact
<1> QED BY <1>1, <1>2, <1>3, <1>4, <1>5, <1>6, <1>7, <1>8, <1>9 DEF HNext

\* Whatever is raised while a handler runs, its RFE resumes the program where it
\* was, and CR tells a system call from a device.
THEOREM TrapStaysIntact == HSpec => []TrapIsIntact
<1>1. HInit => TrapIsIntact
  BY DEF HInit, TrapIsIntact
<1> QED BY <1>1, TrapStep, PTL DEF HSpec

-----------------------------------------------------------------------------
(* The source of a trap. *)

\* A handler that has cleared nothing still has a device that asks; when it
\* executes, the controller has latched exactly those that do.
StillAsking ==
  (handler = "hardware" /\ untouched) =>
    /\ Pending # {}
    /\ phase = "exec" => Asserted = Pending

\* What nobody observes withdraws no request; of it only the user's typing may
\* fall within an execution.
LEMMA UnobservedKeepsPending ==
  ASSUME Unobserved, status \in Bit
  PROVE  /\ Pending \subseteq Pending'
         /\ phase' = "exec" => phase = "exec" /\ Asserted' = Asserted /\ Pending' = Pending
<1>1. CASE TickInput
  <2>1. inReady = 1 => inReady' = 1
    BY <1>1 DEF TickInput, InputTick, InputTickReady, InputTickWait, InputTickPoll, inputVars
  <2> QED BY <1>1, <2>1 DEF TickInput, TickOf, timerVars, Pending, InPort, TimerDev
<1>2. CASE TickTimer
  <2>1. status = 1 => status' = 1
    BY <1>2 DEF TickTimer, TimerTick, timerVars
  <2> QED BY <1>2, <2>1 DEF TickTimer, TickOf, inputVars, Pending
<1>3. CASE TickIC \/ TickOutput \/ TickNull
  BY <1>3 DEF TickIC, TickOutput, TickNull, TickOf, inputVars, timerVars, Pending, IC, Startup,
              OutPort, Power, TimerDev
<1>4. CASE Driver \/ NoInterrupt
  BY <1>4 DEF Driver, StartCycle, Signal, CycleLimit, NextCycle, LeaveLoop, NoInterrupt, busVars,
              deviceVars, inputVars, timerVars, Pending
<1>5. CASE ResetLine
  BY <1>5 DEF ResetLine, inputVars, timerVars, Pending
<1>6. CASE UserTypes
  BY <1>6 DEF UserTypes, Type, icVars, timerVars, Pending, Asserted
<1>7. CASE Exited
  BY <1>7 DEF Exited, vars, busVars, deviceVars, inputVars, timerVars, Pending
<1>8. CASE Compute \/ Jump \/ NestedInterrupt \/ DebugStop \/ Unimplemented \/ ExecuteUnknown
  BY <1>8 DEF Compute, Jump, NestedInterrupt, DebugStop, Unimplemented, ExecuteUnknown, AccessError,
              FallsThrough, Executing, busVars, deviceVars, inputVars, timerVars, Pending
<1> QED BY <1>1, <1>2, <1>3, <1>4, <1>5, <1>6, <1>7, <1>8 DEF Unobserved, Tick

\* A read observed to touch nothing of the trap touched nothing of its sources.
LEMMA ObservedElsewhere ==
  ASSUME NEW a, NEW n, BusRead(a, n), ObserveRead(a, n), untouched'
  PROVE  untouched /\ handler' = handler /\ Pending' = Pending /\ Asserted' = Asserted
<1>1. untouched /\ handler' = handler
  BY DEF ObserveRead
<1>2. ReadRoute(a, n) = "device" => DeviceAt(a) \notin {IC, InPort, TimerDev}
  BY DEF ObserveRead
<1>3. UNCHANGED <<icVars, inputVars, timerVars>>
  BY <1>2, ReadElsewhere
<1> QED BY <1>1, <1>3 DEF icVars, inputVars, timerVars, Pending, Asserted

\* From the trap to the first access of the handler that clears a line.
LEMMA StillAskingStep ==
  IInv /\ StillAsking /\ [HNext]_<<vars, historyVars>> => StillAsking'
<1> SUFFICES ASSUME IInv, StillAsking, [HNext]_<<vars, historyVars>>,
                    (handler = "hardware" /\ untouched)'
             PROVE  Pending' # {} /\ (phase' = "exec" => Asserted' = Pending')
  BY DEF StillAsking
<1>1. CASE HTakeInterrupt
  <2>1. Pending # {}
    BY <1>1 DEF HTakeInterrupt, TakeInterrupt, Interrupted, IInv, SampledUntilFetch
  <2>2. Pending' = Pending /\ phase' = "fetch"
    BY <1>1 DEF HTakeInterrupt, TakeInterrupt, busVars, deviceVars, inputVars, timerVars, Pending
  <2> QED BY <2>1, <2>2
<1>2. CASE HSoftwareInterrupt \/ HRfe
  BY <1>2 DEF HSoftwareInterrupt, HRfe
<1>3. CASE HMoveToSpecial
  <2>1. handler = "hardware" /\ untouched
    BY <1>3 DEF HMoveToSpecial
  <2>2. Pending' = Pending /\ phase' = "reset"
    BY <1>3 DEF HMoveToSpecial, MoveToSpecial, Executing, busVars, deviceVars, inputVars,
                timerVars, Pending
  <2> QED BY <2>1, <2>2 DEF StillAsking
<1>4. CASE HFetch
  <2>1. BusRead(pc, 4) /\ ObserveRead(pc, 4) /\ phase = "fetch"
    BY <1>4 DEF HFetch, Fetch
  <2>2. untouched /\ handler' = handler /\ Pending' = Pending /\ Asserted' = Asserted
    BY <2>1, ObservedElsewhere
  <2>3. Asserted = Pending
    BY <2>1 DEF IInv, SampledUntilFetch
  <2> QED BY <2>2, <2>3 DEF StillAsking
<1>5. CASE \E a \in DataAddresses, n \in Widths : HLoad(a, n)
  <2>1. PICK a \in DataAddresses, n \in Widths : HLoad(a, n)
    BY <1>5
  <2>2. BusRead(a, n) /\ ObserveRead(a, n) /\ phase' = "reset"
    BY <2>1 DEF HLoad, Load, FallsThrough, Executing
  <2>3. untouched /\ handler' = handler /\ Pending' = Pending
    BY <2>2, ObservedElsewhere
  <2> QED BY <2>2, <2>3 DEF StillAsking
<1>6. CASE \E a \in DataAddresses, n \in Widths, v \in StoredWords : HStore(a, n, v)
  <2>1. PICK a \in DataAddresses, n \in Widths, v \in StoredWords : HStore(a, n, v)
    BY <1>6
  <2>2. /\ BusWrite(a, v, n) /\ phase' = "reset"
        /\ untouched /\ DeviceAt(a) # TimerDev /\ handler' = handler
    BY <2>1 DEF HStore, Store, FallsThrough, Executing
  <2>3. UNCHANGED <<inputVars, timerVars>>
    BY <2>2, WriteOfBus
  <2>4. Pending' = Pending
    BY <2>3 DEF inputVars, timerVars, Pending
  <2> QED BY <2>2, <2>4 DEF StillAsking
<1>7. CASE Unobserved /\ UNCHANGED historyVars
  <2>1. status \in Bit
    BY DEF IInv, TypeOK
  <2>2. /\ Pending \subseteq Pending'
        /\ phase' = "exec" => phase = "exec" /\ Asserted' = Asserted /\ Pending' = Pending
    BY <1>7, <2>1, UnobservedKeepsPending
  <2> QED BY <1>7, <2>2 DEF StillAsking, historyVars
<1>8. CASE UNCHANGED <<vars, historyVars>>
  BY <1>8 DEF StillAsking, vars, historyVars, busVars, deviceVars, icVars, inputVars, timerVars,
              Pending, Asserted
<1> QED BY <1>1, <1>2, <1>3, <1>4, <1>5, <1>6, <1>7, <1>8 DEF HNext

\* Of at most two asserted lines a read reports the lower.
LEMMA ReadsLowest ==
  ASSUME Asserted # {}, Asserted \subseteq {InputLine, TimerLine}
  PROVE  ICReadValue \in Asserted /\ \A i \in Asserted : ICReadValue <= i
<1>1. InputLine \in Nat /\ TimerLine \in Nat
  BY InputAssumption, TimerAssumption, LineCountAssumption DEF Lines, NoLine
<1>2. \E i \in Asserted : \A j \in Asserted : i <= j
  <2>1. CASE InputLine \in Asserted /\ (InputLine <= TimerLine \/ TimerLine \notin Asserted)
    BY <1>1, <2>1
  <2>2. CASE TimerLine \in Asserted /\ (TimerLine <= InputLine \/ InputLine \notin Asserted)
    BY <1>1, <2>2
  <2>3. InputLine \in Asserted \/ TimerLine \in Asserted
    OBVIOUS
  <2>4. InputLine <= TimerLine \/ TimerLine <= InputLine
    BY <1>1
  <2> QED BY <2>1, <2>2, <2>3, <2>4
<1> DEFINE Lowest(i) == \A j \in Asserted : i <= j
<1>3. ICReadValue = CHOOSE i \in Asserted : Lowest(i)
  BY DEF ICReadValue
<1> HIDE DEF Lowest
<1>4. \E i \in Asserted : Lowest(i)
  BY <1>2 DEF Lowest
<1>5. ICReadValue \in Asserted /\ Lowest(ICReadValue)
  BY <1>3, <1>4
<1> QED BY <1>5 DEF Lowest

\* A handler that looks for the source of its trap finds the first in priority.
THEOREM SourceIsFound == HSpec => []HandlerFindsSource
<1>1. HInit => StillAsking
  BY DEF HInit, StillAsking
<1>2. HSpec => []StillAsking
  BY <1>1, StillAskingStep, HistoryInvariance, PTL DEF HSpec
<1>3. IInv /\ StillAsking => HandlerFindsSource
  <2> SUFFICES ASSUME IInv, StillAsking, handler = "hardware", untouched,
                      phase \in {"fetch", "exec"}
               PROVE  /\ Pending # {} /\ ICReadValue \in Pending
                      /\ \A i \in Pending : ICReadValue <= i
    BY DEF HandlerFindsSource
  <2>1. Pending # {} /\ Asserted = Pending
    BY DEF StillAsking, IInv, SampledUntilFetch
  <2>2. Pending \subseteq {InputLine, TimerLine}
    BY DEF Pending
  <2> QED BY <2>1, <2>2, ReadsLowest
<1> QED BY <1>2, <1>3, HistoryInvariance, PTL

-----------------------------------------------------------------------------
(* The input. *)

InputInv == delivered \in Seq(Byte) /\ InputIsIntact

\* The ticks of the port move at most one byte from the terminal to a free latch.
LEMMA TickKeepsInput ==
  ASSUME TypeOK, InputInv, InputTick, delivered' = delivered
  PROVE  InputInv'
<1> USE DEF InputInv
<1>1. CASE InputTickReady \/ InputTickWait
  <2>1. inReady' = inReady /\ inData' = inData /\ taken' = taken
    BY <1>1 DEF InputTickReady, InputTickWait, inputVars
  <2> QED BY <2>1 DEF InputIsIntact
<1>2. CASE InputTickPoll /\ taken = avail /\ UNCHANGED <<inReady, inData, taken>>
  BY <1>2 DEF InputIsIntact
<1>3. CASE InputTickPoll /\ taken < avail /\ inReady' = 1 /\ inData' = Input[taken + 1]
           /\ taken' = taken + 1
  <2>1. inReady = 0 /\ delivered = SubSeq(Input, 1, taken)
    BY <1>3, ConcatEmptySeq DEF InputTickPoll, InputIsIntact
  <2>2. taken \in Nat /\ taken + 1 \in 1..Len(Input) /\ Input \in Seq(Byte)
    BY <1>3, InputAssumption DEF TypeOK
  <2>3. SubSeq(Input, 1, taken + 1) = Append(SubSeq(Input, 1, taken), Input[taken + 1])
    BY <2>2, SubSeqRecursiveSecond
  <2>4. Append(delivered, Input[taken + 1]) = delivered \o <<Input[taken + 1]>>
    BY <2>2, AppendIsConcat
  <2> QED BY <1>3, <2>1, <2>3, <2>4 DEF InputIsIntact
<1> QED BY <1>1, <1>2, <1>3 DEF InputTick, InputTickPoll

\* A read that reaches the port moves the latched byte to the program, once.
LEMMA ReadKeepsInput ==
  ASSUME TypeOK, InputInv, NEW a, NEW n, BusRead(a, n), ObserveRead(a, n)
  PROVE  InputInv'
<1> USE DEF InputInv
<1>1. CASE ReadRoute(a, n) = "device" /\ DeviceAt(a) = InPort /\ InputRead
  <2>1. inReady' = 0 /\ taken' = taken
    BY <1>1 DEF InputRead
  <2>2. delivered' = IF inReady = 1 THEN Append(delivered, inData) ELSE delivered
    BY <1>1 DEF ObserveRead, InputReadValue
  <2>3. delivered' \in Seq(Byte)
    BY <2>2 DEF TypeOK
  <2>4. delivered' = delivered \o (IF inReady = 1 THEN <<inData>> ELSE <<>>)
    BY <2>2, AppendIsConcat, ConcatEmptySeq DEF TypeOK
  <2>5. delivered' \o <<>> = delivered'
    BY <2>3, ConcatEmptySeq
  <2>6. delivered' = SubSeq(Input, 1, taken)
    BY <2>4 DEF InputIsIntact
  <2> QED BY <2>1, <2>3, <2>5, <2>6 DEF InputIsIntact
<1>2. CASE ~(ReadRoute(a, n) = "device" /\ DeviceAt(a) = InPort) /\ UNCHANGED inputVars
  <2>1. delivered' = delivered
    BY <1>2 DEF ObserveRead, NoDevice, InPort
  <2> QED BY <1>2, <2>1 DEF InputIsIntact, inputVars
<1> QED BY <1>1, <1>2, ReadOfLatch

\* Nothing else touches the latch.
LEMMA UnobservedKeepsInput ==
  Unobserved => TickInput \/ UNCHANGED <<inReady, inData, taken>>
BY DEF Unobserved, Driver, StartCycle, Signal, CycleLimit, NextCycle, LeaveLoop,
       Tick, TickIC, TickOutput, TickTimer, TickNull, NoInterrupt, ResetLine,
       UserTypes, Type, Exited, Compute, Jump, NestedInterrupt, DebugStop, Unimplemented,
       ExecuteUnknown, FallsThrough, AccessError, vars, busVars, deviceVars, inputVars

LEMMA InputStep == TypeOK /\ InputInv /\ [HNext]_<<vars, historyVars>> => InputInv'
<1> SUFFICES ASSUME TypeOK, InputInv, [HNext]_<<vars, historyVars>> PROVE InputInv'
  OBVIOUS
<1>1. CASE HTakeInterrupt \/ HSoftwareInterrupt \/ HRfe \/ HMoveToSpecial
  BY <1>1 DEF HTakeInterrupt, TakeInterrupt, HSoftwareInterrupt, SoftwareInterrupt, HRfe, Rfe,
              HMoveToSpecial, MoveToSpecial, busVars, deviceVars, inputVars, InputInv, InputIsIntact
<1>2. CASE HFetch
  BY <1>2, ReadKeepsInput DEF HFetch, Fetch
<1>3. CASE \E a \in DataAddresses, n \in Widths : HLoad(a, n)
  BY <1>3, ReadKeepsInput DEF HLoad, Load
<1>4. CASE \E a \in DataAddresses, n \in Widths, v \in StoredWords : HStore(a, n, v)
  BY <1>4, WriteOfBus DEF HStore, Store, inputVars, InputInv, InputIsIntact
<1>5. CASE Unobserved /\ UNCHANGED historyVars
  BY <1>5, UnobservedKeepsInput, TickKeepsInput
     DEF TickInput, historyVars, InputInv, InputIsIntact
<1>6. CASE UNCHANGED <<vars, historyVars>>
  BY <1>6 DEF vars, historyVars, busVars, deviceVars, inputVars, InputInv, InputIsIntact
<1> QED BY <1>1, <1>2, <1>3, <1>4, <1>5, <1>6 DEF HNext

\* No byte is lost, doubled or reordered between the terminal and the program,
\* however slowly the program reads and however fast the user types.
THEOREM InputStaysIntact == HSpec => []InputIsIntact
<1>1. HInit => InputInv
  <2> SUFFICES ASSUME HInit PROVE InputInv
    OBVIOUS
  <2>1. inReady = 0 /\ taken = 0 /\ delivered = <<>>
    BY DEF HInit, Init, InputInit
  <2>2. SubSeq(Input, 1, 0) = <<>>
    BY InputAssumption, SubSeqEmpty
  <2> QED BY <2>1, <2>2, ConcatEmptySeq DEF InputInv, InputIsIntact
<1>2. IInv => TypeOK
  BY DEF IInv
<1>3. HSpec => []InputInv
  BY <1>1, <1>2, InputStep, HistoryInvariance, PTL DEF HSpec
<1>4. InputInv => InputIsIntact
  BY DEF InputInv
<1> QED BY <1>3, <1>4, PTL

-----------------------------------------------------------------------------
(* Arithmetic of quotients and remainders. *)

\* Quotient and remainder put together make the dividend again.
LEMMA Division ==
  ASSUME NEW p \in Nat \ {0}, NEW e \in Nat
  PROVE  /\ e = p * (e \div p) + (e % p)
         /\ (e \div p) \in Nat /\ (e % p) \in 0..(p - 1)
OBVIOUS

\* And no other pair does.
LEMMA DivisionUnique ==
  ASSUME NEW p \in Nat \ {0}, NEW q \in Nat, NEW r \in 0..(p - 1), NEW e \in Nat,
         e = p * q + r
  PROVE  (e \div p) = q /\ (e % p) = r
OBVIOUS

\* The quotient grows with the dividend.
LEMMA QuotientGrows ==
  ASSUME NEW p \in Nat \ {0}, NEW e \in Nat, NEW a \in 0..e
  PROVE  (a \div p) <= (e \div p)
OBVIOUS

\* One more tick: the remainder grows, until it would reach the divisor.
LEMMA NextTick ==
  ASSUME NEW p \in Nat \ {0}, NEW e \in Nat
  PROVE  IF (e % p) + 1 < p
           THEN ((e + 1) % p) = (e % p) + 1 /\ ((e + 1) \div p) = (e \div p)
           ELSE ((e + 1) % p) = 0 /\ ((e + 1) \div p) = (e \div p) + 1
OBVIOUS

\* A word below the longest one does not wrap when it is incremented
\* (timer->counter++ on a uint32_t).
LEMMA NoWrap ==
  ASSUME NEW c \in Words, c + 1 < WordSize
  PROVE  Incremented(c) = c + 1
BY TimerAssumption DEF Incremented, Words

-----------------------------------------------------------------------------
(* The invariant.  CounterIsExact and StatusIsExact rest on each other: the *)
(* counter says when the quotient of StatusIsExact grows.                   *)

TimerInv == TTypeOK /\ CounterIsExact /\ StatusIsExact

\* Asserting or withdrawing the Timer's request keeps the lines what they are.
LEMMA LinesStayLines ==
  ASSUME lines \in [Lines -> Bit], interruptLine \in Bit,
         \/ AssertInterrupt(TimerLine) \/ DeassertInterrupt(TimerLine) \/ UNCHANGED icVars
  PROVE  lines' \in [Lines -> Bit] /\ interruptLine' \in Bit
BY DEF AssertInterrupt, DeassertInterrupt, icVars, Bit

\* Before any period is written, nothing has expired.
LEMMA InitTimerInv == TInit => TimerInv
<1> SUFFICES ASSUME TInit PROVE TimerInv
  OBVIOUS
<1>1. TTypeOK
  BY TimerAssumption, MaxTicksAssumption
     DEF TInit, ICInit, TimerInit, TTypeOK, Words, Bit
<1> QED BY <1>1 DEF TInit, TimerInit, TimerInv, CounterIsExact, StatusIsExact

\* A tick of a running Timer (timer_tick): the counter does not wrap, and reaches
\* the period exactly when one more multiple of it has passed.
LEMMA RunningTick ==
  ASSUME TimerInv, TTick, period # 0
  PROVE  TimerInv'
<1> USE TimerAssumption, MaxTicksAssumption
<1>1. /\ period \in Nat \ {0} /\ elapsed \in Nat /\ ackedAt \in 0..elapsed
      /\ period \in Words /\ counter \in Words /\ status \in Bit
  BY DEF TimerInv, TTypeOK, Words
<1>2. counter = (elapsed % period) /\ counter < period
  BY <1>1, Division DEF TimerInv, CounterIsExact
<1>3. Incremented(counter) = counter + 1
  BY <1>1, <1>2, NoWrap DEF Words
<1>4. (elapsed \div period) \in Nat /\ (ackedAt \div period) \in Nat
  <2>1. ackedAt \in Nat
    BY <1>1
  <2>2. (elapsed \div period) \in Nat
    BY <1>1, Division
  <2>3. (ackedAt \div period) \in Nat
    BY <1>1, <2>1, Division
  <2> QED BY <2>2, <2>3
<1>5. (ackedAt \div period) <= (elapsed \div period)
  BY <1>1, QuotientGrows
<1>6. elapsed' = elapsed + 1 /\ elapsed' \in 0..MaxTicks /\ ackedAt' = ackedAt /\ period' = period
  BY <1>1 DEF TTick, TimerTick, TimerInv, TTypeOK
<1>7. lines' \in [Lines -> Bit] /\ interruptLine' \in Bit
  BY LinesStayLines DEF TTick, TimerTick, TimerInv, TTypeOK
<1>8. CASE counter + 1 < period
  <2>1. counter' = counter + 1 /\ status' = status
    BY <1>1, <1>3, <1>8 DEF TTick, TimerTick, Words
  <2>2. (elapsed' % period') = counter + 1 /\ (elapsed' \div period') = (elapsed \div period)
    BY <1>1, <1>2, <1>6, <1>8, NextTick
  <2>3. TTypeOK'
    BY <1>1, <1>6, <1>7, <1>8, <2>1 DEF TTypeOK, Words
  <2>4. CounterIsExact'
    BY <2>1, <2>2 DEF CounterIsExact
  <2>5. StatusIsExact'
    BY <1>6, <2>1, <2>2 DEF StatusIsExact, TimerInv
  <2> QED BY <2>3, <2>4, <2>5 DEF TimerInv
<1>9. CASE ~(counter + 1 < period)
  <2>1. counter' = 0 /\ status' = 1
    BY <1>1, <1>3, <1>9 DEF TTick, TimerTick, Words
  <2>2. (elapsed' % period') = 0 /\ (elapsed' \div period') = (elapsed \div period) + 1
    BY <1>1, <1>2, <1>6, <1>9, NextTick
  <2>3. TTypeOK'
    BY <1>1, <1>6, <1>7, <2>1 DEF TTypeOK, Words, Bit
  <2>4. CounterIsExact'
    BY <2>1, <2>2 DEF CounterIsExact
  <2>5. (elapsed' \div period') > (ackedAt' \div period')
    BY <1>4, <1>5, <1>6, <2>2
  <2>6. StatusIsExact'
    BY <1>1, <1>6, <2>1, <2>5 DEF StatusIsExact
  <2> QED BY <2>3, <2>4, <2>6 DEF TimerInv
<1> QED BY <1>8, <1>9

\* A disabled Timer only gets older.
LEMMA DisabledTick ==
  ASSUME TimerInv, TTick, period = 0
  PROVE  TimerInv'
<1>1. UNCHANGED <<timerVars, icVars>> /\ elapsed' = elapsed + 1 /\ ackedAt' = ackedAt
  BY DEF TTick, TimerTick
<1>2. TTypeOK'
  BY <1>1, MaxTicksAssumption DEF TTick, TimerInv, TTypeOK, timerVars, icVars
<1> QED BY <1>1, <1>2 DEF TimerInv, CounterIsExact, StatusIsExact, timerVars

\* A read (timer_read): an acknowledgement starts the count of multiples anew.
LEMMA ReadKeeps ==
  ASSUME TimerInv, NEW offset, NEW bytes, Read(offset, bytes)
  PROVE  TimerInv'
<1>1. CASE IsAck(offset, bytes)
  <2>1. /\ period' = period /\ counter' = counter /\ status' = 0
        /\ elapsed' = elapsed /\ ackedAt' = elapsed
    BY <1>1 DEF Read, TimerRead
  <2>2. lines' \in [Lines -> Bit] /\ interruptLine' \in Bit
    BY <1>1, LinesStayLines DEF Read, TimerRead, TimerInv, TTypeOK
  <2>3. TTypeOK'
    BY <2>1, <2>2, MaxTicksAssumption DEF TimerInv, TTypeOK, Bit
  <2>4. CounterIsExact'
    BY <2>1 DEF TimerInv, CounterIsExact
  <2>5. StatusIsExact'
    <3>1. CASE period = 0
      BY <3>1, <2>1 DEF StatusIsExact
    <3>2. CASE period # 0
      <4>1. (elapsed \div period) \in Nat
        BY <3>2, TimerAssumption, MaxTicksAssumption, Division DEF TimerInv, TTypeOK, Words
      <4> QED BY <4>1, <2>1 DEF StatusIsExact
    <3> QED BY <3>1, <3>2
  <2> QED BY <2>3, <2>4, <2>5 DEF TimerInv
<1>2. CASE ~IsAck(offset, bytes)
  BY <1>2 DEF Read, TimerRead, TimerInv, TTypeOK, CounterIsExact, StatusIsExact, timerVars, icVars
<1> QED BY <1>1, <1>2

\* A new period (timer_write) starts everything anew.
LEMMA WritePeriodKeeps ==
  ASSUME TimerInv, NEW p \in Words, WritePeriod(p)
  PROVE  TimerInv'
<1> USE TimerAssumption, MaxTicksAssumption
<1>1. /\ period' = p /\ counter' = 0 /\ status' = 0 /\ elapsed' = 0 /\ ackedAt' = 0
      /\ DeassertInterrupt(TimerLine)
  BY DEF WritePeriod, TimerWrite
<1>2. TTypeOK'
  BY <1>1, LinesStayLines DEF TimerInv, TTypeOK, Words, Bit
<1>3. CASE p = 0
  BY <1>1, <1>2, <1>3 DEF TimerInv, CounterIsExact, StatusIsExact
<1>4. CASE p # 0
  <2>1. (0 \div p) = 0 /\ (0 % p) = 0
    BY <1>4, DivisionUnique DEF Words
  <2> QED BY <1>1, <1>2, <2>1 DEF TimerInv, CounterIsExact, StatusIsExact
<1> QED BY <1>3, <1>4

\* Any other write is ignored.
LEMMA WriteElsewhereKeeps ==
  ASSUME TimerInv, NEW offset, NEW data, NEW bytes, WriteElsewhere(offset, data, bytes)
  PROVE  TimerInv'
<1>1. UNCHANGED <<timerVars, icVars, elapsedVars>>
  BY DEF WriteElsewhere, TimerWrite
<1> QED BY <1>1 DEF TimerInv, TTypeOK, CounterIsExact, StatusIsExact, timerVars, icVars, elapsedVars

\* Every step of the Timer preserves the invariant.
LEMMA NextTimerInv == TimerInv /\ [TNext]_timerHistoryVars => TimerInv'
<1> SUFFICES ASSUME TimerInv, [TNext]_timerHistoryVars PROVE TimerInv'
  OBVIOUS
<1>1. CASE TTick
  BY <1>1, RunningTick, DisabledTick
<1>2. CASE \E access \in Accesses : Read(access[1], access[2])
  BY <1>2, ReadKeeps
<1>3. CASE \E p \in Words : WritePeriod(p)
  BY <1>3, WritePeriodKeeps
<1>4. CASE \E access \in Accesses, d \in Words : WriteElsewhere(access[1], d, access[2])
  BY <1>4, WriteElsewhereKeeps
<1>5. CASE UNCHANGED timerHistoryVars
  BY <1>5 DEF timerHistoryVars, TimerInv, TTypeOK, CounterIsExact, StatusIsExact, timerVars, icVars, elapsedVars
<1> QED BY <1>1, <1>2, <1>3, <1>4, <1>5 DEF TNext

\* The invariant holds in every state, for every width of a word.
THEOREM TimerInvariance == TSpec => []TimerInv
<1> QED BY InitTimerInv, NextTimerInv, PTL DEF TSpec

-----------------------------------------------------------------------------
\* The Timer's registers and its history keep their types: the counter is a word
\* and the status one bit.
THEOREM TimerTypeCorrect == TSpec => []TTypeOK
<1>1. TimerInv => TTypeOK
  BY DEF TimerInv
<1> QED BY <1>1, TimerInvariance, PTL

\* The Timer does not drift: it expires at the multiples of its period, however
\* it is read and acknowledged (dlx_timer.c).
THEOREM NoDrift == TSpec => []CounterIsExact
<1>1. TimerInv => CounterIsExact
  BY DEF TimerInv
<1> QED BY <1>1, TimerInvariance, PTL

\* No expiration after an acknowledgement is missed, and none is reported twice.
THEOREM NoExpirationMissed == TSpec => []StatusIsExact
<1>1. TimerInv => StatusIsExact
  BY DEF TimerInv
<1> QED BY <1>1, TimerInvariance, PTL
=============================================================================
