-------------------------------- MODULE Timer --------------------------------
(***************************************************************************)
(* The Timer (src/src/devices/dlx_timer.c): a programmable period, a free   *)
(* running counter and a status bit that is also a level-triggered          *)
(* interrupt request until the program acknowledges it.                     *)
(***************************************************************************)
EXTENDS InterruptController

CONSTANTS
  TimerLine,   \* the timer's line in the Interrupt Controller
  WordSize     \* number of values of a machine word, 2^32 in the source

ASSUME TimerAssumption ==
  /\ TimerLine \in Lines
  /\ WordSize \in Nat \ {0}

VARIABLES
  period,    \* 0 = disabled
  counter,
  status     \* 1 = expired and not acknowledged

timerVars == <<period, counter, status>>

Words == 0..(WordSize - 1)

TimerInit ==
  /\ period = 0
  /\ counter = 0
  /\ status = 0

\* counter++ on a uint32_t.
Incremented(c) == (c + 1) % WordSize

\* Mutant: the counter has to pass the period.
TimerTickLate ==
  \/ /\ period = 0
     /\ UNCHANGED <<timerVars, icVars>>
  \/ /\ period # 0
     /\ IF Incremented(counter) > period
          THEN counter' = 0 /\ status' = 1
          ELSE counter' = Incremented(counter) /\ UNCHANGED status
     /\ IF status' = 1 THEN AssertInterrupt(TimerLine) ELSE UNCHANGED icVars
     /\ UNCHANGED period

TimerTick ==
  \/ /\ period = 0
     /\ UNCHANGED <<timerVars, icVars>>
  \/ /\ period # 0
     /\ IF Incremented(counter) >= period
          THEN counter' = 0 /\ status' = 1
          ELSE counter' = Incremented(counter) /\ UNCHANGED status
     /\ IF status' = 1 THEN AssertInterrupt(TimerLine) ELSE UNCHANGED icVars
     /\ UNCHANGED period

\* The status register answers a load of any width at its own bytes.
IsAck(offset, bytes) == <<offset, bytes>> \in {<<4, 4>>, <<6, 2>>, <<7, 1>>}

TimerReadValue(offset, bytes) ==
  IF offset = 0 /\ bytes = 4 THEN period
  ELSE IF IsAck(offset, bytes) THEN status
  ELSE 0

\* Mutant: the acknowledgement restarts the counter.
TimerReadRestarts(offset, bytes) ==
  \/ /\ IsAck(offset, bytes)
     /\ status' = 0 /\ counter' = 0
     /\ DeassertInterrupt(TimerLine)
     /\ UNCHANGED period
  \/ /\ ~IsAck(offset, bytes)
     /\ UNCHANGED <<timerVars, icVars>>

\* A read of the status acknowledges the request; any other read changes nothing.
TimerRead(offset, bytes) ==
  \/ /\ IsAck(offset, bytes)
     /\ status' = 0
     /\ DeassertInterrupt(TimerLine)
     /\ UNCHANGED <<period, counter>>
  \/ /\ ~IsAck(offset, bytes)
     /\ UNCHANGED <<timerVars, icVars>>

\* Mutant: a new period does not restart the counter.
TimerWriteKeepsCounter(offset, data, bytes) ==
  \/ /\ offset = 0 /\ bytes = 4
     /\ period' = data
     /\ status' = 0
     /\ DeassertInterrupt(TimerLine)
     /\ UNCHANGED counter
  \/ /\ ~(offset = 0 /\ bytes = 4)
     /\ UNCHANGED <<timerVars, icVars>>

\* Mutant: a new period does not withdraw the old request.
TimerWriteKeepsStatus(offset, data, bytes) ==
  \/ /\ offset = 0 /\ bytes = 4
     /\ period' = data
     /\ counter' = 0
     /\ UNCHANGED <<status, icVars>>
  \/ /\ ~(offset = 0 /\ bytes = 4)
     /\ UNCHANGED <<timerVars, icVars>>

\* Only a word write at offset 0 is accepted; any other write is ignored.
TimerWrite(offset, data, bytes) ==
  \/ /\ offset = 0 /\ bytes = 4
     /\ period' = data
     /\ counter' = 0
     /\ status' = 0
     /\ DeassertInterrupt(TimerLine)
  \/ /\ ~(offset = 0 /\ bytes = 4)
     /\ UNCHANGED <<timerVars, icVars>>
=============================================================================
