---------------------------- MODULE TimerHistory -----------------------------
(***************************************************************************)
(* The Timer alone, with one tick per cycle and a program that reads and    *)
(* writes its registers as it likes, beside history variables that say when *)
(* it should have expired.                                                  *)
(***************************************************************************)
EXTENDS Timer

CONSTANT MaxTicks   \* bound on the ticks between two writes of the period

ASSUME MaxTicksAssumption == MaxTicks \in Nat

VARIABLES
  elapsed,   \* ticks since the period was last written
  ackedAt    \* value of elapsed at the last acknowledgement, 0 before

elapsedVars      == <<elapsed, ackedAt>>
timerHistoryVars == <<timerVars, icVars, elapsedVars>>

TInit ==
  /\ ICInit /\ TimerInit
  /\ elapsed = 0 /\ ackedAt = 0

TTick ==
  /\ elapsed < MaxTicks
  /\ TimerTick
  /\ elapsed' = elapsed + 1
  /\ UNCHANGED ackedAt

Read(offset, bytes) ==
  /\ TimerRead(offset, bytes)
  /\ ackedAt' = IF IsAck(offset, bytes) THEN elapsed ELSE ackedAt
  /\ UNCHANGED elapsed

WritePeriod(p) ==
  /\ TimerWrite(0, p, 4)
  /\ elapsed' = 0 /\ ackedAt' = 0

WriteElsewhere(offset, data, bytes) ==
  /\ <<offset, bytes>> # <<0, 4>>
  /\ TimerWrite(offset, data, bytes)
  /\ UNCHANGED elapsedVars

\* The aligned accesses the bus lets through.
Accesses == {access \in (0..7) \X {1, 2, 4} : access[1] % access[2] = 0}

TNext ==
  \/ TTick
  \/ \E access \in Accesses : Read(access[1], access[2])
  \/ \E p \in Words : WritePeriod(p)
  \/ \E access \in Accesses, d \in Words : WriteElsewhere(access[1], d, access[2])

TSpec == TInit /\ [][TNext]_timerHistoryVars

-----------------------------------------------------------------------------
\* Types: the status is one bit, however many expirations it stands for, and
\* the counter a word.
TTypeOK ==
  /\ lines \in [Lines -> Bit] /\ interruptLine \in Bit
  /\ period \in Words /\ counter \in Words /\ status \in Bit
  /\ elapsed \in 0..MaxTicks /\ ackedAt \in 0..elapsed

\* The timer expires exactly at the multiples of the period counted from the
\* write that set it, however late it is acknowledged: nothing drifts, and the
\* counter does not wrap even with the longest period.
CounterIsExact == period # 0 => counter = elapsed % period

\* The status is up exactly when a multiple of the period has passed since the
\* last acknowledgement: no expiration after an acknowledgement is missed, and
\* several before it count as one.
StatusIsExact ==
  (status = 1) <=> (period # 0 /\ elapsed \div period > ackedAt \div period)
=============================================================================
