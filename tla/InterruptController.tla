------------------------- MODULE InterruptController -------------------------
(***************************************************************************)
(* The Interrupt Controller (src/src/devices/dlx_ic.c): it collects the     *)
(* interrupt lines of the devices and drives the single interrupt line of   *)
(* the CPU.  The module offers the controller's variables and the           *)
(* operations other modules compose into steps; it has no Next of its own.  *)
(***************************************************************************)
EXTENDS Naturals

CONSTANT LineCount   \* devices_size, the number of lines wired to the controller

\* The value a read returns when no line is asserted: the constant 0xF.
NoLine == 15

\* dlx_ic_create refuses more than DLX_MAX_DEVICES = 15 lines, so that no
\* line index is the reserved code NoLine.
ASSUME LineCountAssumption == LineCount \in 1..NoLine

VARIABLES
  lines,           \* lines[i] = 1: device i's line is asserted in the controller
  interruptLine    \* state->interrupt_line, the CPU's own line

icVars == <<lines, interruptLine>>

Bit == {0, 1}
Lines == 0..(LineCount - 1)

ICInit ==
  /\ lines = [i \in Lines |-> 0]
  /\ interruptLine = 0

\* Mutant: the request waits for the controller's own tick.
AssertInterruptLate(i) ==
  /\ lines' = [lines EXCEPT ![i] = 1]
  /\ UNCHANGED interruptLine

\* A device asserts its line: the controller latches the line and propagates
\* the request to the CPU in the same call.
AssertInterrupt(i) ==
  /\ lines' = [lines EXCEPT ![i] = 1]
  /\ interruptLine' = 1

\* A device withdraws its request.  The CPU's line is left as it is: only the
\* end of the cycle resets it.
DeassertInterrupt(i) ==
  /\ lines' = [lines EXCEPT ![i] = 0]
  /\ UNCHANGED interruptLine

\* The controller's tick: its output is level-triggered.
ICTick ==
  /\ interruptLine' = IF \E i \in Lines : lines[i] = 1 THEN 1 ELSE interruptLine
  /\ UNCHANGED lines

\* The asserted lines, and what a read of the controller returns: the lowest
\* asserted line (the highest priority) or NoLine.
Asserted == {i \in Lines : lines[i] = 1}

\* Mutant: the highest asserted line is reported first.
ICReadValueHighest ==
  IF Asserted = {} THEN NoLine
  ELSE CHOOSE i \in Asserted : \A j \in Asserted : i >= j

ICReadValue ==
  IF Asserted = {} THEN NoLine
  ELSE CHOOSE i \in Asserted : \A j \in Asserted : i <= j

\* A read of the controller clears, in the controller only, the line it reports.
ICRead ==
  /\ lines' = IF Asserted = {} THEN lines ELSE [lines EXCEPT ![ICReadValue] = 0]
  /\ UNCHANGED interruptLine
=============================================================================
