----------------------------- MODULE OutputPort ------------------------------
(***************************************************************************)
(* The Output Port (src/src/devices/dlx_output_port.c): a write sends a     *)
(* byte and makes the port busy for OutputPortDelay ticks; a write to a     *)
(* busy port is lost.  It has no interrupt line.                            *)
(***************************************************************************)
EXTENDS Naturals

CONSTANT OutputPortDelay   \* OUTPUT_PORT_DELAY, 3 in the source

\* The countdown is a uint8_t and the tick decrements before it compares, so a
\* delay of 0 would wrap to 255.
ASSUME OutputAssumption == OutputPortDelay \in 1..255

VARIABLES
  outReady,   \* 1 = ready, 0 = busy
  outDelay    \* ticks left, a uint8_t

outputVars == <<outReady, outDelay>>

OutputInit ==
  /\ outReady = 1
  /\ outDelay = 0

\* --delay on a uint8_t.
Decremented(d) == (d + 255) % 256

OutputTick ==
  \/ /\ outReady = 1
     /\ UNCHANGED outputVars
  \/ /\ outReady = 0
     /\ outDelay' = Decremented(outDelay)
     /\ outReady' = IF Decremented(outDelay) = 0 THEN 1 ELSE 0

OutputReadValue == outReady

\* Mutant: a write to a busy port is lost but starts the countdown again.
OutputWriteRestarts ==
  /\ outReady' = 0
  /\ outDelay' = OutputPortDelay

OutputWrite ==
  \/ /\ outReady = 0
     /\ UNCHANGED outputVars
  \/ /\ outReady = 1
     /\ outReady' = 0
     /\ outDelay' = OutputPortDelay
=============================================================================
