------------------------------ MODULE InputPort ------------------------------
(***************************************************************************)
(* The Input Port (src/src/devices/dlx_input_port.c) and the standard input *)
(* of the host behind it.  The port is a latch of one byte with a           *)
(* level-triggered interrupt line; it polls the host only once every        *)
(* InputCheckInterval + 1 of its ticks, and only while the latch is free.   *)
(***************************************************************************)
EXTENDS InterruptController, Sequences

CONSTANTS
  InputLine,            \* the port's line in the Interrupt Controller
  InputCheckInterval,   \* INPUT_CHECK_INTERVAL, 10 in the source
  Input                 \* the bytes the user will type, in order

Byte == 0..255

ASSUME InputAssumption ==
  /\ InputLine \in Lines
  /\ InputCheckInterval \in Nat
  /\ Input \in Seq(Byte)

VARIABLES
  inReady,       \* 1 while the latch holds an unread byte
  inData,        \* the latch
  inTickCount,   \* ticks since the last poll
  avail,         \* number of bytes of Input the user has typed so far
  taken          \* number of bytes of Input the port has read from the host

inputVars == <<inReady, inData, inTickCount, avail, taken>>

\* What is redirected or typed ahead is there from the start.
InputInit ==
  /\ inReady = 0
  /\ inData = 0
  /\ inTickCount = 0
  /\ avail \in 0..Len(Input)
  /\ taken = 0

\* The user types the next byte.
Type ==
  /\ avail < Len(Input)
  /\ avail' = avail + 1
  /\ UNCHANGED <<inReady, inData, inTickCount, taken>>

\* Mutant: an edge-triggered port, which asks only when it latches a byte.
InputTickReadySilent ==
  /\ inReady = 1
  /\ UNCHANGED <<inputVars, icVars>>

\* The latch is full: the port asks again, at every tick.
InputTickReady ==
  /\ inReady = 1
  /\ AssertInterrupt(InputLine)
  /\ UNCHANGED inputVars

\* The latch is free and it is not yet time to poll.
InputTickWait ==
  /\ inReady = 0
  /\ inTickCount < InputCheckInterval
  /\ inTickCount' = inTickCount + 1
  /\ UNCHANGED <<inReady, inData, avail, taken, icVars>>

\* Time to poll: a typed byte is latched; without one (an empty terminal, or
\* the end of the input, where read() returns 0) nothing but the count changes.
InputTickPoll ==
  /\ inReady = 0
  /\ inTickCount >= InputCheckInterval
  /\ inTickCount' = 0
  /\ \/ /\ taken < avail
        /\ taken' = taken + 1
        /\ inData' = Input[taken + 1]
        /\ inReady' = 1
        /\ AssertInterrupt(InputLine)
     \/ /\ taken = avail
        /\ UNCHANGED <<inReady, inData, taken, icVars>>
  /\ UNCHANGED avail

\* Mutant: a missing return, a full latch does not keep the port from polling.
InputTickFallsThrough ==
  /\ \/ /\ inTickCount < InputCheckInterval
        /\ inTickCount' = inTickCount + 1
        /\ UNCHANGED <<inReady, inData, taken>>
     \/ /\ inTickCount >= InputCheckInterval
        /\ inTickCount' = 0
        /\ IF taken < avail
             THEN inReady' = 1 /\ inData' = Input[taken + 1] /\ taken' = taken + 1
             ELSE UNCHANGED <<inReady, inData, taken>>
  /\ IF inReady' = 1 THEN AssertInterrupt(InputLine) ELSE UNCHANGED icVars
  /\ UNCHANGED avail

InputTick == InputTickReady \/ InputTickWait \/ InputTickPoll

\* A read returns the latch, frees it and withdraws the request.
InputReadValue == inData

\* Mutant: the read restarts the polling interval.
InputReadRestarts ==
  /\ inReady' = 0
  /\ inTickCount' = 0
  /\ DeassertInterrupt(InputLine)
  /\ UNCHANGED <<inData, avail, taken>>

InputRead ==
  /\ inReady' = 0
  /\ DeassertInterrupt(InputLine)
  /\ UNCHANGED <<inData, inTickCount, avail, taken>>
=============================================================================
