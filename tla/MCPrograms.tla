----------------------------- MODULE MCPrograms ------------------------------
(***************************************************************************)
(* Whole programs, assembled and executed by the models:                    *)
(* - the test programs (src/tools/run_tests.sh: strict mode, registers that *)
(*   start at 0), whose input is a redirected file;                         *)
(* - the programs of the guide, with bytes typed at any moment: the one     *)
(*   that prints "Hello" and discards what is typed, and the same with the  *)
(*   handler that echoes it;                                                *)
(* - tests/timer.asm with every period from 1 to 40: its handler executes   *)
(*   15 instructions, the tenth of which acknowledges the Timer, and halts  *)
(*   the third time.                                                        *)
(***************************************************************************)
EXTENDS MCCore, CoreProperties

\* Names and, for the last kind, the period.
TestPrograms  == (DOMAIN TestBinaries) \X {0}
GuidePrograms == {"hello", "echo"} \X {0}
TimerPrograms == {"timer"} \X (1..40)

AllPrograms ==
  [p \in TestPrograms \cup GuidePrograms \cup TimerPrograms |->
     CASE p \in TimerPrograms    -> Binary(TimerProgramOf(p[2]))
       [] p[1] = "hello"         -> Binary(HelloProgram)
       [] p[1] = "echo"          -> Binary(EchoProgram)
       [] OTHER                  -> TestBinaries[p[1]]]

\* tests/interrupt.in, and what is typed to the programs of the guide.
MCTyped == <<65, 113>>

VARIABLES
  saved,     \* the general registers when the last interrupt was taken
  entered,   \* the Timer's counter then
  handled,   \* with the Timer running, instructions executed since then
  shared,    \* and those of the interrupted program since the handler returned
  returns    \* and the handlers that have returned

observed    == <<saved, entered, handled, shared, returns>>
programVars == <<coreVars, observed>>

\* A redirected file is there before the first cycle; only tests/interrupt has
\* one that is not empty.  Other programs start with 1 in every register, so that
\* a handler that spoils one shows.
ProgramsInit ==
  /\ CoreInit
  /\ avail = IF program[1] = "interrupt" THEN Len(Input) ELSE 0
  /\ gpr[1] = IF program \in TestPrograms THEN {} ELSE {0}
  /\ program \notin TestPrograms => garbage = {}
  /\ saved = gpr /\ entered = 0 /\ handled = 0 /\ shared = 0 /\ returns = 0

Stepped   == phase = "exec" /\ phase' = "reset"
Returning == Stepped /\ Decode(ir).name = "RFE"

\* Interrupts are disabled in the handler, and only there once the Timer runs.
Observe ==
  LET trapped == phase = "irq" /\ Interrupted
      count  == IF Stepped /\ period # 0 THEN 1 ELSE 0
  IN /\ saved'   = IF trapped THEN gpr ELSE saved
     /\ entered' = IF trapped THEN counter ELSE entered
     /\ handled' = IF trapped THEN 0 ELSE IF ien = 0 THEN handled + count ELSE handled
     /\ shared'  = IF Returning THEN 0 ELSE IF ien = 1 THEN shared + count ELSE shared
     /\ returns' = IF Returning THEN returns + count ELSE returns

ProgramsNext ==
  /\ \/ CoreThread \/ CoreExited
     \/ program \in GuidePrograms /\ CoreTypes
  /\ Observe

ProgramsSpec == ProgramsInit /\ [][ProgramsNext]_programVars

\* The emulator's thread, whose steps alone move `phase' and `turn', goes on until
\* it has left the loop.
ThreadMoves == phase # "exit" /\ phase' \in Phases /\ turn' \in Devices

FairProgramsSpec == ProgramsSpec /\ WF_<<phase, turn>>(ThreadMoves)

-----------------------------------------------------------------------------
FinalState ==
  [reason |-> execState, cycles |-> cycles, pc |-> pc, sr |-> ien, iar |-> iar, cr |-> cr,
   gpr |-> gpr]

\* Whatever the RAM holds at the start, a test program that is not interrupted
\* by a signal ends in the very state recorded in src/tests/expected, after the
\* same number of cycles: parse, assemble_instr, dlx_load_program, the core,
\* the bus and the devices together.
EndsAsRecorded ==
  (program \in TestPrograms /\ phase = "exit" /\ execState # "SIGNAL") =>
    FinalState = Expected[program[1]]

-----------------------------------------------------------------------------
HelloBytes == <<\h48, \h65, \h6C, \h6C, \h6F, \h0A>>

SentNumbers == [k \in 1..Len(sent) |-> Unsigned(sent[k])]
Printed == SelectSeq(SentNumbers, LAMBDA b : b \in Range(HelloBytes))
Echoed  == SelectSeq(SentNumbers, LAMBDA b : b \notin Range(HelloBytes))

\* The bytes that handlers have read from the Input Port.
Received == SubSeq(Input, 1, taken - inReady)

\* Whenever bytes are typed, what is sent is the greeting, in order and with no
\* byte lost, with the typed bytes in it if the handler echoes them; a machine
\* that halts has sent all of it, and every byte a handler received ("A byte
\* written while the Output Port is busy is lost", docs/guide/Programming.md: an
\* interrupt may fall between the loop on the status and the write).
NothingSentIsLost ==
  program \in GuidePrograms =>
    /\ IsPrefix(Printed, HelloBytes) /\ IsPrefix(Echoed, Input)
    /\ execState = "HALT" =>
         /\ Printed = HelloBytes
         /\ Echoed = IF program[1] = "echo" THEN Received ELSE <<>>

\* When a handler for typed bytes returns, the interrupted program finds every
\* register it may use as it left it, whatever it was interrupted in ("The rest
\* of the program must never use" R26 and R27, docs/guide/Programming.md).
HandlerIsTransparent ==
  [][Returning /\ program[1] # "timer" =>
       /\ \A r \in Registers \ {26, 27} : gpr[r] = saved[r]
       /\ pc' = iar]_programVars

\* Every program halts, or faults, before the limit of cycles, unless a signal
\* ends it: however much is typed and however often the Timer expires, the wait
\* for the Output Port is over some time, and handlers leave the program its
\* turn or end it.
ProgramEnds == <>(execState \in {"HALT", "FAULT", "SIGNAL"})

-----------------------------------------------------------------------------
HandlerLength == 15
AckPlace      == 10

\* The interrupt of the Timer that follows a handler is taken.
TakenAgain == phase = "irq" /\ Interrupted /\ returns > 0

\* The first expiration after the acknowledgement, counted from the tick in which
\* the interrupt was taken, itself `entered' ticks after an expiration; those
\* before it are lost.
NextExpiration == period * ((entered + AckPlace - 1) \div period + 1) - entered

\* Between two interrupts the interrupted program executes exactly the
\* instructions left between the handler's return and the first expiration after
\* the acknowledgement, none if that has passed by then (dlx_timer.c: the status
\* does not count expirations; the interrupt is taken before any instruction
\* when the request is pending at RFE).
ProgramGetsTheRest ==
  TakenAgain =>
    /\ handled = HandlerLength
    /\ shared = IF NextExpiration > HandlerLength THEN NextExpiration - HandlerLength ELSE 0

\* "If `H >= P` a new interrupt is already pending when the handler returns with
\* `RFE`: the CPU enters the handler again immediately and the rest of the program
\* makes no progress" (docs/architecture/Devices.md).
LongHandlerStarves == TakenAgain /\ HandlerLength >= period => shared = 0
=============================================================================
