----------------------------- MODULE TestPrograms ----------------------------
(***************************************************************************)
(* The programs of the test suite (src/tests, with src/lib/devices.inc) and *)
(* of the tutorial, as source lines for the assembler, and the final states *)
(* the test suite expects of them (src/tests/expected).                     *)
(***************************************************************************)
EXTENDS Assembler

\* lib/devices.inc
DevicesInc ==
  <<Text(<<".equ", "ROM_HIGH", N(\h0000)>>), Text(<<".equ", "RAM_HIGH", N(\h4000)>>),
    Text(<<".equ", "STARTUP_CIRCUIT_HIGH", N(\hC000)>>),
    Text(<<".equ", "INPUT_PORT_HIGH", N(\hC004)>>),
    Text(<<".equ", "OUTPUT_PORT_HIGH", N(\hC008)>>),
    Text(<<".equ", "INTERRUPT_CONTROLLER_HIGH", N(\hC00C)>>),
    Text(<<".equ", "POWER_MANAGER_HIGH", N(\hC010)>>), Text(<<".equ", "TIMER_HIGH", N(\hC014)>>)>>

\* full_isa.asm
FullIsaProgram ==
  DevicesInc \o
  <<Text(<<"ADDI", R(31), R(0), N(8)>>), Text(<<"JR", R(31)>>),
    Text(<<"ADDI", R(1), R(0), N(10)>>), Text(<<"ADDI", R(2), R(0), N(\hFFFF)>>),
    Text(<<"ADDUI", R(2), R(0), N(\hFFFF)>>), Text(<<"SUBI", R(3), R(2), N(5)>>),
    Text(<<"SUBUI", R(3), R(2), N(-1)>>), Text(<<"ADDI", R(4), R(0), N(-5)>>),
    Text(<<"ADDI", R(1), R(0), N(\h1)>>), Text(<<"SLLI", R(1), R(1), N(\h4)>>),
    Text(<<"SRLI", R(1), R(1), N(\h2)>>), Text(<<"SRAI", R(1), R(1), N(\h1)>>),
    Text(<<"ADDI", R(1), R(0), N(\hFF00)>>), Text(<<"SRAI", R(1), R(1), N(\h4)>>),
    Text(<<"ORI", R(5), R(0), N(\hF0)>>), Text(<<"ANDI", R(5), R(5), N(\h30)>>),
    Text(<<"XORI", R(5), R(5), N(\hFF)>>), Text(<<"ADDI", R(1), R(0), N(0)>>),
    Text(<<"BNEZ", R(1), S("IMPOSSIBLE_BRANCH")>>), Text(<<"BEQZ", R(1), S("ALLWAYS_BRANCH")>>),
    Label("IMPOSSIBLE_BRANCH"), Text(<<"ADDI", R(1), R(0), N(\hFFFF)>>),
    Label("BACK_BRANCH"), Text(<<"ADDI", R(1), R(0), N(\h1)>>),
    Label("ALLWAYS_BRANCH"), Text(<<"BEQZ", R(1), S("BACK_BRANCH")>>),
    Text(<<"ADDI", R(1), R(0), N(15)>>), Text(<<"ADDI", R(2), R(0), N(7)>>),
    Text(<<"ADD", R(3), R(1), R(2)>>), Text(<<"SUB", R(3), R(1), R(2)>>),
    Text(<<"AND", R(3), R(1), R(2)>>), Text(<<"OR", R(3), R(1), R(2)>>),
    Text(<<"XOR", R(3), R(1), R(2)>>), Text(<<"ADDI", R(1), R(0), N(\h10)>>),
    Text(<<"ADDI", R(11), R(0), N(4)>>), Text(<<"SLL", R(12), R(1), R(11)>>),
    Text(<<"SRL", R(12), R(1), R(11)>>), Text(<<"ADDI", R(1), R(0), N(\hFF00)>>),
    Text(<<"SRA", R(12), R(1), R(11)>>), Text(<<"ADDI", R(4), R(0), N(-5)>>),
    Text(<<"ADDI", R(1), R(0), N(10)>>), Text(<<"SLTI", R(20), R(4), N(0)>>),
    Text(<<"SLEI", R(20), R(4), N(0)>>), Text(<<"SGTI", R(20), R(4), N(0)>>),
    Text(<<"SGEI", R(20), R(4), N(0)>>), Text(<<"SEQI", R(20), R(1), N(10)>>),
    Text(<<"SNEI", R(20), R(1), N(10)>>), Text(<<"SLT", R(21), R(4), R(1)>>),
    Text(<<"SLE", R(21), R(4), R(1)>>), Text(<<"SGT", R(21), R(1), R(4)>>),
    Text(<<"SGE", R(21), R(1), R(4)>>), Text(<<"SEQ", R(21), R(1), R(1)>>),
    Text(<<"SNE", R(21), R(1), R(4)>>), Text(<<"LHI", R(10), S("RAM_HIGH")>>),
    Text(<<"ADDUI", R(1), R(0), N(\h800A)>>), Text(<<"ADDI", R(5), R(0), N(\h00CF)>>),
    Text(<<"SW", R(1), N(0), R(10)>>), Text(<<"SH", R(1), N(4), R(10)>>),
    Text(<<"SB", R(5), N(8), R(10)>>), Text(<<"LW", R(22), N(0), R(10)>>),
    Text(<<"LHU", R(23), N(4), R(10)>>), Text(<<"LH", R(24), N(4), R(10)>>),
    Text(<<"LBU", R(25), N(8), R(10)>>), Text(<<"LB", R(26), N(8), R(10)>>),
    Text(<<"ADDI", R(28), R(0), N(1)>>), Text(<<"MOVI2S", Spr(0), R(28)>>),
    Text(<<"MOVS2I", R(29), Spr(0)>>), Text(<<"ADDI", R(1), R(0), N(4)>>),
    Text(<<"JALR", R(1)>>), Text(<<"J", S("JUMP_TARGET")>>), Text(<<"ADDI", R(0), R(0), N(0)>>),
    Label("JUMP_TARGET"), Text(<<"JAL", S("FUNC_CALL")>>), Text(<<"J", S("END_TEST")>>),
    Label("FUNC_CALL"), Text(<<"ADDI", R(27), R(0), N(1)>>), Text(<<"JR", R(31)>>),
    Label("END_TEST"), Text(<<"ADDI", R(30), R(0), N(\hABC)>>), Text(<<"INT", N(\hF2)>>)>>

\* startup_circuit.asm
StartupProgram ==
  DevicesInc \o
  <<Text(<<"LHI", R(1), S("STARTUP_CIRCUIT_HIGH")>>), Text(<<"LB", R(2), N(\h0000), R(1)>>),
    Text(<<"ADDI", R(3), R(0), N(\h8988)>>), Text(<<"SB", R(3), N(\h0000), R(1)>>),
    Text(<<"LB", R(2), N(\h0000), R(1)>>), Text(<<"INT", N(\hF2)>>)>>

\* mov_special.asm
MovSpecialProgram ==
  <<Text(<<"ADDUI", R(3), R(0), N(\hFFFF)>>), Text(<<"ADDUI", R(5), R(0), N(\hFFFF)>>),
    Text(<<"ADDUI", R(1), R(0), N(\h65)>>), Text(<<"MOVI2S", Spr(0), R(1)>>),
    Text(<<"MOVS2I", R(2), Spr(0)>>), Text(<<"ADDUI", R(1), R(0), N(\h64)>>),
    Text(<<"MOVI2S", Spr(0), R(1)>>), Text(<<"MOVS2I", R(3), Spr(0)>>),
    Text(<<"MOVI2S", Spr(1), R(1)>>), Text(<<"MOVS2I", R(4), Spr(1)>>),
    Text(<<"MOVI2S", Spr(2), R(1)>>), Text(<<"MOVS2I", R(5), Spr(2)>>), Text(<<"INT", N(\hF2)>>)>>

\* timer.asm, with another period than the 50 of the source.
TimerProgramOf(ticks) ==
  DevicesInc \o
  <<Text(<<"LHI", R(26), S("STARTUP_CIRCUIT_HIGH")>>), Text(<<"LB", R(27), N(\h0000), R(26)>>),
    Text(<<"BEQZ", R(27), S("HANDLE_INTERRUPT")>>),
    Label("HANDLE_STARTUP"), Text(<<"LHI", R(26), S("STARTUP_CIRCUIT_HIGH")>>),
    Text(<<"SB", R(0), N(\h0000), R(26)>>), Text(<<"ADDI", R(27), R(0), N(1)>>),
    Text(<<"MOVI2S", Spr(0), R(27)>>), Text(<<"ADD", R(1), R(0), R(0)>>),
    Text(<<"ADD", R(2), R(0), R(0)>>), Text(<<"ADDI", R(27), R(0), N(ticks)>>),
    Text(<<"LHI", R(26), S("TIMER_HIGH")>>), Text(<<"SW", R(27), N(\h0000), R(26)>>),
    Text(<<"J", S("MAIN")>>),
    Label("HANDLE_INTERRUPT"), Text(<<"LHI", R(26), S("INTERRUPT_CONTROLLER_HIGH")>>),
    Text(<<"LB", R(27), N(\h0000), R(26)>>), Text(<<"SUBUI", R(27), R(27), N(1)>>),
    Text(<<"BEQZ", R(27), S("HANDLE_TIMER")>>), Text(<<"J", S("FAIL")>>),
    Label("HANDLE_TIMER"), Text(<<"ADDUI", R(2), R(2), N(1)>>),
    Text(<<"LHI", R(26), S("TIMER_HIGH")>>), Text(<<"LW", R(27), N(\h0004), R(26)>>),
    Text(<<"SUBUI", R(27), R(27), N(1)>>), Text(<<"BNEZ", R(27), S("FAIL")>>),
    Text(<<"SUBUI", R(27), R(2), N(3)>>), Text(<<"BEQZ", R(27), S("EXIT")>>),
    Label("EXIT_INTERRUPT_HANDLER"), Text(<<"RFE">>),
    Label("MAIN"), Text(<<"ADDUI", R(1), R(1), N(1)>>), Text(<<"J", S("MAIN")>>),
    Label("EXIT"), Text(<<"INT", N(\hF2)>>),
    Label("FAIL"), Text(<<"INT", N(\hFF)>>)>>

TimerProgram == TimerProgramOf(50)

\* interrupt.asm
InterruptProgram ==
  DevicesInc \o
  <<Text(<<"LHI", R(26), S("STARTUP_CIRCUIT_HIGH")>>), Text(<<"LB", R(27), N(\h0000), R(26)>>),
    Text(<<"BEQZ", R(27), S("HANDLE_INTERRUPT")>>),
    Label("HANDLE_STARTUP"), Text(<<"LHI", R(29), N(\h401F)>>),
    Text(<<"ADDUI", R(29), R(29), N(\hFFFC)>>),
    Text(<<"LHI", R(26), S("STARTUP_CIRCUIT_HIGH")>>), Text(<<"SB", R(0), N(\h0000), R(26)>>),
    Text(<<"ADDI", R(27), R(0), N(1)>>), Text(<<"MOVI2S", Spr(0), R(27)>>),
    Text(<<"J", S("MAIN")>>),
    Label("HANDLE_INTERRUPT"), Text(<<"SUBI", R(29), R(29), N(16)>>),
    Text(<<"SW", R(1), N(0), R(29)>>), Text(<<"SW", R(2), N(4), R(29)>>),
    Text(<<"SW", R(3), N(8), R(29)>>), Text(<<"SW", R(31), N(12), R(29)>>),
    Text(<<"LHI", R(1), S("INTERRUPT_CONTROLLER_HIGH")>>), Text(<<"LB", R(2), N(\h0000), R(1)>>),
    Text(<<"BEQZ", R(2), S("HANDLE_INPUT_PORT")>>), Text(<<"J", S("EXIT_INTERRUPT_HANDLER")>>),
    Label("HANDLE_INPUT_PORT"), Text(<<"LHI", R(1), S("INPUT_PORT_HIGH")>>),
    Text(<<"LBU", R(3), N(\h0000), R(1)>>), Text(<<"SUBI", R(2), R(3), N(\h71)>>),
    Text(<<"BEQZ", R(2), S("PROC_EXIT")>>), Text(<<"JAL", S("PROC_OUTPUT")>>),
    Text(<<"J", S("EXIT_INTERRUPT_HANDLER")>>),
    Label("EXIT_INTERRUPT_HANDLER"), Text(<<"LW", R(31), N(12), R(29)>>),
    Text(<<"LW", R(3), N(8), R(29)>>), Text(<<"LW", R(2), N(4), R(29)>>),
    Text(<<"LW", R(1), N(0), R(29)>>), Text(<<"ADDI", R(29), R(29), N(16)>>), Text(<<"RFE">>),
    Label("PROC_OUTPUT"), Text(<<"SUBI", R(29), R(29), N(8)>>),
    Text(<<"SW", R(1), N(0), R(29)>>), Text(<<"SW", R(2), N(4), R(29)>>),
    Text(<<"LHI", R(1), S("OUTPUT_PORT_HIGH")>>),
    Label("CHECK_PORT_STATUS"), Text(<<"LB", R(2), N(\h0000), R(1)>>),
    Text(<<"BEQZ", R(2), S("CHECK_PORT_STATUS")>>), Text(<<"SB", R(3), N(\h0000), R(1)>>),
    Text(<<"LW", R(2), N(4), R(29)>>), Text(<<"LW", R(1), N(0), R(29)>>),
    Text(<<"ADDI", R(29), R(29), N(8)>>), Text(<<"JR", R(31)>>),
    Label("PROC_EXIT"), Text(<<"LHI", R(26), S("POWER_MANAGER_HIGH")>>),
    Text(<<"SB", R(0), N(\h0000), R(26)>>),
    Label("MAIN"), Text(<<"ADDI", R(3), R(0), N(\h21)>>),
    Label("MAIN_LOOP"), Text(<<"JAL", S("PROC_OUTPUT")>>), Text(<<"ADDI", R(3), R(3), N(1)>>),
    Text(<<"SUBI", R(4), R(3), N(\h7F)>>), Text(<<"BEQZ", R(4), S("MAIN")>>),
    Text(<<"J", S("MAIN_LOOP")>>)>>

-----------------------------------------------------------------------------
\* The programs that must fault: what they execute is wrong in one way each.
FaultPrograms ==
  [unaligned          |-> <<Text(<<"ADDI", R(1), R(0), N(1)>>), Text(<<"LW", R(2), N(0), R(1)>>)>>,
   rom_write          |-> <<Text(<<"SW", R(0), N(0), R(0)>>)>>,
   unmapped           |-> <<Text(<<"LHI", R(1), N(\h2000)>>), Text(<<"LW", R(2), N(0), R(1)>>)>>,
   unknown_int        |-> <<Text(<<"INT", N(\h07)>>)>>,
   int_while_disabled |-> <<Text(<<"INT", N(\h80)>>)>>,
   unknown_debug_int  |-> <<Text(<<"INT", N(\hF3)>>)>>]

\* A word from its two halves.
Halves(high, low) == Place(Pattern(high, 16), 16) \cup Pattern(low, 16)

\* The words the assembler cannot emit.
ReservedPrograms ==
  [unknown_opcode |-> <<Halves(\h7C00, 0)>>,
   unknown_func   |-> <<Halves(0, \h3F)>>,
   reserved_spr   |-> <<Halves(0, \h1830)>>]

TestSources ==
  [full_isa |-> FullIsaProgram, startup_circuit |-> StartupProgram,
   mov_special |-> MovSpecialProgram, interrupt |-> InterruptProgram,
   timer |-> TimerProgram] @@ FaultPrograms

TestBinaries == [name \in DOMAIN TestSources |-> Binary(TestSources[name])] @@ ReservedPrograms

-----------------------------------------------------------------------------
\* The snapshots in src/tests/expected.  Registers not named are 0.

Snapshot(reason, cycles, pc, sr, iar, named) ==
  [reason |-> reason, cycles |-> cycles, pc |-> pc, sr |-> sr, iar |-> iar, cr |-> 0,
   gpr |-> [r \in 0..31 |-> IF r \in DOMAIN named THEN named[r] ELSE {}]]

Low(v) == Halves(0, v)

Fault(cycles, named) == Snapshot("FAULT", cycles, 4 * cycles, 0, 0, named)

Expected ==
  [full_isa |-> Snapshot("HALT", 74, \h128, 1, 0,
     1 :> Low(4) @@ 2 :> Low(7) @@ 3 :> Low(8) @@ 4 :> Halves(\hFFFF, \hFFFB) @@
     5 :> Low(\hCF) @@ 10 :> Halves(\h4000, 0) @@ 11 :> Low(4) @@
     12 :> Halves(\hFFFF, \hFFF0) @@ 21 :> Low(1) @@ 22 :> Low(\h800A) @@
     23 :> Low(\h800A) @@ 24 :> Halves(\hFFFF, \h800A) @@ 25 :> Low(\hCF) @@
     26 :> Halves(\hFFFF, \hFFCF) @@ 27 :> Low(1) @@ 28 :> Low(1) @@ 29 :> Low(1) @@
     30 :> Low(\hABC) @@ 31 :> Low(\h114)),
   startup_circuit |-> Snapshot("HALT", 6, \h18, 0, 0,
     1 :> Halves(\hC000, 0) @@ 3 :> Halves(\hFFFF, \h8988)),
   mov_special |-> Snapshot("HALT", 13, \h34, 0, \h64,
     1 :> Low(\h64) @@ 2 :> Low(1) @@ 4 :> Low(\h64)),
   interrupt |-> Snapshot("HALT", 61, \hB0, 0, \hB0,
     1 :> Halves(\hC004, 0) @@ 3 :> Low(\h71) @@ 26 :> Halves(\hC010, 0) @@
     29 :> Halves(\h401F, \hFFEC)),
   timer |-> Snapshot("HALT", 176, \h74, 0, \h68,
     1 :> Low(\h3B) @@ 2 :> Low(3) @@ 26 :> Halves(\hC014, 0)),
   unaligned |-> Fault(2, 1 :> Low(1)),
   unmapped  |-> Fault(2, 1 :> Halves(\h2000, 0))]
  @@ [name \in DOMAIN FaultPrograms \cup DOMAIN ReservedPrograms |-> Fault(1, <<>>)]

-----------------------------------------------------------------------------
\* The pieces of docs/guide/First-Program.md and docs/guide/Programming.md: the
\* code at address 0, the two handlers, the procedure that writes the byte in R1,
\* and the program that prints "Hello".
StartCode ==
  <<Text(<<"LHI", R(26), N(\hC000)>>), Text(<<"LB", R(27), N(0), R(26)>>),
    Text(<<"BEQZ", R(27), S("HANDLER")>>), Text(<<"SB", R(0), N(0), R(26)>>),
    Text(<<"LHI", R(29), N(\h401F)>>), Text(<<"ORI", R(29), R(29), N(\hFFFC)>>),
    Text(<<"ADDI", R(27), R(0), N(1)>>), Text(<<"MOVI2S", Spr(0), R(27)>>),
    Text(<<"J", S("MAIN")>>)>>

DiscardingHandler ==
  <<Label("HANDLER"), Text(<<"LHI", R(26), N(\hC004)>>), Text(<<"LBU", R(27), N(0), R(26)>>),
    Text(<<"RFE">>)>>

EchoingHandler ==
  <<Label("HANDLER"), Text(<<"SUBI", R(29), R(29), N(8)>>), Text(<<"SW", R(1), N(0), R(29)>>),
    Text(<<"SW", R(31), N(4), R(29)>>), Text(<<"LHI", R(26), N(\hC00C)>>),
    Text(<<"LB", R(27), N(0), R(26)>>), Text(<<"BNEZ", R(27), S("HANDLER_END")>>),
    Text(<<"LHI", R(26), N(\hC004)>>), Text(<<"LBU", R(1), N(0), R(26)>>),
    Text(<<"JAL", S("PUTCHAR")>>),
    Label("HANDLER_END"), Text(<<"LW", R(31), N(4), R(29)>>), Text(<<"LW", R(1), N(0), R(29)>>),
    Text(<<"ADDI", R(29), R(29), N(8)>>), Text(<<"RFE">>)>>

PutChar ==
  <<Label("PUTCHAR"), Text(<<"SUBI", R(29), R(29), N(8)>>), Text(<<"SW", R(2), N(0), R(29)>>),
    Text(<<"SW", R(3), N(4), R(29)>>), Text(<<"LHI", R(2), N(\hC008)>>),
    Label("PUTCHAR_WAIT"), Text(<<"LBU", R(3), N(0), R(2)>>),
    Text(<<"BEQZ", R(3), S("PUTCHAR_WAIT")>>), Text(<<"SB", R(1), N(0), R(2)>>),
    Text(<<"LW", R(3), N(4), R(29)>>), Text(<<"LW", R(2), N(0), R(29)>>),
    Text(<<"ADDI", R(29), R(29), N(8)>>), Text(<<"JR", R(31)>>)>>

PrintHello ==
  <<Label("MAIN"), Text(<<"ADDI", R(1), R(0), N(\h48)>>), Text(<<"JAL", S("PUTCHAR")>>),
    Text(<<"ADDI", R(1), R(0), N(\h65)>>), Text(<<"JAL", S("PUTCHAR")>>),
    Text(<<"ADDI", R(1), R(0), N(\h6C)>>), Text(<<"JAL", S("PUTCHAR")>>),
    Text(<<"JAL", S("PUTCHAR")>>), Text(<<"ADDI", R(1), R(0), N(\h6F)>>),
    Text(<<"JAL", S("PUTCHAR")>>), Text(<<"ADDI", R(1), R(0), N(\h0A)>>),
    Text(<<"JAL", S("PUTCHAR")>>), Text(<<"LHI", R(2), N(\hC010)>>),
    Text(<<"SB", R(0), N(0), R(2)>>)>>

HelloProgram == StartCode \o DiscardingHandler \o PutChar \o PrintHello
EchoProgram  == StartCode \o EchoingHandler \o PutChar \o PrintHello
=============================================================================
