--------------------------- MODULE InstructionSet ----------------------------
(***************************************************************************)
(* The instruction set as the core executes it: the encodings of            *)
(* src/include/dlx_isa.h, decode() and what execute() in                    *)
(* src/src/cpu_seq/dlx_seq_core.c computes into a general register.  What   *)
(* an instruction does to memory, devices and control is in module Core.    *)
(***************************************************************************)
EXTENDS BitWords

\* An immediate fills the lower half of a word: 16 bits.
HalfBits == WordBits \div 2

\* The I_... constants.
RTypeCode == 0

OpcodeTable ==
  [BEQZ |-> 4, BNEZ |-> 5, ADDI |-> 8, ADDUI |-> 9, SUBI |-> 10, SUBUI |-> 11,
   ANDI |-> 12, ORI |-> 13, XORI |-> 14, LHI |-> 15, JR |-> 18, JALR |-> 19,
   SLLI |-> 20, SRLI |-> 22, SRAI |-> 23, SGTI |-> 25, SEQI |-> 26, SGEI |-> 27,
   SLTI |-> 28, SNEI |-> 29, SLEI |-> 30, LB |-> 32, LH |-> 33, LW |-> 35, LBU |-> 36,
   LHU |-> 37, SB |-> 40, SH |-> 41, SW |-> 43, J |-> 2, JAL |-> 3, RFE |-> 63, INT |-> 57]

\* The I_..._FUNC constants.
FuncTable ==
  [SLL |-> 4, SRL |-> 6, SRA |-> 7, ADD |-> 32, SUB |-> 34, AND |-> 36, OR |-> 37,
   XOR |-> 38, SGT |-> 41, SEQ |-> 42, SGE |-> 43, SLT |-> 44, SNE |-> 45, SLE |-> 46,
   MOVI2S |-> 48, MOVS2I |-> 49]

Reserved == "reserved"   \* an opcode or a function code nobody assigned

Named(table, code) ==
  IF \E m \in DOMAIN table : table[m] = code
    THEN CHOOSE m \in DOMAIN table : table[m] = code
    ELSE Reserved

\* The two switches of execute().
NameOf(w) ==
  LET opcode == Unsigned(Field(w, 26, 6))
  IN IF opcode = RTypeCode THEN Named(FuncTable, Unsigned(Field(w, 0, 6)))
                           ELSE Named(OpcodeTable, opcode)

\* The sign-extended immediates of decoded_instruction are computed where they
\* are used.
Decode(w) ==
  [name |-> NameOf(w),
   ra |-> Unsigned(Field(w, 21, 5)), rb |-> Unsigned(Field(w, 16, 5)),
   rc |-> Unsigned(Field(w, 11, 5)),
   imm16 |-> Field(w, 0, 16), imm26 |-> Field(w, 0, 26)]

-----------------------------------------------------------------------------
\* Results.

Truth(b) == IF b THEN {0} ELSE {}

\* Mutant: a right shift does not keep the sign.
AluLogical(name, a, b) ==
  CASE name = "ADD" -> Plus(a, b)
    [] name = "SUB" -> Minus(a, b)
    [] name = "AND" -> a \cap b
    [] name = "OR"  -> a \cup b
    [] name = "XOR" -> SymDiff(a, b)
    [] name = "SLL" -> ShiftLeft(a, ShiftAmount(b))
    [] name \in {"SRL", "SRA"} -> ShiftRight(a, ShiftAmount(b))
    [] name = "SLT" -> Truth(Below(a, b))
    [] name = "SLE" -> Truth(~Below(b, a))
    [] name = "SGT" -> Truth(Below(b, a))
    [] name = "SGE" -> Truth(~Below(a, b))
    [] name = "SEQ" -> Truth(a = b)
    [] name = "SNE" -> Truth(a # b)

\* The R-type operations on two words.
Alu(name, a, b) ==
  CASE name = "ADD" -> Plus(a, b)
    [] name = "SUB" -> Minus(a, b)
    [] name = "AND" -> a \cap b
    [] name = "OR"  -> a \cup b
    [] name = "XOR" -> SymDiff(a, b)
    [] name = "SLL" -> ShiftLeft(a, ShiftAmount(b))
    [] name = "SRL" -> ShiftRight(a, ShiftAmount(b))
    [] name = "SRA" -> ShiftRightSigned(a, ShiftAmount(b))
    [] name = "SLT" -> Truth(Below(a, b))
    [] name = "SLE" -> Truth(~Below(b, a))
    [] name = "SGT" -> Truth(Below(b, a))
    [] name = "SGE" -> Truth(~Below(a, b))
    [] name = "SEQ" -> Truth(a = b)
    [] name = "SNE" -> Truth(a # b)

AluNames == DOMAIN FuncTable \ {"MOVI2S", "MOVS2I"}

\* The operation an immediate instruction shares with an R-type one, and how it
\* widens its immediate.
ImmediateOperation ==
  [ADDI |-> "ADD", ADDUI |-> "ADD", SUBI |-> "SUB", SUBUI |-> "SUB", ANDI |-> "AND",
   ORI |-> "OR", XORI |-> "XOR", SLLI |-> "SLL", SRLI |-> "SRL", SRAI |-> "SRA",
   SLTI |-> "SLT", SLEI |-> "SLE", SGTI |-> "SGT", SGEI |-> "SGE", SEQI |-> "SEQ",
   SNEI |-> "SNE"]

SignedImmediates ==
  {"ADDI", "SUBI", "SLTI", "SLEI", "SGTI", "SGEI", "SEQI", "SNEI"}

ImmediateNames == DOMAIN ImmediateOperation

\* Mutant: every immediate is sign extended.
ImmediateAllSigned(name, imm16) == SignExtend(imm16, HalfBits)

Immediate(name, imm16) ==
  IF name \in SignedImmediates THEN SignExtend(imm16, HalfBits) ELSE imm16

AluImmediate(name, a, imm16) ==
  Alu(ImmediateOperation[name], a, Immediate(name, imm16))

\* LHI: the immediate becomes the upper half.
LoadHigh(imm16) == ShiftLeft(imm16, HalfBits)

\* What a load makes of the value the bus returns for it.
LoadNames  == {"LW", "LHU", "LH", "LBU", "LB"}
StoreNames == {"SW", "SH", "SB"}

AccessWidth(name) ==
  IF name \in {"LW", "SW"} THEN 4 ELSE IF name \in {"LH", "LHU", "SH"} THEN 2 ELSE 1

LoadResult(name, value) ==
  IF name \in {"LH", "LB"} THEN SignExtend(value, 8 * AccessWidth(name)) ELSE value

\* Mutant: a displacement is not sign extended.
DisplacementUnsigned(i) == IF i.name \in {"J", "JAL"} THEN i.imm26 ELSE i.imm16

\* The displacement of a branch or a jump, which execute() adds to the address
\* of the next instruction.
Displacement(i) ==
  IF i.name \in {"J", "JAL"} THEN SignExtend(i.imm26, 26) ELSE SignExtend(i.imm16, 16)
=============================================================================
