----------------------------- MODULE Arithmetic ------------------------------
(***************************************************************************)
(* The results of the instruction set against the arithmetic of the         *)
(* architecture document (docs/architecture/ISA.md): two registers, on      *)
(* which any sequence of arithmetic instructions is executed.               *)
(***************************************************************************)
EXTENDS InstructionSet

VARIABLES left, right   \* two general registers

registers == <<left, right>>

Range16 == SUBSET Bits(HalfBits)   \* the immediates

ArithmeticInit == left = {} /\ right = {}

\* R1 <- R1 op R2.
Operate(name) == left' = Alu(name, left, right) /\ UNCHANGED right

\* R1 <- R1 op Imm16, or LHI.
OperateImmediate(imm16) ==
  /\ \/ \E name \in ImmediateNames : left' = AluImmediate(name, left, imm16)
     \/ left' = LoadHigh(imm16)
  /\ UNCHANGED right

\* R2 <- R1.
Copy == right' = left /\ UNCHANGED left

ArithmeticNext ==
  \/ \E name \in AluNames : Operate(name)
  \/ \E imm16 \in Range16 : OperateImmediate(imm16)
  \/ Copy

ArithmeticSpec == ArithmeticInit /\ [][ArithmeticNext]_registers

-----------------------------------------------------------------------------
\* The Explanation column of ISA.md on integers, for operands whose unsigned
\* values are x and y: everything modulo 2^WordBits, "all set instructions
\* compare their operands as signed".
Modulus     == 2 ^ WordBits
BitOf(x, i) == (x \div 2 ^ i) % 2
AsSigned(x) == IF x >= Modulus \div 2 THEN x - Modulus ELSE x

Documented(name, x, y) ==
  LET s == AsSigned(x)
      t == AsSigned(y)
      n == y % WordBits
      flag(b) == IF b THEN 1 ELSE 0
  IN CASE name = "ADD" -> (x + y) % Modulus
       [] name = "SUB" -> (x - y) % Modulus
       [] name = "AND" -> Unsigned({i \in Bits(WordBits) : BitOf(x, i) = 1 /\ BitOf(y, i) = 1})
       [] name = "OR"  -> Unsigned({i \in Bits(WordBits) : BitOf(x, i) = 1 \/ BitOf(y, i) = 1})
       [] name = "XOR" -> Unsigned({i \in Bits(WordBits) : BitOf(x, i) # BitOf(y, i)})
       [] name = "SLL" -> (x * 2 ^ n) % Modulus
       [] name = "SRL" -> x \div (2 ^ n)
       [] name = "SRA" -> (s \div (2 ^ n)) % Modulus
       [] name = "SLT" -> flag(s < t)
       [] name = "SLE" -> flag(s <= t)
       [] name = "SGT" -> flag(s > t)
       [] name = "SGE" -> flag(s >= t)
       [] name = "SEQ" -> flag(s = t)
       [] name = "SNE" -> flag(s # t)

\* SignExt and ZeroExt of the document, as unsigned values.
Widened(name, v) ==
  IF name \in {"ADDUI", "SUBUI", "ANDI", "ORI", "XORI", "SLLI", "SRLI", "SRAI"} \/ v < 2 ^ (HalfBits - 1)
    THEN v ELSE v + Modulus - 2 ^ HalfBits

\* For all operands, the wrap-around, the signs, the shift amounts and the
\* comparisons execute() computes with C's conversions are the documented ones.
AluIsDocumented ==
  \A name \in AluNames :
    Unsigned(Alu(name, left, right)) = Documented(name, Unsigned(left), Unsigned(right))

\* So are those with an immediate, each widened in its own way: ADDI and ADDUI
\* agree on half of the immediates only.
ImmediatesAreDocumented ==
  \A name \in ImmediateNames, imm16 \in Range16 :
    Unsigned(AluImmediate(name, left, imm16))
      = Documented(ImmediateOperation[name], Unsigned(left), Widened(name, Unsigned(imm16)))

=============================================================================
