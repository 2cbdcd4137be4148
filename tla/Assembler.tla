------------------------------ MODULE Assembler ------------------------------
(***************************************************************************)
(* The assembler (src/tools/asm.py) as functions: parse() collects symbols  *)
(* and instructions, assemble_instr() turns an instruction into a word.     *)
(* The text of a line is already split into tokens, and a token says what   *)
(* it is; how files are read and written is in module AssemblerRun.         *)
(***************************************************************************)
EXTENDS BitWords, SequencesExt

\* Tokens.  A number is spelled in decimal wherever a register may stand, and
\* no symbol is spelled like a register or a number.
Token(kind, value, name) == [kind |-> kind, value |-> value, name |-> name]

R(n)    == Token("register", n, "")
Spr(n)  == Token("special", n, "")
N(v)    == Token("number", v, "")
S(name) == Token("symbol", 0, name)

\* A line: at most one label, and the tokens after it.
Line(labels, parts) == [labels |-> labels, parts |-> parts]
Text(parts)         == Line(<<>>, parts)
Label(name)         == Line(<<name>>, <<>>)

-----------------------------------------------------------------------------
\* OPCODES, by type.

RFuncs ==
  [SLL |-> 4, SRL |-> 6, SRA |-> 7, ADD |-> 32, SUB |-> 34, AND |-> 36, OR |-> 37,
   XOR |-> 38, SGT |-> 41, SEQ |-> 42, SGE |-> 43, SLT |-> 44, SNE |-> 45, SLE |-> 46]

SFuncs == [MOVI2S |-> 48, MOVS2I |-> 49]

JCodes == [J |-> 2, JAL |-> 3, RFE |-> 63, INT |-> 57]

ICodes ==
  [BEQZ |-> 4, BNEZ |-> 5, ADDI |-> 8, ADDUI |-> 9, SUBI |-> 10, SUBUI |-> 11,
   ANDI |-> 12, ORI |-> 13, XORI |-> 14, LHI |-> 15, JR |-> 18, JALR |-> 19,
   SLLI |-> 20, SRLI |-> 22, SRAI |-> 23, SGTI |-> 25, SEQI |-> 26, SGEI |-> 27,
   SLTI |-> 28, SNEI |-> 29, SLEI |-> 30]

MCodes ==
  [LB |-> 32, LH |-> 33, LW |-> 35, LBU |-> 36, LHU |-> 37, SB |-> 40, SH |-> 41, SW |-> 43]

\* Two tables as one.
Merge(f, g) == [x \in DOMAIN f \cup DOMAIN g |-> IF x \in DOMAIN f THEN f[x] ELSE g[x]]

Functions6 == Merge(RFuncs, SFuncs)
Opcodes6   == Merge(Merge(JCodes, ICodes), MCodes)

\* OPCODES as a whole: the bits of the opcode and of the function code.
FixedBits(mnemonic) ==
  IF mnemonic \in DOMAIN Functions6
    THEN Pattern(Functions6[mnemonic], 6)
    ELSE Place(Pattern(Opcodes6[mnemonic], 6), 26)

Recognised == DOMAIN Functions6 \cup DOMAIN Opcodes6

-----------------------------------------------------------------------------
\* Operands: where each goes in the word, and what it may be.

RegisterAt(lo)  == [lo |-> lo, width |-> 5, as |-> "register"]
SpecialAt(lo)   == [lo |-> lo, width |-> 5, as |-> "special"]
Data(width)     == [lo |-> 0, width |-> width, as |-> "data"]
Distance(width) == [lo |-> 0, width |-> width, as |-> "distance"]

Ra == RegisterAt(21)
Rb == RegisterAt(16)
Rc == RegisterAt(11)

\* The syntax of each instruction, from the comments and the tests of
\* assemble_instr.
Syntax(mnemonic) ==
  CASE mnemonic \in DOMAIN RFuncs       -> <<Rc, Ra, Rb>>
    [] mnemonic = "MOVI2S"              -> <<SpecialAt(11), Ra>>
    [] mnemonic = "MOVS2I"              -> <<Rc, SpecialAt(21)>>
    [] mnemonic \in {"BEQZ", "BNEZ"}    -> <<Ra, Distance(16)>>
    [] mnemonic \in {"JR", "JALR"}      -> <<Ra>>
    [] mnemonic = "LHI"                 -> <<Rb, Data(16)>>
    [] mnemonic \in DOMAIN MCodes       -> <<Rb, Data(16), Ra>>
    [] mnemonic \in {"J", "JAL"}        -> <<Distance(26)>>
    [] mnemonic = "INT"                 -> <<Data(26)>>
    [] mnemonic = "RFE"                 -> <<>>
    [] OTHER                            -> <<Rb, Ra, Data(16)>>

Lowest(width) == -(2 ^ (width - 1))

\* Mutant: a distance may be any bit pattern, as data.
HighestAny(operand) == 2 ^ operand.width - 1

\* IMM_LIMITS: a distance has to survive the sign extension, data is a pattern.
Highest(operand) ==
  IF operand.as = "distance" THEN 2 ^ (operand.width - 1) - 1 ELSE 2 ^ operand.width - 1

\* Whether a token can stand for an operand at all.
Resolvable(operand, token, symbols) ==
  CASE operand.as = "register" -> token.kind \in {"register", "number"}
    [] operand.as = "special"  -> token.kind = "special"
    [] OTHER -> \/ token.kind = "number"
                \/ token.kind = "symbol" /\ token.name \in DOMAIN symbols

\* get_address_value: a symbol used as a distance counts from the instruction
\* after this one; a number is taken as it is.
ValueOf(operand, token, address, symbols) ==
  IF token.kind # "symbol" THEN token.value
  ELSE IF operand.as = "distance" THEN symbols[token.name] - address - 4
  ELSE symbols[token.name]

InLimits(operand, value) ==
  CASE operand.as = "register" -> value \in 0..31
    [] operand.as = "special"  -> value \in 0..2
    [] OTHER -> value >= Lowest(operand.width) /\ value <= Highest(operand)

\* assemble_instr raises no exception.
Accepted(parts, address, symbols) ==
  /\ parts # <<>> /\ Head(parts) \in Recognised
  /\ LET syntax == Syntax(Head(parts))
         tokens == Tail(parts)
     IN /\ Len(tokens) = Len(syntax)
        /\ \A k \in 1..Len(syntax) :
             /\ Resolvable(syntax[k], tokens[k], symbols)
             /\ InLimits(syntax[k], ValueOf(syntax[k], tokens[k], address, symbols))

\* Mutant: an immediate is not masked to its field.
EncodedUnmasked(parts, address, symbols) ==
  LET syntax == Syntax(Head(parts))
      tokens == Tail(parts)
      FieldOf(k) == Pattern(ValueOf(syntax[k], tokens[k], address, symbols), WordBits - syntax[k].lo)
  IN FixedBits(Head(parts)) \cup
     UNION {Place(FieldOf(k), syntax[k].lo) : k \in 1..Len(syntax)}

\* encode_r, encode_i and encode_j: the word of an accepted instruction.
Encoded(parts, address, symbols) ==
  LET syntax == Syntax(Head(parts))
      tokens == Tail(parts)
      FieldOf(k) == Pattern(ValueOf(syntax[k], tokens[k], address, symbols), syntax[k].width)
  IN FixedBits(Head(parts)) \cup
     UNION {Place(FieldOf(k), syntax[k].lo) : k \in 1..Len(syntax)}

-----------------------------------------------------------------------------
\* parse(): one line after the other.

\* The address is i_address, kept apart from the list of instructions.
Parsing == [ok |-> TRUE, symbols |-> <<>>, instructions |-> <<>>, address |-> 0]

Declare(state, name, value) ==
  IF name \in {"", " "} \/ name \in DOMAIN state.symbols
    THEN [state EXCEPT !.ok = FALSE]
    ELSE [state EXCEPT !.symbols = [x \in DOMAIN @ \cup {name} |-> IF x = name THEN value ELSE @[x]]]

DeclareLabel(state, line) ==
  IF line.labels = <<>> THEN state
  ELSE Declare(state, line.labels[1], state.address)

\* The next instruction, at the address counted so far.
Emit(state, parts) ==
  [state EXCEPT !.instructions = Append(@, [parts |-> parts, address |-> state.address]),
                !.address      = @ + 4]

\* Mutant: the address is advanced on every line of text, .equ included.
ParseTextCountsEqu(state, parts) ==
  IF parts = <<>> THEN state
  ELSE IF Head(parts) # ".equ"
    THEN Emit(state, parts)
  ELSE IF Len(parts) # 3 \/ parts[3].kind # "number"
    THEN [state EXCEPT !.ok = FALSE]
  ELSE [Declare(state, parts[2], parts[3].value) EXCEPT !.address = @ + 4]

ParseText(state, parts) ==
  IF parts = <<>> THEN state
  ELSE IF Head(parts) # ".equ"
    THEN Emit(state, parts)
  ELSE IF Len(parts) # 3 \/ parts[3].kind # "number"
    THEN [state EXCEPT !.ok = FALSE]
  ELSE Declare(state, parts[2], parts[3].value)

\* The first error ends the parsing.
ParseLine(state, line) ==
  LET labelled == DeclareLabel(state, line)
  IN IF ~state.ok THEN state
     ELSE IF ~labelled.ok THEN labelled
     ELSE ParseText(labelled, line.parts)

Parse(source) == FoldLeft(ParseLine, Parsing, source)

\* A whole program without errors, as the file the assembler writes.
Binary(source) ==
  LET parsed == Parse(source)
  IN [k \in 1..Len(parsed.instructions) |->
        Encoded(parsed.instructions[k].parts, parsed.instructions[k].address, parsed.symbols)]
=============================================================================
