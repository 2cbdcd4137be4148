------------------------- MODULE AssemblerProperties -------------------------
(***************************************************************************)
(* What an execution of the assembler must satisfy, whatever files there    *)
(* are, however they include each other and whatever lines they hold; what  *)
(* is assembled is decoded as the core decodes it.                          *)
(***************************************************************************)
EXTENDS AssemblerRun, InstructionSet

CONSTANT SourceLines   \* the lines source files may hold

\* The parts of a line are in a row, and a token has a value; after `.equ' stand a
\* name and a token.
IsLine(line) ==
  /\ Len(line.parts) \in Nat
  /\ line.parts = [k \in 1..Len(line.parts) |-> line.parts[k]]
  /\ line.parts # <<>> =>
       IF Head(line.parts) = ".equ"
         THEN Len(line.parts) = 3 => line.parts[3].value \in Int
         ELSE \A k \in 2..Len(line.parts) : line.parts[k].value \in Int

ASSUME LinesAssumption == \A line \in SourceLines : IsLine(line)

VARIABLES
  original,   \* the disk before the run
  origins     \* where each of `lines' comes from: the file, and its item there

assemblerVars == <<runVars, original, origins>>

Items ==
  {Include(path) : path \in Paths} \cup {Holds(line) : line \in SourceLines} \cup {Malformed}

SourceFiles == [kind : {"source"}, items : Seq(Items)]

AssemblerInit ==
  /\ RunInit
  /\ disk \in [Files -> {Absent} \cup SourceFiles]
  /\ argument \in Paths /\ target \in Paths
  /\ original = disk /\ origins = <<>>

\* The place of the next item of a call of open_file.
Position(frame) ==
  [file |-> frame.file, item |-> Len(original[frame.file].items) - Len(frame.rest) + 1]

AssemblerNext ==
  /\ RunNext
  /\ UNCHANGED original
  /\ origins' = IF lines' = lines THEN origins ELSE Append(origins, Position(Top))

AssemblerSpec == AssemblerInit /\ [][AssemblerNext]_assemblerVars

-----------------------------------------------------------------------------
\* The files.

\* The output is open, or was when the run ended.
Opened == outFile # "unopened"

\* The run ended at an instruction that is not accepted.
Rejected == stage = "failed" /\ report = "line and text"

\* A file that was read is never written, even if the output is given under
\* another path or through a symbolic link: main compares canonical names
\* (os.path.realpath), and does so after every file has been read.
InputsAreKept == \A f \in included : disk[f] = original[f]

Instruction(k) == parsed.instructions[k]

AcceptedAt(k) == Accepted(Instruction(k).parts, Instruction(k).address, parsed.symbols)
EncodedAt(k)  == Encoded(Instruction(k).parts, Instruction(k).address, parsed.symbols)

\* The words of the output that are whole.
Words == 1..Len(Output.items)

\* A run that fails before it opens the output leaves what was there.  Once open,
\* it holds the words of the first instructions.  They are those of all of them
\* if the run succeeds, those of the ones before it if an instruction is
\* rejected, and fewer, with perhaps a part of one more, only if a write or the
\* close failed: then the run fails too, as it never does otherwise (main writes
\* as it assembles, into a buffer that is flushed at the latest by the close).
OutputIsAPrefix ==
  IF ~Opened THEN Output = original[RealPath[target]]
  ELSE /\ Len(Output.items) <= written
       /\ \A k \in Words : AcceptedAt(k) /\ Output.items[k] = EncodedAt(k)
       /\ \/ Output.kind = "binary" /\ Len(Output.items) = written
          \/ Output.kind = "binary" /\ outFile = "cut"
          \/ Output.kind = "torn" /\ outFile = "cut" /\ Len(Output.items) < written
       /\ stage = "done"    => outFile = "closed" /\ written = Len(parsed.instructions)
       /\ stage = "failed"  => Rejected \/ outFile = "cut"
       /\ outFile = "cut"   => stage = "failed"
       /\ Rejected          => written < Len(parsed.instructions) /\ ~AcceptedAt(written + 1)

-----------------------------------------------------------------------------
\* The files included.

ItemsIn(f) == original[f].items
LineAt(f, j) == ItemsIn(f)[j].kind = "line"

\* Item i of f is a directive that names g.
Names(f, i, g) == ItemsIn(f)[i].kind = "include" /\ RealPath[ItemsIn(f)[i].path] = g

\* The files to be read when f is: f and those named in files to be read.
Closed(files) ==
  \A f \in files : \A i \in DOMAIN ItemsIn(f) :
    ItemsIn(f)[i].kind = "include" => RealPath[ItemsIn(f)[i].path] \in files

Reached(f) ==
  {g \in Files : \A files \in SUBSET Files : f \in files /\ Closed(files) => g \in files}

\* Every file has been read.
Expanded == stage \in {"compare", "parse", "create", "assemble", "done"}

Main  == RealPath[argument]
Read  == 1..Len(origins)

\* Exactly the files reached from the source are read, and each line of theirs
\* once, however often and under whatever name a file is included, in a cycle too
\* ("All symbols are global, so a file already included is skipped",
\* docs/guide/Assembler.md, and the realpath of open_file).
FilesAreReadOnce ==
  /\ included = Reached(Main)
  /\ Len(lines) = Len(origins)
  /\ \A k \in Read : LineAt(origins[k].file, origins[k].item)
                     /\ lines[k] = ItemsIn(origins[k].file)[origins[k].item].line
  /\ \A f \in included : \A j \in DOMAIN ItemsIn(f) :
       LineAt(f, j) => \E k \in Read : origins[k] = [file |-> f, item |-> j]
  /\ \A k, l \in Read :
       k < l /\ origins[k].file = origins[l].file => origins[k].item < origins[l].item

\* ".include inserts the lines of another source file in place of the directive"
\* (docs/guide/Assembler.md).  Of the file a directive names, every line stands
\* before what follows the directive, unless that file is the one that led here,
\* and after what precedes it, unless the file is named elsewhere too; and
\* between two lines of a file stand only lines of files it leads to.
LinesAreInPlace ==
  /\ \A k, l \in Read :
       LET f == origins[k].file   g == origins[l].file IN
       \A i \in DOMAIN ItemsIn(f) : Names(f, i, g) =>
         /\ i < origins[k].item => l < k \/ f \in Reached(g)
         /\ l < k /\ origins[k].item < i =>
              \/ g = Main
              \/ \E h \in included : \E j \in DOMAIN ItemsIn(h) :
                   Names(h, j, g) /\ (h # f \/ j # i)
  /\ \A k, m, l \in Read :
       k < m /\ m < l /\ origins[k].file = origins[l].file =>
         origins[m].file \in Reached(origins[k].file)

IncludesAreInPlace == Expanded => FilesAreReadOnce /\ LinesAreInPlace

-----------------------------------------------------------------------------
\* The lines.

\* The lines among the first n that become words.
Counted(n) ==
  {j \in 1..n : lines[j].parts # <<>> /\ Head(lines[j].parts) # ".equ"}

\* Once parsed, the lines that become words do so in their order, each at the
\* address it will have in the ROM, and a label is the address of the first word
\* at or after it, whatever lines stand between (parse counts addresses, main
\* writes words: nothing else keeps the two in step).
LinesMeetTheirWords ==
  Opened =>
    /\ Len(parsed.instructions) = Cardinality(Counted(Len(lines)))
    /\ \A j \in 1..Len(lines) :
         LET before == Cardinality(Counted(j - 1)) IN
         /\ lines[j].labels # <<>> => parsed.symbols[lines[j].labels[1]] = 4 * before
         /\ j \in Counted(j) =>
              Instruction(before + 1) = [parts |-> lines[j].parts, address |-> 4 * before]

-----------------------------------------------------------------------------
\* The words.

Mnemonic(k) == Head(Instruction(k).parts)
Operand(k, n) == Instruction(k).parts[n + 1]

\* The Syntax and Encoding columns of docs/architecture/ISA.md: the field of the
\* word that each operand of an instruction is.
FieldsOf(m) ==
  CASE m \in AluNames               -> <<"rc", "ra", "rb">>
    [] m \in {"MOVI2S", "MOVS2I"}   -> <<"rc", "ra">>
    [] m \in {"BEQZ", "BNEZ"}       -> <<"ra", "imm16">>
    [] m \in {"JR", "JALR"}         -> <<"ra">>
    [] m = "LHI"                    -> <<"rb", "imm16">>
    [] m \in ImmediateNames         -> <<"rb", "ra", "imm16">>
    [] m \in LoadNames \cup StoreNames -> <<"rb", "imm16", "ra">>
    [] m \in {"J", "JAL", "INT"}    -> <<"imm26">>
    [] m = "RFE"                    -> <<>>

Relative == {"BEQZ", "BNEZ", "J", "JAL"}

\* What operand n of instruction k stands for: a distance counts from the address
\* of the next word of the output.
Meant(k, n) ==
  IF Operand(k, n).kind # "symbol" THEN Operand(k, n).value
  ELSE parsed.symbols[Operand(k, n).name] - (IF Mnemonic(k) \in Relative THEN 4 * k ELSE 0)

\* A register is in its field as it is, a number as the bits the field has.
Same(field, content, value) ==
  CASE field = "imm16" -> (value - Unsigned(content)) % 2 ^ 16 = 0
    [] field = "imm26" -> (value - Unsigned(content)) % 2 ^ 26 = 0
    [] OTHER           -> content = value

\* What the assembler accepts the core executes as it was written: the two tables
\* of codes agree, and each operand is in the field the core takes it from,
\* truncated to the field and not past it.
DecodesAsWritten ==
  Opened =>
    \A k \in Words :
      LET decoded == Decode(Output.items[k])
          fields  == FieldsOf(Mnemonic(k))
      IN /\ decoded.name = Mnemonic(k)
         /\ Len(Instruction(k).parts) = Len(fields) + 1
         /\ \A n \in 1..Len(fields) : Same(fields[n], decoded[fields[n]], Meant(k, n))

\* Where a displacement of `width' bits in word k takes the core.
GoesTo(k, field, width) == Plus(Pattern(4 * k, WordBits), SignExtend(field, width))

\* The symbol word k branches or jumps to, if its operands are otherwise right.
HasGoal(k) ==
  /\ Mnemonic(k) \in Relative
  /\ Len(Instruction(k).parts) = Len(FieldsOf(Mnemonic(k))) + 1
  /\ Last(Instruction(k).parts).kind = "symbol"
  /\ Last(Instruction(k).parts).name \in DOMAIN parsed.symbols
  /\ Mnemonic(k) \in {"BEQZ", "BNEZ"} =>
       Operand(k, 1).kind \in {"register", "number"} /\ Operand(k, 1).value \in 0..31

Goal(k) == parsed.symbols[Last(Instruction(k).parts).name]

\* A branch or a jump to a symbol is assembled exactly if some displacement takes
\* the core to it, and then it is that one: none "would silently go the other
\* way" (the comment of resolve_disp).  A symbol a quarter of the address space
\* away, which only .equ can make, is left aside: the core could reach some of
\* those by wrapping around.
ReachesTheLabel ==
  Opened =>
    /\ \A k \in Words :
         HasGoal(k) => Plus(Pattern(4 * k, WordBits), Displacement(Decode(Output.items[k])))
                         = Pattern(Goal(k), WordBits)
    /\ Rejected =>
         LET k     == written + 1
             width == IF Mnemonic(k) \in {"J", "JAL"} THEN 26 ELSE 16
             away  == Goal(k) - 4 * k
         IN HasGoal(k) /\ -(2 ^ 30) <= away /\ away < 2 ^ 30 =>
              GoesTo(k, Pattern(away, width), width) # Pattern(Goal(k), WordBits)
=============================================================================
