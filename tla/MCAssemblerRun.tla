--------------------------- MODULE MCAssemblerRun ----------------------------
(***************************************************************************)
(* Two families of runs of the assembler.                                   *)
(* - Every way in which three files of at most two items, five in all, may  *)
(*   include each other: cycles, diamonds, repeated and missing files, and  *)
(*   a file under two names.  A line of a file carries its label, or none,  *)
(*   and jumps to the label of the next file.                               *)
(* - One file with a symbol and one instruction that counts: every mnemonic *)
(*   with operands at and past the edges of what each may be.  The word is  *)
(*   decoded as the core does.                                              *)
(***************************************************************************)
EXTENDS AssemblerProperties

Sources == {"main", "left", "right"}
MCFiles == Sources \cup {"bin", "nowhere"}
MCPaths == MCFiles \cup {"alias"}
MCRealPath == [p \in MCPaths |-> IF p = "alias" THEN "left" ELSE p]

MaxItems == 2
MaxTotal == 5

After(f) == CASE f = "main" -> "left" [] f = "left" -> "right" [] f = "right" -> "main"

JumpFrom(f) == <<"J", S(After(f))>>

ItemsOf(f) ==
  {Include(p) : p \in {"left", "right", "alias", "nowhere"}} \cup
  {Holds(Line(<<f>>, JumpFrom(f))), Holds(Text(JumpFrom(f)))} \cup
  (IF f = "right" THEN {Malformed} ELSE {})

SourcesOf(f) == UNION {[1..n -> ItemsOf(f)] : n \in 0..MaxItems}

-----------------------------------------------------------------------------
\* Both ends of a signed and of an unsigned field, and the values next to them.
EdgesOf(width) ==
  LET half == 2 ^ (width - 1)
  IN {-half - 1, -half, -half + 1, -4, -1, 0, 4, half - 1, half, 2 * half - 1, 2 * half}

\* The address of the instruction that counts, after another one, and what .equ
\* may make of its label.
Counting   == 4
MCLabels == {Counting + 4 + e : e \in EdgesOf(16) \cup EdgesOf(26)}

TokensFor(operand) ==
  CASE operand.as = "register" -> {R(0), R(5), R(31), R(32)}
    [] operand.as = "special"  -> {Spr(0), Spr(1), Spr(2), R(1)}
    [] OTHER -> {N(v) : v \in EdgesOf(operand.width)} \cup {S("LABEL"), S("MISSING")}

\* The tokens of a line: as many as the syntax has, or one less.
Operands(syntax) ==
  CASE Len(syntax) = 0 -> {<<>>}
    [] Len(syntax) = 1 -> {<<>>} \cup {<<a>> : a \in TokensFor(syntax[1])}
    [] Len(syntax) = 2 -> {<<R(1)>>} \cup
                          {<<a, b>> : a \in TokensFor(syntax[1]), b \in TokensFor(syntax[2])}
    [] Len(syntax) = 3 -> {<<R(1), R(2)>>} \cup
                          {<<a, b, c>> : a \in TokensFor(syntax[1]), b \in TokensFor(syntax[2]),
                                         c \in TokensFor(syntax[3])}

InstructionsOf(mnemonic) == {<<mnemonic>> \o tokens : tokens \in Operands(Syntax(mnemonic))}

ValuesOfLabel(parts) == IF S("LABEL") \in Range(Tail(parts)) THEN MCLabels ELSE {0}

SingleSource(parts, value) ==
  <<Holds(Text(<<".equ", "LABEL", N(value)>>)), Holds(Text(<<"RFE">>)), Holds(Text(parts))>>

-----------------------------------------------------------------------------
\* Every line there is in one of these files.
MCSourceLines ==
  {Line(<<f>>, JumpFrom(f)) : f \in Sources} \cup {Text(JumpFrom(f)) : f \in Sources} \cup
  {Text(<<".equ", "LABEL", N(value)>>) : value \in MCLabels \cup {0}} \cup
  UNION {{Text(parts) : parts \in InstructionsOf(m)} : m \in Recognised}

-----------------------------------------------------------------------------
Disk(main, left, right) ==
  "main" :> main @@ "left" :> left @@ "right" :> right @@ "bin" :> Absent @@ "nowhere" :> Absent

ThreeFiles ==
  /\ \E main \in SourcesOf("main"), left \in SourcesOf("left"), right \in SourcesOf("right") :
       /\ Len(main) + Len(left) + Len(right) <= MaxTotal
       /\ disk = Disk(Contents("source", main), Contents("source", left),
                      Contents("source", right))
  /\ argument \in {"main", "nowhere"} /\ target \in {"bin", "alias"}

OneInstruction ==
  /\ \E mnemonic \in Recognised : \E parts \in InstructionsOf(mnemonic) :
       \E value \in ValuesOfLabel(parts) :
         disk = Disk(Contents("source", SingleSource(parts, value)), Absent, Absent)
  /\ argument = "main" /\ target = "bin"

MCInit == (ThreeFiles \/ OneInstruction) /\ AssemblerInit

MCSpec ==
  MCInit /\ [][AssemblerNext]_assemblerVars /\ WF_assemblerVars(AssemblerNext)

-----------------------------------------------------------------------------
\* Whatever includes whatever, the assembler ends.
AssemblerEnds == <>(stage \in {"done", "failed"})
=============================================================================
