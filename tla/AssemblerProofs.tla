--------------------------- MODULE AssemblerProofs ---------------------------
(***************************************************************************)
(* Proofs, for every set of files, every way they include each other and    *)
(* every line they may hold, of what AssemblerProperties states: the files  *)
(* are safe, lines and words stay in step, and the core decodes what was    *)
(* written.                                                                 *)
(***************************************************************************)
EXTENDS AssemblerProperties, WordProofs, SequenceTheorems, FiniteSetTheorems

-----------------------------------------------------------------------------
(* parse() as a succession of states. *)

\* A fold over the lines defines a function on sets of line numbers, which exists
\* for the first n lines, however many.
IsFold(fold, source, places) ==
  fold = [s \in SUBSET places |->
            IF s = {} THEN Parsing
            ELSE ParseLine(fold[s \ {Max(s)}], source[Max(s)])]

LEMMA MaxOfTop ==
  ASSUME NEW n \in Nat, NEW s \in SUBSET (1..(n + 1)), n + 1 \in s
  PROVE  Max(s) = n + 1
<1>1. \A y \in s : n + 1 >= y
  OBVIOUS
<1>2. \A x \in s : (\A y \in s : x >= y) => x = n + 1
  OBVIOUS
<1> QED BY <1>1, <1>2 DEF Max

LEMMA MaxBelow ==
  ASSUME NEW n \in Nat, NEW s \in SUBSET (1..n), s # {}
  PROVE  Max(s) \in s
<1>1. s \subseteq 0..n
  OBVIOUS
<1> QED BY <1>1, HighestBit

LEMMA FoldExists ==
  ASSUME NEW source, NEW n \in Nat
  PROVE  \E fold : IsFold(fold, source, 1..n)
<1> DEFINE T == {k \in Nat : \E fold : IsFold(fold, source, 1..k)}
<1>1. 0 \in T
  <2> DEFINE fold == [s \in SUBSET (1..0) |-> Parsing]
  <2>1. IsFold(fold, source, 1..0)
    BY DEF IsFold
  <2> QED BY <2>1
<1>2. ASSUME NEW k \in Nat, k \in T PROVE k + 1 \in T
  <2>1. PICK f : IsFold(f, source, 1..k)
    BY <1>2
  <2>2. \A s \in SUBSET (1..k) :
          f[s] = IF s = {} THEN Parsing ELSE ParseLine(f[s \ {Max(s)}], source[Max(s)])
    BY <2>1 DEF IsFold
  <2> DEFINE g == [s \in SUBSET (1..(k + 1)) |->
                     IF k + 1 \in s THEN ParseLine(f[s \ {k + 1}], source[k + 1]) ELSE f[s]]
  <2>3. ASSUME NEW s \in SUBSET (1..(k + 1))
        PROVE  g[s] = IF s = {} THEN Parsing ELSE ParseLine(g[s \ {Max(s)}], source[Max(s)])
    <3>1. CASE k + 1 \in s
      <4>1. Max(s) = k + 1
        BY <3>1, MaxOfTop
      <4>2. s \ {k + 1} \in SUBSET (1..(k + 1)) /\ k + 1 \notin s \ {k + 1}
        OBVIOUS
      <4>3. g[s \ {k + 1}] = f[s \ {k + 1}]
        BY <4>2
      <4> QED BY <3>1, <4>1, <4>3
    <3>2. CASE k + 1 \notin s
      <4>1. s \in SUBSET (1..k)
        BY <3>2
      <4>2. CASE s = {}
        BY <2>2, <4>1, <4>2
      <4>3. CASE s # {}
        <5>1. Max(s) \in s
          BY <4>1, <4>3, MaxBelow
        <5>2. s \ {Max(s)} \in SUBSET (1..(k + 1)) /\ k + 1 \notin s \ {Max(s)}
          BY <3>2
        <5>3. g[s \ {Max(s)}] = f[s \ {Max(s)}] /\ g[s] = f[s]
          BY <3>2, <5>2
        <5> QED BY <2>2, <4>1, <4>3, <5>3
      <4> QED BY <4>2, <4>3
    <3> QED BY <3>1, <3>2
  <2>4. g = [s \in SUBSET (1..(k + 1)) |-> g[s]]
    OBVIOUS
  <2> HIDE DEF g
  <2>5. IsFold(g, source, 1..(k + 1))
    BY <2>3, <2>4 DEF IsFold
  <2> QED BY <2>5
<1> HIDE DEF T
<1>3. n \in T
  BY <1>1, <1>2, Inductive
<1> QED BY <1>3 DEF T

\* So parse() goes through one state per line, each made from the one before.
LEMMA ParseStates ==
  ASSUME NEW Elements, NEW source \in Seq(Elements)
  PROVE  \E states : /\ states[0] = Parsing
                     /\ \A k \in 1..Len(source) : states[k] = ParseLine(states[k - 1], source[k])
                     /\ Parse(source) = states[Len(source)]
<1> DEFINE n == Len(source)
           fold == CHOOSE f : IsFold(f, source, 1..n)
           states == [k \in 0..n |-> fold[1..k]]
<1>1. n \in Nat /\ DOMAIN source = 1..n
  OBVIOUS
<1>2. IsFold(fold, source, 1..n)
  BY <1>1, FoldExists
<1>3. Parse(source) = fold[1..n]
  BY <1>1 DEF Parse, FoldLeft, MapThenFoldSet, IsFold
<1> HIDE DEF fold, n
<1>4. \A s \in SUBSET (1..n) :
        fold[s] = IF s = {} THEN Parsing ELSE ParseLine(fold[s \ {Max(s)}], source[Max(s)])
  BY <1>2 DEF IsFold
<1>5. states[0] = Parsing
  <2>1. 1..0 = {} /\ {} \in SUBSET (1..n)
    OBVIOUS
  <2>2. fold[{}] = Parsing
    <3> HIDE DEF Max
    <3> QED BY <1>4, <2>1
  <2>3. states[0] = fold[1..0]
    BY <1>1
  <2> QED BY <2>1, <2>2, <2>3
<1>6. ASSUME NEW k \in 1..n PROVE states[k] = ParseLine(states[k - 1], source[k])
  <2>1. (1..k) \in SUBSET (1..n) /\ 1..k # {} /\ (1..k) \ {k} = 1..(k - 1)
    BY <1>1
  <2>2. Max(1..k) = k
    <3>1. k - 1 \in Nat /\ (k - 1) + 1 = k
      BY <1>1
    <3>2. (1..k) \in SUBSET (1..((k - 1) + 1)) /\ (k - 1) + 1 \in 1..k
      BY <3>1
    <3> HIDE DEF Max
    <3> QED BY <3>1, <3>2, MaxOfTop
  <2>3. fold[1..k] = ParseLine(fold[1..(k - 1)], source[k])
    BY <1>4, <2>1, <2>2
  <2> QED BY <1>1, <2>3
<1>7. states[n] = fold[1..n]
  BY <1>1
<1> HIDE DEF states
<1> QED BY <1>3, <1>5, <1>6, <1>7 DEF n

-----------------------------------------------------------------------------
(* What the states of parse() hold. *)

IsWord(line) == line.parts # <<>> /\ Head(line.parts) # ".equ"

\* The lines among the first n that become words.
WordsIn(source, n) == {j \in 1..n : IsWord(source[j])}

Before(source, j) == Cardinality(WordsIn(source, j - 1))

Places == [parts : {line.parts : line \in {l \in SourceLines : IsWord(l)}}, address : Nat]

IsSymbols(f) == f = [x \in DOMAIN f |-> f[x]] /\ \A x \in DOMAIN f : f[x] \in Int

IsState(state) ==
  /\ state = [ok |-> state.ok, symbols |-> state.symbols, instructions |-> state.instructions,
              address |-> state.address]
  /\ state.ok \in BOOLEAN

\* The first n lines have been parsed without an error.
InStep(state, source, n) ==
  /\ IsSymbols(state.symbols)
  /\ state.instructions \in Seq(Places)
  /\ Len(state.instructions) = Cardinality(WordsIn(source, n))
  /\ state.address = 4 * Len(state.instructions)
  /\ \A m \in 1..Len(state.instructions) : state.instructions[m].address = 4 * (m - 1)
  /\ \A j \in 1..n : source[j].labels # <<>> =>
       /\ source[j].labels[1] \in DOMAIN state.symbols
       /\ state.symbols[source[j].labels[1]] = 4 * Before(source, j)
  /\ \A j \in 1..n : IsWord(source[j]) =>
       /\ Before(source, j) + 1 \in 1..Len(state.instructions)
       /\ state.instructions[Before(source, j) + 1]
            = [parts |-> source[j].parts, address |-> 4 * Before(source, j)]

\* One more line counts for one if it becomes a word.
LEMMA CountStep ==
  ASSUME NEW source, NEW n \in Nat \ {0}
  PROVE  /\ Cardinality(WordsIn(source, n)) \in Nat
         /\ Cardinality(WordsIn(source, n - 1)) \in Nat
         /\ Cardinality(WordsIn(source, n))
              = Cardinality(WordsIn(source, n - 1)) + (IF IsWord(source[n]) THEN 1 ELSE 0)
<1>1. \A k \in Nat : IsFiniteSet(WordsIn(source, k))
  <2> TAKE k \in Nat
  <2>1. IsFiniteSet(1..k) /\ WordsIn(source, k) \subseteq 1..k
    BY FS_Interval DEF WordsIn
  <2> QED BY <2>1, FS_Subset
<1>2. \A k \in Nat : Cardinality(WordsIn(source, k)) \in Nat
  BY <1>1, FS_CardinalityType
<1>3. n \in Nat /\ n - 1 \in Nat
  OBVIOUS
<1>4. CASE IsWord(source[n])
  <2>1. WordsIn(source, n) = WordsIn(source, n - 1) \cup {n}
    BY <1>4 DEF WordsIn
  <2>2. n \notin WordsIn(source, n - 1)
    BY DEF WordsIn
  <2> QED BY <1>1, <1>2, <1>3, <1>4, <2>1, <2>2, FS_AddElement
<1>5. CASE ~IsWord(source[n])
  <2>1. WordsIn(source, n) = WordsIn(source, n - 1)
    BY <1>5 DEF WordsIn
  <2> QED BY <1>2, <1>3, <1>5, <2>1
<1> QED BY <1>4, <1>5

LEMMA DeclareKeeps ==
  ASSUME NEW state, IsState(state), state.ok, IsSymbols(state.symbols),
         NEW name, NEW value \in Int, Declare(state, name, value).ok
  PROVE  LET next == Declare(state, name, value) IN
         /\ IsSymbols(next.symbols)
         /\ next.instructions = state.instructions /\ next.address = state.address
         /\ name \in DOMAIN next.symbols /\ next.symbols[name] = value
         /\ \A x \in DOMAIN state.symbols :
              x \in DOMAIN next.symbols /\ next.symbols[x] = state.symbols[x]
<1> DEFINE symbols == [x \in DOMAIN state.symbols \cup {name} |->
                         IF x = name THEN value ELSE state.symbols[x]]
<1>1. name \notin DOMAIN state.symbols
  BY DEF Declare, IsState
<1>2. Declare(state, name, value) =
        [ok |-> TRUE, symbols |-> symbols, instructions |-> state.instructions,
         address |-> state.address]
  BY DEF Declare, IsState
<1> QED BY <1>1, <1>2 DEF IsSymbols

LEMMA DeclareIsState ==
  ASSUME NEW state, IsState(state), NEW name, NEW value
  PROVE  IsState(Declare(state, name, value))
BY DEF IsState, Declare

\* What is known of the symbols stays as it is.
Keeps(next, state) ==
  \A x \in DOMAIN state.symbols : x \in DOMAIN next.symbols /\ next.symbols[x] = state.symbols[x]

LEMMA LabelKeeps ==
  ASSUME NEW state, IsState(state), state.ok, IsSymbols(state.symbols),
         state.address \in Int, NEW line, DeclareLabel(state, line).ok
  PROVE  LET next == DeclareLabel(state, line) IN
         /\ IsSymbols(next.symbols) /\ Keeps(next, state)
         /\ next.instructions = state.instructions /\ next.address = state.address
         /\ line.labels # <<>> => /\ line.labels[1] \in DOMAIN next.symbols
                                  /\ next.symbols[line.labels[1]] = state.address
<1>1. CASE line.labels = <<>>
  BY <1>1 DEF DeclareLabel, Keeps
<1>2. CASE line.labels # <<>>
  <2>1. DeclareLabel(state, line) = Declare(state, line.labels[1], state.address)
    BY <1>2 DEF DeclareLabel
  <2> QED BY <2>1, DeclareKeeps DEF Keeps
<1> QED BY <1>1, <1>2

LEMMA EmitKeeps ==
  ASSUME NEW state, IsState(state), NEW parts
  PROVE  Emit(state, parts) =
           [ok |-> state.ok, symbols |-> state.symbols,
            instructions |-> Append(state.instructions,
                                    [parts |-> parts, address |-> state.address]),
            address |-> state.address + 4]
<1> DEFINE more == Append(state.instructions, [parts |-> parts, address |-> state.address])
           past == state.address + 4
<1> HIDE DEF more, past
<1>1. Emit(state, parts) = [state EXCEPT !.instructions = more, !.address = past]
  BY DEF Emit, more, past
<1>2. Emit(state, parts) = [ok |-> state.ok, symbols |-> state.symbols,
                            instructions |-> more, address |-> past]
  BY <1>1 DEF IsState
<1> QED BY <1>2 DEF more, past

LEMMA TextKeeps ==
  ASSUME NEW state, IsState(state), state.ok, IsSymbols(state.symbols),
         NEW line \in SourceLines, ParseText(state, line.parts).ok
  PROVE  LET next == ParseText(state, line.parts) IN
         /\ IsSymbols(next.symbols) /\ Keeps(next, state)
         /\ next.instructions =
              IF IsWord(line)
                THEN Append(state.instructions, [parts |-> line.parts, address |-> state.address])
                ELSE state.instructions
         /\ next.address = IF IsWord(line) THEN state.address + 4 ELSE state.address
<1>1. CASE line.parts = <<>>
  BY <1>1 DEF ParseText, Keeps, IsWord
<1>2. CASE IsWord(line)
  <2>1. ParseText(state, line.parts) = Emit(state, line.parts)
    BY <1>2 DEF ParseText, IsWord
  <2> DEFINE more == Append(state.instructions,
                            [parts |-> line.parts, address |-> state.address])
             past == state.address + 4
  <2> HIDE DEF more, past
  <2>2. ParseText(state, line.parts) =
          [ok |-> state.ok, symbols |-> state.symbols, instructions |-> more, address |-> past]
    BY <2>1, EmitKeeps DEF more, past
  <2>3. LET next == ParseText(state, line.parts) IN
        next.symbols = state.symbols /\ next.instructions = more /\ next.address = past
    BY <2>2
  <2> QED BY <1>2, <2>3 DEF Keeps, more, past
<1>3. CASE line.parts # <<>> /\ Head(line.parts) = ".equ"
  <2>1. Len(line.parts) = 3 /\ line.parts[3].kind = "number"
    BY <1>3 DEF ParseText, IsState
  <2>2. line.parts[3].value \in Int
    BY <1>3, <2>1, LinesAssumption DEF IsLine
  <2>3. ParseText(state, line.parts) = Declare(state, line.parts[2], line.parts[3].value)
    BY <1>3, <2>1 DEF ParseText
  <2> QED BY <1>3, <2>2, <2>3, DeclareKeeps DEF Keeps, IsWord
<1> QED BY <1>1, <1>2, <1>3 DEF IsWord

LEMMA ParseIsState ==
  ASSUME NEW state, IsState(state), NEW line
  PROVE  IsState(ParseLine(state, line))
<1>1. IsState(DeclareLabel(state, line))
  BY DeclareIsState DEF DeclareLabel
<1>2. ASSUME NEW labelled, IsState(labelled) PROVE IsState(ParseText(labelled, line.parts))
  <2>1. IsState(Emit(labelled, line.parts))
    <3> DEFINE more == Append(labelled.instructions,
                              [parts |-> line.parts, address |-> labelled.address])
               past == labelled.address + 4
    <3> HIDE DEF more, past
    <3>1. Emit(labelled, line.parts) = [ok |-> labelled.ok, symbols |-> labelled.symbols,
                                        instructions |-> more, address |-> past]
      BY <1>2, EmitKeeps DEF more, past
    <3>2. labelled.ok \in BOOLEAN
      BY <1>2 DEF IsState
    <3> QED BY <3>1, <3>2 DEF IsState
  <2>2. \A ok \in BOOLEAN : IsState([labelled EXCEPT !.ok = ok])
    BY <1>2 DEF IsState
  <2> QED BY <1>2, <2>1, <2>2, DeclareIsState DEF ParseText
<1> QED BY <1>1, <1>2 DEF ParseLine

\* A line keeps what was known, counts if it becomes a word and gives its label
\* the address of the next word.
LEMMA ParseStep ==
  ASSUME NEW source \in Seq(SourceLines), NEW n \in 1..Len(source),
         NEW state, IsState(state), state.ok => InStep(state, source, n - 1),
         ParseLine(state, source[n]).ok
  PROVE  InStep(ParseLine(state, source[n]), source, n)
<1> DEFINE line     == source[n]
           labelled == DeclareLabel(state, line)
           next     == ParseText(labelled, line.parts)
           entry    == [parts |-> line.parts, address |-> state.address]
           count    == Len(state.instructions)
<1>1. state.ok /\ labelled.ok /\ ParseLine(state, line) = next /\ next.ok
  BY DEF ParseLine
<1>2. InStep(state, source, n - 1)
  BY <1>1
<1>3. line \in SourceLines /\ n \in Nat \ {0}
  OBVIOUS
<1>4. /\ count \in Nat /\ count = Before(source, n)
      /\ state.address = 4 * count /\ state.address \in Nat
  BY <1>2 DEF InStep, Before
<1>5. /\ IsState(labelled) /\ IsSymbols(labelled.symbols) /\ Keeps(labelled, state)
      /\ labelled.instructions = state.instructions /\ labelled.address = state.address
      /\ line.labels # <<>> => /\ line.labels[1] \in DOMAIN labelled.symbols
                               /\ labelled.symbols[line.labels[1]] = 4 * count
  <2>1. IsState(labelled)
    BY DeclareIsState DEF DeclareLabel
  <2>2. IsSymbols(state.symbols) /\ state.address \in Int
    BY <1>2, <1>4 DEF InStep
  <2> HIDE DEF line
  <2> QED BY <1>1, <1>4, <2>1, <2>2, LabelKeeps
<1>6. /\ IsSymbols(next.symbols) /\ Keeps(next, labelled)
      /\ next.instructions = IF IsWord(line) THEN Append(state.instructions, entry)
                                             ELSE state.instructions
      /\ next.address = IF IsWord(line) THEN state.address + 4 ELSE state.address
  <2> HIDE DEF line, labelled
  <2> QED BY <1>1, <1>3, <1>5, TextKeeps
<1> HIDE DEF line, labelled, next
<1>7. /\ next.instructions \in Seq(Places)
      /\ Len(next.instructions) = Cardinality(WordsIn(source, n))
      /\ \A m \in 1..count : next.instructions[m] = state.instructions[m]
      /\ IsWord(line) => /\ next.instructions[count + 1] = entry
                         /\ count + 1 \in 1..Len(next.instructions)
  <2>1. state.instructions \in Seq(Places) /\ count = Cardinality(WordsIn(source, n - 1))
    BY <1>2 DEF InStep
  <2>2. Cardinality(WordsIn(source, n)) = count + (IF IsWord(line) THEN 1 ELSE 0)
    BY <1>3, <2>1, CountStep DEF line
  <2>3. CASE IsWord(line)
    <3>1. entry \in Places
      BY <1>3, <1>4, <2>3 DEF Places
    <3> HIDE DEF entry
    <3> QED BY <1>6, <2>1, <2>2, <2>3, <3>1
  <2>4. CASE ~IsWord(line)
    BY <1>6, <2>1, <2>2, <2>4
  <2> QED BY <2>3, <2>4
<1>8. \A m \in 1..Len(next.instructions) : next.instructions[m].address = 4 * (m - 1)
  <2> TAKE m \in 1..Len(next.instructions)
  <2>1. m \in 1..count \/ (IsWord(line) /\ m = count + 1)
    BY <1>4, <1>6, <1>2 DEF InStep
  <2>2. CASE m \in 1..count
    <3>1. next.instructions[m] = state.instructions[m]
      BY <1>7, <2>2
    <3>2. state.instructions[m].address = 4 * (m - 1)
      BY <1>2, <2>2 DEF InStep
    <3> QED BY <3>1, <3>2
  <2>3. CASE IsWord(line) /\ m = count + 1
    <3>1. next.instructions[m] = entry /\ m - 1 = count
      BY <1>4, <1>7, <2>3
    <3>2. entry.address = 4 * count
      BY <1>4
    <3> HIDE DEF entry, count
    <3> QED BY <3>1, <3>2
  <2> QED BY <2>1, <2>2, <2>3
<1>9. ASSUME NEW j \in 1..n, source[j].labels # <<>>
      PROVE  /\ source[j].labels[1] \in DOMAIN next.symbols
             /\ next.symbols[source[j].labels[1]] = 4 * Before(source, j)
  <2>1. CASE j = n
    BY <1>4, <1>5, <1>6, <1>9, <2>1 DEF Keeps, line
  <2>2. CASE j # n
    <3>1. j \in 1..(n - 1)
      BY <2>2
    <3>2. /\ source[j].labels[1] \in DOMAIN state.symbols
          /\ state.symbols[source[j].labels[1]] = 4 * Before(source, j)
      BY <1>2, <1>9, <3>1 DEF InStep
    <3> QED BY <1>5, <1>6, <3>2 DEF Keeps
  <2> QED BY <2>1, <2>2
<1>10. ASSUME NEW j \in 1..n, IsWord(source[j])
       PROVE  /\ Before(source, j) + 1 \in 1..Len(next.instructions)
              /\ next.instructions[Before(source, j) + 1]
                   = [parts |-> source[j].parts, address |-> 4 * Before(source, j)]
  <2>1. CASE j = n
    <3>1. /\ Before(source, j) = count /\ IsWord(line)
          /\ entry = [parts |-> source[j].parts, address |-> 4 * Before(source, j)]
      BY <1>4, <1>10, <2>1 DEF line
    <3> HIDE DEF entry, count
    <3> QED BY <1>7, <3>1
  <2>2. CASE j # n
    <3>1. j \in 1..(n - 1)
      BY <2>2
    <3>2. /\ Before(source, j) + 1 \in 1..count
          /\ state.instructions[Before(source, j) + 1]
               = [parts |-> source[j].parts, address |-> 4 * Before(source, j)]
      BY <1>2, <1>10, <3>1 DEF InStep
    <3>3. count <= Len(next.instructions) /\ Len(next.instructions) \in Nat
      <4>1. state.instructions \in Seq(Places)
        BY <1>2 DEF InStep
      <4> HIDE DEF entry
      <4> QED BY <1>6, <4>1
    <3> HIDE DEF entry, count
    <3> QED BY <1>4, <1>7, <3>2, <3>3
  <2> QED BY <2>1, <2>2
<1>11. next.address = 4 * Len(next.instructions)
  <2>1. count = Cardinality(WordsIn(source, n - 1))
    BY <1>2 DEF InStep
  <2>2. Len(next.instructions) = count + (IF IsWord(line) THEN 1 ELSE 0)
    BY <1>3, <1>7, <2>1, CountStep DEF line
  <2>3. next.address = state.address + (IF IsWord(line) THEN 4 ELSE 0)
    <3> HIDE DEF entry, count
    <3> QED BY <1>4, <1>6
  <2>4. state.address = 4 * count /\ count \in Nat
    BY <1>4
  <2> HIDE DEF entry, count
  <2> QED BY <2>2, <2>3, <2>4
<1>12. InStep(next, source, n)
  BY <1>6, <1>7, <1>8, <1>9, <1>10, <1>11 DEF InStep
<1> QED BY <1>1, <1>12 DEF line

\* So when parse() succeeds, all the lines are in step with the words.
LEMMA ParsedInStep ==
  ASSUME NEW source \in Seq(SourceLines)
  PROVE  /\ IsState(Parse(source))
         /\ Parse(source).ok => InStep(Parse(source), source, Len(source))
<1> DEFINE n == Len(source)
<1>1. n \in Nat
  OBVIOUS
<1>2. PICK states : /\ states[0] = Parsing
                    /\ \A k \in 1..n : states[k] = ParseLine(states[k - 1], source[k])
                    /\ Parse(source) = states[n]
  BY ParseStates
<1> DEFINE T == {k \in 0..n : IsState(states[k]) /\ (states[k].ok => InStep(states[k], source, k))}
<1>3. 0 \in T
  <2>1. IsState(Parsing)
    BY DEF IsState, Parsing
  <2>2. InStep(Parsing, source, 0)
    <3>1. WordsIn(source, 0) = {} /\ 1..0 = {}
      BY DEF WordsIn
    <3>2. Cardinality(WordsIn(source, 0)) = 0
      BY <3>1, FS_EmptySet
    <3>3. Parsing.instructions = <<>> /\ Parsing.symbols = <<>> /\ Parsing.address = 0
      BY DEF Parsing
    <3>4. IsSymbols(Parsing.symbols)
      BY <3>3 DEF IsSymbols
    <3> QED BY <3>1, <3>2, <3>3, <3>4 DEF InStep
  <2> QED BY <1>1, <1>2, <2>1, <2>2
<1>4. ASSUME NEW k \in 0..(n - 1), k \in T PROVE k + 1 \in T
  <2>1. k + 1 \in 1..n /\ k + 1 \in 0..n /\ (k + 1) - 1 = k
    BY <1>1
  <2>2. states[k + 1] = ParseLine(states[k], source[k + 1])
    BY <1>2, <2>1
  <2>3. IsState(states[k + 1])
    BY <1>4, <2>2, ParseIsState
  <2>4. states[k + 1].ok => InStep(states[k + 1], source, k + 1)
    BY <1>4, <2>1, <2>2, ParseStep
  <2> QED BY <2>1, <2>3, <2>4
<1> HIDE DEF T
<1>5. n \in T
  <2> HIDE DEF n
  <2>1. \A k \in 0..n : k \in T
    BY <1>1, <1>3, <1>4, InductiveUpTo
  <2> QED BY <1>1, <2>1
<1> QED BY <1>2, <1>5 DEF T

-----------------------------------------------------------------------------
(* The run. *)

Frames == [file : Files, rest : Seq(Items)]

RunTypes ==
  /\ argument \in Paths /\ target \in Paths
  /\ original \in [Files -> {Absent} \cup SourceFiles]
  /\ included \in SUBSET Files
  /\ stack \in Seq(Frames) /\ lines \in Seq(SourceLines)
  /\ report # "none" <=> stage = "failed"
  /\ stage \in {"assemble", "done"} => Opened
  /\ Opened => stage \in {"assemble", "done", "failed"}

\* The output has been compared with the files read; the lines have been parsed.
Compared == stage \in {"parse", "create"} \/ Opened
Parsed   == stage = "create" \/ Opened

\* The words of a program's first n instructions, and the instructions that are
\* accepted.
WordsOf(program, n) ==
  [k \in 1..n |-> Encoded(program.instructions[k].parts, program.instructions[k].address,
                          program.symbols)]

AcceptedOf(program) ==
  {k \in Nat : Accepted(program.instructions[k].parts, program.instructions[k].address,
                        program.symbols)}

\* All that has changed on the disk is the output, which holds n words, and a part
\* of one more if it is torn.
Holding(kind, n) ==
  /\ disk = [original EXCEPT ![RealPath[target]] = Contents(kind, WordsOf(parsed, n))]
  /\ n <= written
  /\ kind = "torn" => n < written

\* The output holds the words of the instructions so far, unless it was cut, and
\* the run is where this leads.
OutputIsWritten ==
  /\ written \in 0..Len(parsed.instructions)
  /\ 1..written \subseteq AcceptedOf(parsed)
  /\ outFile # "cut" => Holding("binary", written)
  /\ outFile = "cut" => stage = "failed" /\ \E n \in Nat, kind \in {"binary", "torn"} : Holding(kind, n)
  /\ stage = "assemble" => outFile = "open"
  /\ stage = "done"     => outFile = "closed" /\ written = Len(parsed.instructions)
  /\ stage = "failed"   => Rejected \/ outFile = "cut"
  /\ Rejected => written < Len(parsed.instructions) /\ written + 1 \notin AcceptedOf(parsed)

RunInv ==
  /\ RunTypes
  /\ Compared => RealPath[target] \notin included
  /\ Parsed   => parsed = Parse(lines) /\ parsed.ok
  /\ IF Opened THEN OutputIsWritten ELSE disk = original /\ written = 0

LEMMA ItemKinds ==
  ASSUME NEW item \in Items
  PROVE  /\ item.kind = "line" => item.line \in SourceLines
         /\ item.kind = "include" => item.path \in Paths
<1>1. CASE \E path \in Paths : item = Include(path)
  BY <1>1 DEF Include
<1>2. CASE \E line \in SourceLines : item = Holds(line)
  <2>1. PICK line \in SourceLines : item = Holds(line)
    BY <1>2
  <2>2. item.kind = "line" /\ item.line = line
    BY <2>1 DEF Holds
  <2> QED BY <2>1, <2>2
<1>3. CASE item = Malformed
  BY <1>3 DEF Malformed
<1> QED BY <1>1, <1>2, <1>3 DEF Items

\* The innermost call, and what is left when it goes on or returns.
LEMMA TopFrame ==
  ASSUME stack \in Seq(Frames), stack # <<>>
  PROVE  /\ Front(stack) \in Seq(Frames)
         /\ Top.rest # <<>> => Item \in Items /\ Advanced \in Seq(Frames)
<1>1. Len(stack) \in Nat \ {0} /\ Top \in Frames
  BY DEF Top, Last
<1>2. Front(stack) \in Seq(Frames)
  BY <1>1 DEF Front
<1>3. Top.rest \in Seq(Items)
  BY <1>1 DEF Frames
<1>4. ASSUME Top.rest # <<>> PROVE Item \in Items /\ Advanced \in Seq(Frames)
  <2>1. Item \in Items /\ Tail(Top.rest) \in Seq(Items)
    BY <1>3, <1>4 DEF Item
  <2>2. [Top EXCEPT !.rest = Tail(@)] \in Frames
    BY <1>1, <2>1 DEF Frames
  <2> QED BY <1>2, <2>1, <2>2 DEF Advanced
<1> QED BY <1>2, <1>4

\* Entering a file leaves the calls well formed.
LEMMA EnterTypes ==
  ASSUME RunInv, stage \in {"open", "read"}, NEW path \in Paths,
         NEW continued \in Seq(Frames), NEW missing \in {"no line", "line"},
         Enter(path, continued, missing), UNCHANGED <<disk, argument, target, lines, parsed, written, outFile, original>>
  PROVE  RunInv'
<1>1. report = "none" /\ ~Opened /\ disk = original /\ written = 0
  <2>1. report = "none"
    BY DEF RunInv, RunTypes
  <2>2. ~Opened
    BY DEF RunInv, RunTypes
  <2> QED BY <2>1, <2>2 DEF RunInv
<1> DEFINE f == RealPath[path]
<1>2. f \in Files
  BY PathsAssumption
<1>3. disk[f] # Absent => Push(continued, f) \in Seq(Frames)
  <2> SUFFICES ASSUME disk[f] # Absent PROVE Push(continued, f) \in Seq(Frames)
    OBVIOUS
  <2>1. disk[f] \in SourceFiles
    BY <1>1, <1>2 DEF RunInv, RunTypes
  <2> DEFINE frame == [file |-> f, rest |-> disk[f].items]
  <2>2. frame \in Frames
    BY <1>2, <2>1 DEF SourceFiles, Frames
  <2>3. Push(continued, f) = Append(continued, frame)
    BY DEF Push
  <2> HIDE DEF frame, Frames
  <2>4. Append(continued, frame) \in Seq(Frames)
    BY <2>2, AppendProperties
  <2> QED BY <2>3, <2>4
<1>4. /\ included' \in SUBSET Files /\ stack' \in Seq(Frames)
      /\ \/ stage' = "read" /\ report' = "none"
         \/ stage' = "failed" /\ report' = missing
  <2>1. included' = included \cup {f}
    BY DEF Enter
  <2>2. CASE f \in included
    BY <1>1, <1>2, <2>1, <2>2 DEF Enter, RunInv, RunTypes
  <2>3. CASE f \notin included /\ disk[f] = Absent
    BY <1>1, <1>2, <2>1, <2>3 DEF Enter, Fail, RunInv, RunTypes
  <2>4. CASE f \notin included /\ disk[f] # Absent
    BY <1>1, <1>2, <1>3, <2>1, <2>4 DEF Enter, RunInv, RunTypes
  <2> QED BY <2>2, <2>3, <2>4
<1>5. ~Opened'
  BY <1>1 DEF Opened
<1>6. RunTypes' /\ ~Compared' /\ ~Parsed'
  BY <1>4, <1>5 DEF RunInv, RunTypes, Compared, Parsed
<1> QED BY <1>1, <1>5, <1>6 DEF RunInv

LEMMA RunInvInit == AssemblerInit => RunInv
<1> SUFFICES ASSUME AssemblerInit PROVE RunInv
  OBVIOUS
<1>1. /\ stage = "open" /\ report = "none" /\ stack = <<>> /\ included = {} /\ lines = <<>>
      /\ written = 0 /\ outFile = "unopened" /\ original = disk /\ argument \in Paths /\ target \in Paths
      /\ disk \in [Files -> {Absent} \cup SourceFiles]
  BY DEF AssemblerInit, RunInit
<1>2. RunTypes
  BY <1>1 DEF RunTypes, Opened
<1>3. ~Opened /\ ~Compared /\ ~Parsed
  BY <1>1 DEF Opened, Compared, Parsed
<1> QED BY <1>1, <1>2, <1>3 DEF RunInv

\* The words written so far and one more.
LEMMA OneMore ==
  ASSUME NEW program, NEW n \in Nat
  PROVE  Append(WordsOf(program, n),
                Encoded(program.instructions[n + 1].parts, program.instructions[n + 1].address,
                        program.symbols))
           = WordsOf(program, n + 1)
<1> DEFINE w == WordsOf(program, n + 1)
           words == WordsOf(program, n)
           content == {w[k] : k \in 1..(n + 1)}
<1>1. /\ w = [k \in 1..(n + 1) |-> w[k]]
      /\ words = [k \in 1..n |-> w[k]]
      /\ w[n + 1] = Encoded(program.instructions[n + 1].parts,
                            program.instructions[n + 1].address, program.symbols)
  BY DEF WordsOf
<1> HIDE DEF w, words
<1>2. words \in Seq(content) /\ Len(words) = n /\ w[n + 1] \in content
  <2>1. words \in [1..n -> content] /\ w[n + 1] \in content
    BY <1>1
  <2> HIDE DEF content
  <2>2. words \in Seq(content) /\ DOMAIN words = 1..n
    BY <2>1
  <2> QED BY <2>1, <2>2
<1>3. \A k \in 1..n : words[k] = w[k]
  BY <1>1
<1> DEFINE more == Append(words, w[n + 1])
<1>4. /\ more \in Seq(content) /\ Len(more) = n + 1
      /\ \A k \in 1..n : more[k] = w[k]
      /\ more[n + 1] = w[n + 1]
  <2> HIDE DEF content
  <2> QED BY <1>2, <1>3, AppendProperties
<1> HIDE DEF more
<1>5. more = [k \in 1..(n + 1) |-> more[k]] /\ \A k \in 1..(n + 1) : more[k] = w[k]
  BY <1>4
<1>6. more = w
  BY <1>1, <1>5
<1> QED BY <1>1, <1>6 DEF more, w, words

LEMMA ReadInv ==
  ASSUME RunInv, ReadLine \/ ReadMalformed \/ Return \/ AllRead, UNCHANGED original
  PROVE  RunInv'
<1>1. /\ stage = "read" /\ report = "none" /\ ~Opened /\ disk = original /\ written = 0
      /\ RunTypes
  <2>1. stage = "read" /\ report = "none" /\ RunTypes
    BY DEF RunInv, RunTypes, ReadLine, ReadMalformed, Return, AllRead
  <2>2. ~Opened
    BY <2>1 DEF RunTypes
  <2> QED BY <2>1, <2>2 DEF RunInv
<1>2. UNCHANGED <<disk, argument, target, included, written, outFile, original>>
  BY DEF ReadLine, ReadMalformed, Return, AllRead
<1>3. /\ \/ stage' \in {"read", "compare"} /\ report' = "none"
         \/ stage' = "failed" /\ report' = "line"
      /\ stack' \in Seq(Frames) /\ lines' \in Seq(SourceLines)
  <2>1. stack \in Seq(Frames) /\ lines \in Seq(SourceLines)
    BY <1>1 DEF RunTypes
  <2>2. CASE ReadLine
    <3>1. Item \in Items /\ Item.kind = "line" /\ Advanced \in Seq(Frames)
      BY <2>1, <2>2, TopFrame DEF ReadLine
    <3>2. Item.line \in SourceLines
      BY <3>1, ItemKinds
    <3> QED BY <1>1, <2>1, <2>2, <3>1, <3>2, AppendProperties DEF ReadLine
  <2>3. CASE ReadMalformed
    BY <2>1, <2>3 DEF ReadMalformed, Fail
  <2>4. CASE Return
    BY <1>1, <2>1, <2>4, TopFrame DEF Return
  <2>5. CASE AllRead
    BY <1>1, <2>1, <2>5 DEF AllRead
  <2> QED BY <2>2, <2>3, <2>4, <2>5
<1>4. ~Opened'
  BY <1>1, <1>2 DEF Opened
<1>5. RunTypes' /\ ~Compared' /\ ~Parsed'
  BY <1>1, <1>2, <1>3, <1>4 DEF RunTypes, Compared, Parsed
<1> QED BY <1>1, <1>2, <1>4, <1>5 DEF RunInv

LEMMA CompareInv ==
  ASSUME RunInv, Compare, UNCHANGED original
  PROVE  RunInv'
<1>1. stage = "compare" /\ report = "none" /\ RunTypes
  BY DEF RunInv, RunTypes, Compare
<1>2. disk = original /\ written = 0 /\ ~Opened
  BY <1>1 DEF RunInv, RunTypes
<1>3. UNCHANGED <<disk, argument, target, stack, included, lines, written, outFile, original>>
  BY DEF Compare
<1>4. \/ stage' = "failed" /\ report' = "no line"
      \/ stage' = "parse" /\ report' = "none" /\ RealPath[target] \notin included
  BY <1>1 DEF Compare, Fail
<1>5. ~Opened'
  BY <1>2, <1>3 DEF Opened
<1>6. RunTypes' /\ ~Parsed' /\ (Compared' => RealPath[target]' \notin included')
  BY <1>1, <1>3, <1>4, <1>5 DEF RunTypes, Compared, Parsed
<1> QED BY <1>2, <1>3, <1>5, <1>6 DEF RunInv

LEMMA ParseInv ==
  ASSUME RunInv, ParseLines, UNCHANGED original
  PROVE  RunInv'
<1>1. stage = "parse" /\ report = "none" /\ RunTypes
  BY DEF RunInv, RunTypes, ParseLines
<1>2. disk = original /\ written = 0 /\ ~Opened /\ RealPath[target] \notin included
  BY <1>1 DEF RunInv, RunTypes, Compared
<1>3. UNCHANGED <<disk, argument, target, stack, included, lines, written, outFile, original>>
  BY DEF ParseLines
<1>4. \/ stage' = "failed" /\ report' = "line"
      \/ stage' = "create" /\ report' = "none" /\ parsed' = Parse(lines)' /\ parsed'.ok
  <2>1. Parse(lines') = Parse(lines)
    BY <1>3
  <2> QED BY <1>1, <2>1 DEF ParseLines, Fail
<1>5. ~Opened'
  BY <1>2, <1>3 DEF Opened
<1>6. RunTypes' /\ (Parsed' => parsed' = Parse(lines)' /\ parsed'.ok)
  BY <1>1, <1>3, <1>4, <1>5 DEF RunTypes, Parsed
<1> QED BY <1>2, <1>3, <1>5, <1>6 DEF RunInv

\* What a parsed program is.
LEMMA ParsedProgram ==
  ASSUME RunInv, Parsed
  PROVE  /\ IsState(parsed) /\ InStep(parsed, lines, Len(lines))
         /\ parsed.instructions \in Seq(Places) /\ Len(parsed.instructions) \in Nat
         /\ RealPath[target] \notin included /\ RealPath[target] \in Files
         /\ original \in [Files -> {Absent} \cup SourceFiles]
<1>1. /\ parsed = Parse(lines) /\ parsed.ok /\ lines \in Seq(SourceLines)
      /\ RealPath[target] \notin included /\ target \in Paths
      /\ original \in [Files -> {Absent} \cup SourceFiles]
  BY DEF RunInv, RunTypes, Parsed, Compared
<1>2. IsState(parsed) /\ InStep(parsed, lines, Len(lines))
  BY <1>1, ParsedInStep
<1>3. parsed.instructions \in Seq(Places)
  BY <1>2 DEF InStep
<1> QED BY <1>1, <1>2, <1>3, PathsAssumption

LEMMA CreateInv ==
  ASSUME RunInv, Create, UNCHANGED original
  PROVE  RunInv'
<1>1. stage = "create" /\ report = "none" /\ RunTypes
  BY DEF RunInv, RunTypes, Create
<1>2. /\ disk = original /\ written = 0 /\ ~Opened /\ RealPath[target] \notin included
      /\ parsed = Parse(lines) /\ parsed.ok /\ Len(parsed.instructions) \in Nat
  BY <1>1, ParsedProgram DEF RunInv, RunTypes, Compared, Parsed
<1>3. UNCHANGED <<argument, target, stack, included, lines, parsed, written, original>>
  BY DEF Create
<1>4. \/ stage' = "failed" /\ report' = "no line" /\ disk' = disk /\ outFile' = outFile
      \/ /\ stage' = "assemble" /\ report' = "none" /\ outFile' = "open"
         /\ disk' = [disk EXCEPT ![RealPath[target]] = Contents("binary", <<>>)]
  BY <1>1 DEF Create, Fail
<1>5. RunTypes' /\ RealPath[target]' \notin included' /\ parsed' = Parse(lines)' /\ parsed'.ok
  BY <1>1, <1>2, <1>3, <1>4 DEF RunTypes, Opened
<1>6. CASE stage' = "failed" /\ report' = "no line" /\ disk' = disk /\ outFile' = outFile
  <2>1. ~Opened'
    BY <1>2, <1>6 DEF Opened
  <2> QED BY <1>2, <1>3, <1>5, <1>6, <2>1 DEF RunInv
<1>7. CASE /\ stage' = "assemble" /\ report' = "none" /\ outFile' = "open"
           /\ disk' = [disk EXCEPT ![RealPath[target]] = Contents("binary", <<>>)]
  <2>1. written' = 0 /\ WordsOf(parsed', written') = <<>> /\ 1..written' = {}
    BY <1>2, <1>3 DEF WordsOf
  <2>2. Holding("binary", written)'
    <3>1. disk' = [original' EXCEPT ![RealPath[target']] =
                     Contents("binary", WordsOf(parsed', written'))]
      BY <1>2, <1>3, <1>7, <2>1
    <3>2. written' <= written'
      BY <2>1
    <3> QED BY <3>1, <3>2 DEF Holding
  <2>3. written' \in 0..Len(parsed'.instructions) /\ 1..written' \subseteq AcceptedOf(parsed')
    BY <1>2, <1>3, <2>1
  <2>4. OutputIsWritten'
    BY <1>7, <2>2, <2>3 DEF OutputIsWritten, Rejected
  <2> QED BY <1>5, <2>4, <1>7 DEF RunInv, Opened
<1> QED BY <1>4, <1>6, <1>7

\* The first words of the first words.
LEMMA FirstWords ==
  ASSUME NEW program, NEW many \in Nat, NEW n \in 0..many
  PROVE  SubSeq(WordsOf(program, many), 1, n) = WordsOf(program, n)
<1> DEFINE words   == WordsOf(program, many)
           content == {words[k] : k \in 1..many}
<1>1. /\ words = [k \in 1..many |-> words[k]]
      /\ WordsOf(program, n) = [k \in 1..n |-> words[k]]
  BY DEF WordsOf
<1> HIDE DEF words
<1>2. words \in Seq(content) /\ Len(words) = many
  <2>1. words \in [1..many -> content]
    BY <1>1
  <2> HIDE DEF content
  <2> QED BY <2>1
<1> DEFINE some == SubSeq(words, 1, n)
<1>3. some = [k \in 1..n |-> words[k]]
  <2> HIDE DEF content
  <2>1. /\ some \in Seq(content) /\ Len(some) = n
        /\ \A k \in 1..n : some[k] = words[k]
    BY <1>2, SubSeqProperties
  <2> HIDE DEF some
  <2>2. some = [k \in 1..n |-> some[k]]
    BY <2>1
  <2> QED BY <2>1, <2>2
<1> QED BY <1>1, <1>3 DEF words

\* A file cut short holds the first of its words.
LEMMA CutKeeps ==
  ASSUME original \in [Files -> {Absent} \cup SourceFiles], RealPath[target] \in Files,
         written \in Nat, Holding("binary", written), Cut,
         UNCHANGED <<target, original, parsed, written>>
  PROVE  \E n \in Nat, kind \in {"binary", "torn"} : Holding(kind, n)'
<1> DEFINE t == RealPath[target]
<1>1. PICK n \in 0..written, kind \in {"binary", "torn"} :
        /\ kind = "torn" => n < written
        /\ disk' = [disk EXCEPT ![t] = Contents(kind, SubSeq(Output.items, 1, n))]
  BY DEF Cut
<1>2. Output.items = WordsOf(parsed, written)
  BY DEF Holding, Output, Contents
<1>3. SubSeq(Output.items, 1, n) = WordsOf(parsed, n)
  BY <1>2, FirstWords
<1>4. disk' = [original EXCEPT ![t] = Contents(kind, WordsOf(parsed, n))]
  <2> DEFINE c == Contents(kind, WordsOf(parsed, n))
  <2> HIDE DEF c, t
  <2>1. disk' = [disk EXCEPT ![t] = c]
    BY <1>1, <1>3 DEF c, t
  <2>2. \E d : disk = [original EXCEPT ![t] = d]
    BY DEF Holding, t
  <2>3. disk' = [original EXCEPT ![t] = c]
    BY <2>1, <2>2
  <2> QED BY <2>3 DEF c
<1>5. n <= written' /\ n \in Nat
  BY <1>1
<1>6. kind = "torn" => n < written'
  BY <1>1
<1>7. disk' = [original' EXCEPT ![RealPath[target']] = Contents(kind, WordsOf(parsed', n))]
  BY <1>4
<1>8. Holding(kind, n)'
  BY <1>5, <1>6, <1>7 DEF Holding
<1> QED BY <1>5, <1>8

LEMMA AssembleInv ==
  ASSUME RunInv, AssembleNext \/ WriteFails \/ Finish, UNCHANGED original
  PROVE  RunInv'
<1> DEFINE t        == RealPath[target]
           size     == Len(parsed.instructions)
           accepted == AcceptedOf(parsed)
           word     == Encoded(Current.parts, Current.address, parsed.symbols)
<1>1. stage = "assemble" /\ report = "none" /\ RunTypes /\ Opened
  BY DEF RunInv, RunTypes, AssembleNext, WriteFails, Finish
<1>2. /\ OutputIsWritten /\ t \in Files /\ t \notin included
      /\ parsed = Parse(lines) /\ parsed.ok /\ size \in Nat
      /\ original \in [Files -> {Absent} \cup SourceFiles]
  BY <1>1, ParsedProgram DEF RunInv, Compared, Parsed
<1>3. UNCHANGED <<argument, target, stack, included, lines, parsed, original>>
  BY DEF AssembleNext, WriteFails, Finish
<1>4. /\ size \in Nat /\ written \in Nat /\ written \in 0..size /\ 1..written \subseteq accepted
      /\ Holding("binary", written) /\ outFile = "open"
  BY <1>1, <1>2 DEF OutputIsWritten
<1>5. written + 1 \in accepted <=> CurrentAccepted
  BY <1>4 DEF Current, CurrentAccepted, AcceptedOf
<1>6. ASSUME Cut, written' = written
      PROVE  \E n \in Nat, kind \in {"binary", "torn"} : Holding(kind, n)'
  BY <1>2, <1>3, <1>4, <1>6, CutKeeps
<1>7. ASSUME disk' = disk, written' = written PROVE Holding("binary", written)'
  BY <1>3, <1>4, <1>7 DEF Holding
<1> SUFFICES /\ report' # "none" <=> stage' = "failed"
             /\ outFile' # "unopened" /\ stage' \in {"assemble", "done", "failed"}
             /\ OutputIsWritten'
  <2>1. RunTypes' /\ Opened'
    BY <1>1, <1>3 DEF RunTypes, Opened
  <2>2. parsed' = Parse(lines)' /\ parsed'.ok /\ RealPath[target]' \notin included'
    BY <1>2, <1>3
  <2> QED BY <2>1, <2>2 DEF RunInv
<1>8. CASE Finish
  <2>1. /\ stage' = "done" /\ report' = "none" /\ written' = written /\ written = size
        /\ disk' = disk /\ outFile' = "closed"
    BY <1>1, <1>8 DEF Finish, Close
  <2> QED BY <1>3, <1>4, <1>7, <2>1 DEF OutputIsWritten, Rejected
<1>9. CASE AssembleNext /\ ~CurrentAccepted
  <2>1. /\ stage' = "failed" /\ report' = "line and text" /\ written' = written
        /\ Close \/ Cut
        /\ written < size
    BY <1>9 DEF AssembleNext, Fail
  <2>2. CASE Close
    <3>1. outFile' = "closed" /\ disk' = disk
      BY <2>2 DEF Close
    <3> QED BY <1>3, <1>4, <1>5, <1>7, <1>9, <2>1, <3>1 DEF OutputIsWritten, Rejected
  <2>3. CASE Cut
    <3>1. outFile' = "cut"
      BY <2>3 DEF Cut
    <3> QED BY <1>3, <1>4, <1>5, <1>6, <1>9, <2>1, <2>3, <3>1 DEF OutputIsWritten, Rejected
  <2> QED BY <2>1, <2>2, <2>3
<1>10. CASE WriteFails
  <2>1. /\ stage' = "failed" /\ report' = "no line" /\ written' = written
        /\ Cut /\ outFile' = "cut"
    BY <1>10 DEF WriteFails, Fail, Cut
  <2> QED BY <1>3, <1>4, <1>6, <2>1 DEF OutputIsWritten, Rejected
<1>11. CASE AssembleNext /\ CurrentAccepted
  <2>1. /\ stage' = "assemble" /\ report' = "none" /\ written' = written + 1
        /\ written < size /\ outFile' = "open"
        /\ disk' = [disk EXCEPT ![t].items = Append(@, word)]
    BY <1>1, <1>4, <1>11 DEF AssembleNext
  <2>2. disk' = [original EXCEPT ![t] = Contents("binary", WordsOf(parsed, written'))]
    <3> DEFINE before == WordsOf(parsed, written)
               after  == WordsOf(parsed, written')
    <3>1. Append(before, word) = after
      BY <1>4, <2>1, OneMore DEF Current
    <3>2. disk = [original EXCEPT ![t] = Contents("binary", before)]
      BY <1>4 DEF Holding
    <3> HIDE DEF before, after, t, word
    <3>3. disk[t] = Contents("binary", before)
      BY <1>2, <3>2
    <3>4. [disk[t] EXCEPT !.items = Append(@, word)] = Contents("binary", after)
      BY <3>1, <3>3 DEF Contents
    <3>5. disk' = [disk EXCEPT ![t] = Contents("binary", after)]
      BY <2>1, <3>4
    <3> QED BY <1>2, <3>2, <3>5 DEF after
  <2>3. Holding("binary", written)'
    <3>1. disk' = [original' EXCEPT ![RealPath[target']] =
                     Contents("binary", WordsOf(parsed', written'))]
      BY <1>3, <2>2
    <3>2. written' <= written'
      BY <1>4, <2>1
    <3> QED BY <3>1, <3>2 DEF Holding
  <2>4. 1..written' \subseteq accepted
    <3>1. 1..written' = (1..written) \cup {written + 1}
      BY <1>4, <2>1
    <3> QED BY <1>4, <1>5, <1>11, <3>1
  <2>5. written' \in 0..size
    BY <1>4, <2>1
  <2> QED BY <1>3, <2>1, <2>3, <2>4, <2>5 DEF OutputIsWritten, Rejected
<1> QED BY <1>8, <1>9, <1>10, <1>11

LEMMA RunInvStep == RunInv /\ [AssemblerNext]_assemblerVars => RunInv'
<1> SUFFICES ASSUME RunInv, [AssemblerNext]_assemblerVars PROVE RunInv'
  OBVIOUS
<1>1. CASE UNCHANGED <<runVars, original>>
  BY <1>1 DEF runVars, RunInv, RunTypes, Compared, Parsed, Opened, OutputIsWritten, Holding, Rejected
<1>2. CASE RunNext /\ UNCHANGED original
  <2>1. CASE OpenSource
    <3>1. argument \in Paths /\ <<>> \in Seq(Frames)
      BY DEF RunInv, RunTypes
    <3> QED BY <1>2, <2>1, <3>1, EnterTypes DEF OpenSource
  <2>2. CASE ReadInclude
    <3>1. Item \in Items /\ Item.kind = "include" /\ Advanced \in Seq(Frames)
      BY <2>2, TopFrame DEF ReadInclude, RunInv, RunTypes
    <3>2. Item.path \in Paths
      BY <3>1, ItemKinds
    <3> QED BY <1>2, <2>2, <3>1, <3>2, EnterTypes DEF ReadInclude
  <2>3. CASE ReadLine \/ ReadMalformed \/ Return \/ AllRead
    BY <1>2, <2>3, ReadInv
  <2>4. CASE Compare
    BY <1>2, <2>4, CompareInv
  <2>5. CASE ParseLines
    BY <1>2, <2>5, ParseInv
  <2>6. CASE Create
    BY <1>2, <2>6, CreateInv
  <2>7. CASE AssembleNext \/ WriteFails \/ Finish
    BY <1>2, <2>7, AssembleInv
  <2>8. CASE Ended
    BY <1>1, <1>2, <2>8 DEF Ended
  <2> QED BY <1>2, <2>1, <2>2, <2>3, <2>4, <2>5, <2>6, <2>7, <2>8 DEF RunNext, RunStep
<1> QED BY <1>1, <1>2 DEF AssemblerNext, assemblerVars

\* Whatever the files are, the run keeps what is known of it.
THEOREM RunInvariance == AssemblerSpec => []RunInv
<1>1. AssemblerInit => RunInv
  BY RunInvInit
<1>2. RunInv /\ [AssemblerNext]_assemblerVars => RunInv'
  BY RunInvStep
<1> QED BY <1>1, <1>2, PTL DEF AssemblerSpec

-----------------------------------------------------------------------------
(* What follows for the files and for the lines. *)

\* The disk differs from what it was in the output alone, and the output is no
\* file that was read.
THEOREM InputsStayKept == AssemblerSpec => []InputsAreKept
<1>1. ASSUME RunInv PROVE InputsAreKept
  <2>1. CASE Opened
    <3>1. RealPath[target] \notin included
      BY <1>1, <2>1 DEF RunInv, Compared
    <3>2. \E c : disk = [original EXCEPT ![RealPath[target]] = c]
      BY <1>1, <2>1 DEF RunInv, OutputIsWritten, Holding
    <3>3. included \subseteq DOMAIN original
      BY <1>1 DEF RunInv, RunTypes
    <3> QED BY <3>1, <3>2, <3>3 DEF InputsAreKept
  <2>2. CASE ~Opened
    BY <1>1, <2>2 DEF RunInv, InputsAreKept
  <2> QED BY <2>1, <2>2
<1> QED BY <1>1, RunInvariance, PTL

LEMMA OutputFollows ==
  ASSUME RunInv
  PROVE  OutputIsAPrefix
<1>1. CASE Opened
  <2> DEFINE t == RealPath[target]
  <2>1. /\ OutputIsWritten /\ t \in DOMAIN original /\ Len(parsed.instructions) \in Nat
    BY <1>1, ParsedProgram DEF RunInv, Parsed
  <2>2. written \in Nat
    BY <2>1 DEF OutputIsWritten
  <2>3. PICK n \in Nat, kind \in {"binary", "torn"} :
          Holding(kind, n) /\ (outFile # "cut" => kind = "binary" /\ n = written)
    BY <2>1, <2>2 DEF OutputIsWritten
  <2>4. /\ Output.kind = kind /\ Output.items = WordsOf(parsed, n)
        /\ n <= written
        /\ kind = "torn" => n < written
    BY <2>1, <2>3 DEF Holding, Output, Contents
  <2>5. Len(Output.items) = n
    BY <2>4 DEF WordsOf
  <2>6. ASSUME NEW k \in 1..n PROVE AcceptedAt(k) /\ Output.items[k] = EncodedAt(k)
    <3>1. k \in AcceptedOf(parsed)
      BY <2>1, <2>2, <2>4 DEF OutputIsWritten
    <3>2. WordsOf(parsed, n)[k] = EncodedAt(k)
      BY DEF WordsOf, EncodedAt, Instruction
    <3> QED BY <2>4, <3>1, <3>2 DEF AcceptedOf, AcceptedAt, Instruction
  <2>7. Rejected => written < Len(parsed.instructions) /\ ~AcceptedAt(written + 1)
    BY <2>1, <2>2 DEF OutputIsWritten, AcceptedOf, AcceptedAt, Instruction
  <2>8. /\ stage = "done" => outFile = "closed" /\ written = Len(parsed.instructions)
        /\ stage = "failed" => Rejected \/ outFile = "cut"
        /\ outFile = "cut" => stage = "failed"
    BY <2>1 DEF OutputIsWritten
  <2>9. \/ Output.kind = "binary" /\ Len(Output.items) = written
        \/ Output.kind = "binary" /\ outFile = "cut"
        \/ Output.kind = "torn" /\ outFile = "cut" /\ Len(Output.items) < written
    BY <2>3, <2>4, <2>5
  <2>10. \A k \in Words : AcceptedAt(k) /\ Output.items[k] = EncodedAt(k)
    BY <2>5, <2>6 DEF Words
  <2> QED BY <1>1, <2>4, <2>5, <2>7, <2>8, <2>9, <2>10 DEF OutputIsAPrefix
<1>2. CASE ~Opened
  BY <1>2 DEF RunInv, OutputIsAPrefix, Output
<1> QED BY <1>1, <1>2

\* The output, wherever the run is or stops, is untouched or holds the first words
\* of the program: all those accepted so far unless a write or the close failed,
\* and all of the program's if the run succeeds.
THEOREM OutputStaysAPrefix == AssemblerSpec => []OutputIsAPrefix
BY OutputFollows, RunInvariance, PTL

\* Addresses counted while parsing are the places of the words in the output.
THEOREM LinesStayInStep == AssemblerSpec => []LinesMeetTheirWords
<1>1. ASSUME RunInv PROVE LinesMeetTheirWords
  <2> SUFFICES ASSUME Opened PROVE LinesMeetTheirWords
    BY DEF LinesMeetTheirWords
  <2>1. InStep(parsed, lines, Len(lines)) /\ lines \in Seq(SourceLines)
    BY <1>1, ParsedProgram DEF Parsed, RunInv, RunTypes
  <2>2. \A n : Counted(n) = WordsIn(lines, n)
    BY DEF Counted, WordsIn, IsWord
  <2>3. Len(parsed.instructions) = Cardinality(Counted(Len(lines)))
    BY <2>1, <2>2 DEF InStep
  <2>4. ASSUME NEW j \in 1..Len(lines)
        PROVE  LET before == Cardinality(Counted(j - 1)) IN
               /\ lines[j].labels # <<>> => parsed.symbols[lines[j].labels[1]] = 4 * before
               /\ j \in Counted(j) =>
                    Instruction(before + 1) = [parts |-> lines[j].parts, address |-> 4 * before]
    <3>1. Cardinality(Counted(j - 1)) = Before(lines, j)
      BY <2>2 DEF Before
    <3>2. j \in Counted(j) => IsWord(lines[j])
      BY DEF Counted, IsWord
    <3> QED BY <2>1, <3>1, <3>2 DEF InStep, Instruction
  <2> QED BY <2>3, <2>4 DEF LinesMeetTheirWords
<1> QED BY <1>1, RunInvariance, PTL

-----------------------------------------------------------------------------
(* The two tables of the instruction set, and the fields of a word. *)

LEMMA TheMnemonics ==
  /\ DOMAIN RFuncs = {"SLL", "SRL", "SRA", "ADD", "SUB", "AND", "OR", "XOR", "SGT", "SEQ", "SGE",
                      "SLT", "SNE", "SLE"}
  /\ DOMAIN SFuncs = {"MOVI2S", "MOVS2I"}
  /\ DOMAIN JCodes = {"J", "JAL", "RFE", "INT"}
  /\ DOMAIN ICodes = {"BEQZ", "BNEZ", "ADDI", "ADDUI", "SUBI", "SUBUI", "ANDI", "ORI", "XORI", "LHI",
                      "JR", "JALR", "SLLI", "SRLI", "SRAI", "SGTI", "SEQI", "SGEI", "SLTI", "SNEI",
                      "SLEI"}
  /\ DOMAIN MCodes = {"LB", "LH", "LW", "LBU", "LHU", "SB", "SH", "SW"}
BY DEF RFuncs, SFuncs, JCodes, ICodes, MCodes

LEMMA FunctionsAgree ==
  /\ DOMAIN Functions6 = DOMAIN FuncTable
  /\ \A m \in DOMAIN Functions6 : Functions6[m] = FuncTable[m] /\ Functions6[m] \in 1..63
<1>1. DOMAIN Functions6 = DOMAIN RFuncs \cup DOMAIN SFuncs
  BY DEF Functions6, Merge
<1>2. DOMAIN Functions6 = DOMAIN FuncTable
  BY <1>1, TheMnemonics DEF FuncTable
<1>3. ASSUME NEW m \in DOMAIN RFuncs PROVE Functions6[m] = FuncTable[m] /\ Functions6[m] \in 1..63
  BY <1>3, TheMnemonics DEF Functions6, Merge, RFuncs, FuncTable
<1>4. ASSUME NEW m \in DOMAIN SFuncs PROVE Functions6[m] = FuncTable[m] /\ Functions6[m] \in 1..63
  BY <1>4, TheMnemonics DEF Functions6, Merge, SFuncs, FuncTable
<1> QED BY <1>1, <1>2, <1>3, <1>4

LEMMA OpcodesAgree ==
  /\ DOMAIN Opcodes6 = DOMAIN OpcodeTable
  /\ DOMAIN Opcodes6 = DOMAIN JCodes \cup DOMAIN ICodes \cup DOMAIN MCodes
  /\ \A m \in DOMAIN Opcodes6 : Opcodes6[m] = OpcodeTable[m] /\ Opcodes6[m] \in 1..63
<1>1. DOMAIN Opcodes6 = DOMAIN JCodes \cup DOMAIN ICodes \cup DOMAIN MCodes
  BY DEF Opcodes6, Merge
<1>2. DOMAIN Opcodes6 = DOMAIN OpcodeTable
  BY <1>1, TheMnemonics DEF OpcodeTable
<1>3. ASSUME NEW m \in DOMAIN JCodes PROVE Opcodes6[m] = JCodes[m]
  BY <1>3 DEF Opcodes6, Merge
<1>4. ASSUME NEW m \in DOMAIN ICodes PROVE Opcodes6[m] = ICodes[m]
  <2>1. m \notin DOMAIN JCodes
    BY <1>4, TheMnemonics
  <2> QED BY <1>4, <2>1 DEF Opcodes6, Merge
<1>5. ASSUME NEW m \in DOMAIN MCodes PROVE Opcodes6[m] = MCodes[m]
  <2>1. m \notin DOMAIN JCodes /\ m \notin DOMAIN ICodes
    BY <1>5, TheMnemonics
  <2> QED BY <1>5, <2>1 DEF Opcodes6, Merge
<1>6. ASSUME NEW m \in DOMAIN JCodes PROVE JCodes[m] = OpcodeTable[m] /\ JCodes[m] \in 1..63
  BY <1>6, TheMnemonics DEF JCodes, OpcodeTable
<1>7. ASSUME NEW m \in DOMAIN ICodes PROVE ICodes[m] = OpcodeTable[m] /\ ICodes[m] \in 1..63
  BY <1>7, TheMnemonics DEF ICodes, OpcodeTable
<1>8. ASSUME NEW m \in DOMAIN MCodes PROVE MCodes[m] = OpcodeTable[m] /\ MCodes[m] \in 1..63
  BY <1>8, TheMnemonics DEF MCodes, OpcodeTable
<1> QED BY <1>1, <1>2, <1>3, <1>4, <1>5, <1>6, <1>7, <1>8

\* No two mnemonics share a code.
LEMMA CodesDiffer ==
  /\ \A l, m \in DOMAIN FuncTable : FuncTable[l] = FuncTable[m] => l = m
  /\ \A l, m \in DOMAIN OpcodeTable : OpcodeTable[l] = OpcodeTable[m] => l = m
<1>1. \A l, m \in DOMAIN FuncTable : FuncTable[l] = FuncTable[m] => l = m
  BY DEF FuncTable
<1>2. \A l, m \in DOMAIN OpcodeTable : OpcodeTable[l] = OpcodeTable[m] => l = m
  BY SMTT(60) DEF OpcodeTable
<1> QED BY <1>1, <1>2

\* Where the core takes each field from.
LowOf(field)   == CASE field = "ra" -> 21 [] field = "rb" -> 16 [] field = "rc" -> 11
                    [] field \in {"imm16", "imm26"} -> 0
WidthOf(field) == CASE field \in {"ra", "rb", "rc"} -> 5 [] field = "imm16" -> 16
                    [] field = "imm26" -> 26

FieldNames == {"ra", "rb", "rc", "imm16", "imm26"}

\* An operand has the field the core takes it from.
Matches(operand, field) ==
  /\ field \in FieldNames
  /\ operand.lo = LowOf(field) /\ operand.width = WidthOf(field)
  /\ operand.as \in (IF field \in {"imm16", "imm26"} THEN {"data", "distance"}
                                                    ELSE {"register", "special"})

LEMMA TheOperands ==
  /\ Matches(Ra, "ra") /\ Matches(Rb, "rb") /\ Matches(Rc, "rc")
  /\ Matches(SpecialAt(11), "rc") /\ Matches(SpecialAt(21), "ra")
  /\ \A field \in {"imm16", "imm26"} :
       /\ Matches(Data(WidthOf(field)), field) /\ Data(WidthOf(field)).as = "data"
       /\ Matches(Distance(WidthOf(field)), field) /\ Distance(WidthOf(field)).as = "distance"
  /\ WidthOf("imm16") = 16 /\ WidthOf("imm26") = 26
  /\ \A operand \in {Ra, Rb, Rc, SpecialAt(11), SpecialAt(21)} :
       operand.as \in {"register", "special"}
BY DEF Matches, Ra, Rb, Rc, RegisterAt, SpecialAt, Data, Distance, LowOf, WidthOf, FieldNames

\* The operands of a mnemonic are the fields the core takes, in the same order.
Suits(m, syntax, fields) ==
  /\ Len(syntax) \in 0..3 /\ Len(fields) = Len(syntax)
  /\ \A n \in 1..Len(syntax) :
       /\ Matches(syntax[n], fields[n])
       /\ syntax[n].as = "distance" => m \in Relative
       /\ m \in Relative => syntax[n].as # "data"
       /\ m \in DOMAIN Functions6 => fields[n] \in {"ra", "rb", "rc"}
       /\ fields[n] = "imm26" => Len(syntax) = 1
  /\ \A n, k \in 1..Len(syntax) :
       /\ n # k => fields[n] # fields[k]
       /\ fields[n] = "imm16" => fields[k] # "rc"

LEMMA SyntaxOf ==
  ASSUME NEW m \in Recognised
  PROVE  \/ m \in AluNames /\ m \in DOMAIN RFuncs /\ Syntax(m) = <<Rc, Ra, Rb>> /\ FieldsOf(m) = <<"rc", "ra", "rb">>
         \/ m = "MOVI2S" /\ Syntax(m) = <<SpecialAt(11), Ra>> /\ FieldsOf(m) = <<"rc", "ra">>
         \/ m = "MOVS2I" /\ Syntax(m) = <<Rc, SpecialAt(21)>> /\ FieldsOf(m) = <<"rc", "ra">>
         \/ m \in {"BEQZ", "BNEZ"} /\ Syntax(m) = <<Ra, Distance(16)>> /\ FieldsOf(m) = <<"ra", "imm16">>
         \/ m \in {"JR", "JALR"} /\ Syntax(m) = <<Ra>> /\ FieldsOf(m) = <<"ra">>
         \/ m = "LHI" /\ Syntax(m) = <<Rb, Data(16)>> /\ FieldsOf(m) = <<"rb", "imm16">>
         \/ m \in DOMAIN MCodes /\ Syntax(m) = <<Rb, Data(16), Ra>> /\ FieldsOf(m) = <<"rb", "imm16", "ra">>
         \/ m \in {"J", "JAL"} /\ Syntax(m) = <<Distance(26)>> /\ FieldsOf(m) = <<"imm26">>
         \/ m = "INT" /\ Syntax(m) = <<Data(26)>> /\ FieldsOf(m) = <<"imm26">>
         \/ m = "RFE" /\ Syntax(m) = <<>> /\ FieldsOf(m) = <<>>
         \/ m \in ImmediateNames /\ Syntax(m) = <<Rb, Ra, Data(16)>> /\ FieldsOf(m) = <<"rb", "ra", "imm16">>
<1>1. /\ AluNames = DOMAIN RFuncs
      /\ ImmediateNames = {"ADDI", "ADDUI", "SUBI", "SUBUI", "ANDI", "ORI", "XORI", "SLLI", "SRLI",
                           "SRAI", "SGTI", "SEQI", "SGEI", "SLTI", "SNEI", "SLEI"}
      /\ LoadNames \cup StoreNames = DOMAIN MCodes
  BY TheMnemonics DEF AluNames, FuncTable, ImmediateNames, ImmediateOperation, LoadNames, StoreNames
<1>2. /\ Recognised = DOMAIN RFuncs \cup DOMAIN SFuncs \cup DOMAIN JCodes \cup DOMAIN ICodes
                      \cup DOMAIN MCodes
  BY DEF Recognised, Functions6, Opcodes6, Merge
<1>3. CASE m \in DOMAIN RFuncs
  BY <1>1, <1>3, TheMnemonics DEF Syntax, FieldsOf
<1>4. CASE m \in DOMAIN SFuncs
  BY <1>1, <1>4, TheMnemonics DEF Syntax, FieldsOf
<1>5. CASE m \in DOMAIN JCodes
  BY <1>1, <1>5, TheMnemonics DEF Syntax, FieldsOf
<1>6. CASE m \in DOMAIN MCodes
  BY <1>1, <1>6, TheMnemonics DEF Syntax, FieldsOf
<1>7. CASE m \in DOMAIN ICodes \ ImmediateNames
  <2>1. m \in {"BEQZ", "BNEZ", "LHI", "JR", "JALR"}
    BY <1>1, <1>7, TheMnemonics
  <2> QED BY <1>1, <2>1, TheMnemonics DEF Syntax, FieldsOf
<1>8. CASE m \in ImmediateNames
  BY <1>1, <1>8, TheMnemonics DEF Syntax, FieldsOf
<1> QED BY <1>2, <1>3, <1>4, <1>5, <1>6, <1>7, <1>8

LEMMA SyntaxSuits ==
  ASSUME NEW m \in Recognised
  PROVE  Suits(m, Syntax(m), FieldsOf(m))
<1> DEFINE syntax == Syntax(m)   fields == FieldsOf(m)
<1>0. /\ DOMAIN Functions6 = DOMAIN RFuncs \cup DOMAIN SFuncs
      /\ ImmediateNames \cap DOMAIN Functions6 = {} /\ ImmediateNames \cap Relative = {}
  <2>1. DOMAIN Functions6 = DOMAIN RFuncs \cup DOMAIN SFuncs
    BY DEF Functions6, Merge
  <2> QED BY <2>1, TheMnemonics DEF ImmediateNames, ImmediateOperation, Relative
<1>a. Matches(Data(16), "imm16") /\ Data(16).as = "data" /\ Matches(Data(26), "imm26")
      /\ Data(26).as = "data" /\ Matches(Distance(16), "imm16") /\ Distance(16).as = "distance"
      /\ Matches(Distance(26), "imm26") /\ Distance(26).as = "distance"
  BY TheOperands
<1>1. CASE m \in DOMAIN RFuncs /\ syntax = <<Rc, Ra, Rb>> /\ fields = <<"rc", "ra", "rb">>
  <2>1. m \notin Relative
    BY <1>1, TheMnemonics DEF Relative
  <2> HIDE DEF syntax, fields
  <2>2. Suits(m, syntax, fields)
    BY <1>0, <1>1, <2>1, TheOperands DEF Suits
  <2> QED BY <2>2 DEF syntax, fields
<1>2. CASE m = "MOVI2S" /\ syntax = <<SpecialAt(11), Ra>> /\ fields = <<"rc", "ra">>
  <2>1. m \notin Relative
    BY <1>2 DEF Relative
  <2> HIDE DEF syntax, fields
  <2>2. Suits(m, syntax, fields)
    BY <1>0, <1>2, <2>1, TheOperands DEF Suits
  <2> QED BY <2>2 DEF syntax, fields
<1>3. CASE m = "MOVS2I" /\ syntax = <<Rc, SpecialAt(21)>> /\ fields = <<"rc", "ra">>
  <2>1. m \notin Relative
    BY <1>3 DEF Relative
  <2> HIDE DEF syntax, fields
  <2>2. Suits(m, syntax, fields)
    BY <1>0, <1>3, <2>1, TheOperands DEF Suits
  <2> QED BY <2>2 DEF syntax, fields
<1>4. CASE m \in {"BEQZ", "BNEZ"} /\ syntax = <<Ra, Distance(16)>> /\ fields = <<"ra", "imm16">>
  <2>1. m \in Relative /\ m \notin DOMAIN Functions6
    BY <1>0, <1>4, TheMnemonics DEF Relative
  <2> HIDE DEF syntax, fields
  <2>2. Suits(m, syntax, fields)
    BY <1>4, <1>a, <2>1, TheOperands DEF Suits
  <2> QED BY <2>2 DEF syntax, fields
<1>5. CASE m \in {"JR", "JALR"} /\ syntax = <<Ra>> /\ fields = <<"ra">>
  <2>1. m \notin Relative /\ m \notin DOMAIN Functions6
    BY <1>0, <1>5, TheMnemonics DEF Relative
  <2> HIDE DEF syntax, fields
  <2>2. Suits(m, syntax, fields)
    BY <1>5, <2>1, TheOperands DEF Suits
  <2> QED BY <2>2 DEF syntax, fields
<1>6. CASE m = "LHI" /\ syntax = <<Rb, Data(16)>> /\ fields = <<"rb", "imm16">>
  <2>1. m \notin Relative /\ m \notin DOMAIN Functions6
    BY <1>0, <1>6, TheMnemonics DEF Relative
  <2> HIDE DEF syntax, fields
  <2>2. Suits(m, syntax, fields)
    BY <1>6, <1>a, <2>1, TheOperands DEF Suits
  <2> QED BY <2>2 DEF syntax, fields
<1>7. CASE m \in DOMAIN MCodes /\ syntax = <<Rb, Data(16), Ra>> /\ fields = <<"rb", "imm16", "ra">>
  <2>1. m \notin Relative /\ m \notin DOMAIN Functions6
    BY <1>0, <1>7, TheMnemonics DEF Relative
  <2> HIDE DEF syntax, fields
  <2>2. Suits(m, syntax, fields)
    BY <1>7, <1>a, <2>1, TheOperands DEF Suits
  <2> QED BY <2>2 DEF syntax, fields
<1>8. CASE m \in {"J", "JAL"} /\ syntax = <<Distance(26)>> /\ fields = <<"imm26">>
  <2>1. m \in Relative /\ m \notin DOMAIN Functions6
    BY <1>0, <1>8, TheMnemonics DEF Relative
  <2> HIDE DEF syntax, fields
  <2>2. Suits(m, syntax, fields)
    BY <1>8, <1>a, <2>1 DEF Suits
  <2> QED BY <2>2 DEF syntax, fields
<1>9. CASE m = "INT" /\ syntax = <<Data(26)>> /\ fields = <<"imm26">>
  <2>1. m \notin Relative /\ m \notin DOMAIN Functions6
    BY <1>0, <1>9, TheMnemonics DEF Relative
  <2> HIDE DEF syntax, fields
  <2>2. Suits(m, syntax, fields)
    BY <1>9, <1>a, <2>1 DEF Suits
  <2> QED BY <2>2 DEF syntax, fields
<1>10. CASE m = "RFE" /\ syntax = <<>> /\ fields = <<>>
  <2> HIDE DEF syntax, fields
  <2>2. Suits(m, syntax, fields)
    BY <1>10 DEF Suits
  <2> QED BY <2>2 DEF syntax, fields
<1>11. CASE m \in ImmediateNames /\ syntax = <<Rb, Ra, Data(16)>> /\ fields = <<"rb", "ra", "imm16">>
  <2>1. m \notin Relative /\ m \notin DOMAIN Functions6
    BY <1>0, <1>11
  <2> HIDE DEF syntax, fields
  <2>2. Suits(m, syntax, fields)
    BY <1>11, <1>a, <2>1, TheOperands DEF Suits
  <2> QED BY <2>2 DEF syntax, fields
<1> QED
  BY <1>1, <1>2, <1>3, <1>4, <1>5, <1>6, <1>7, <1>8, <1>9, <1>10, <1>11, SyntaxOf

-----------------------------------------------------------------------------
(* What is written into a word is what the core takes from it. *)

\* The word of an instruction, from the values of its operands.
Packed(m, syntax, values) ==
  FixedBits(m) \cup
  UNION {Place(Pattern(values[k], syntax[k].width), syntax[k].lo) : k \in 1..Len(syntax)}

FieldBits(field) == LowOf(field)..(LowOf(field) + WidthOf(field) - 1)

LEMMA FieldPlaces ==
  /\ LowOf("ra") = 21 /\ LowOf("rb") = 16 /\ LowOf("rc") = 11 /\ LowOf("imm16") = 0 /\ LowOf("imm26") = 0
  /\ WidthOf("ra") = 5 /\ WidthOf("rb") = 5 /\ WidthOf("rc") = 5
  /\ WidthOf("imm16") = 16 /\ WidthOf("imm26") = 26
  /\ \A field \in FieldNames : LowOf(field) \in Nat /\ WidthOf(field) \in {5, 16, 26}
<1>1. /\ LowOf("ra") = 21 /\ LowOf("rb") = 16 /\ LowOf("rc") = 11 /\ LowOf("imm16") = 0 /\ LowOf("imm26") = 0
  BY DEF LowOf
<1>2. /\ WidthOf("ra") = 5 /\ WidthOf("rb") = 5 /\ WidthOf("rc") = 5
      /\ WidthOf("imm16") = 16 /\ WidthOf("imm26") = 26
  BY DEF WidthOf
<1> QED BY <1>1, <1>2 DEF FieldNames

\* Fields an instruction has both do not overlap.
LEMMA FieldsApart ==
  ASSUME NEW f \in FieldNames, NEW g \in FieldNames, f # g, f # "imm26", g # "imm26",
         {f, g} # {"imm16", "rc"},
         NEW i \in 0..(WidthOf(f) - 1), NEW j \in 0..(WidthOf(g) - 1)
  PROVE  i + LowOf(f) # j + LowOf(g)
<1> f \in {"ra", "rb", "rc", "imm16"} /\ g \in {"ra", "rb", "rc", "imm16"}
  BY DEF FieldNames
<1>1. CASE f = "ra"
  BY <1>1, FieldPlaces
<1>2. CASE f = "rb"
  BY <1>2, FieldPlaces
<1>3. CASE f = "rc"
  BY <1>3, FieldPlaces
<1>4. CASE f = "imm16"
  BY <1>4, FieldPlaces
<1> QED BY <1>1, <1>2, <1>3, <1>4

LEMMA FieldBounds ==
  ASSUME NEW field \in FieldNames, NEW i \in 0..(WidthOf(field) - 1)
  PROVE  /\ i + LowOf(field) \in 0..25
         /\ field \in {"ra", "rb", "rc"} => i + LowOf(field) \in 11..25
BY FieldPlaces DEF FieldNames

\* The codes leave the operands' fields alone.
LEMMA CodesAside ==
  ASSUME NEW m \in Recognised, NEW field \in FieldNames,
         m \in DOMAIN Functions6 => field \in {"ra", "rb", "rc"},
         NEW i \in 0..(WidthOf(field) - 1)
  PROVE  /\ i + LowOf(field) \in 0..25
         /\ i + LowOf(field) \notin FixedBits(m)
<1>1. i + LowOf(field) \in 0..25 /\ (field \in {"ra", "rb", "rc"} => i + LowOf(field) \in 11..25)
  BY FieldBounds
<1>2. CASE m \in DOMAIN Functions6
  <2>1. FixedBits(m) \subseteq 0..5
    BY <1>2 DEF FixedBits, Pattern, Bits
  <2> QED BY <1>1, <1>2, <2>1
<1>3. CASE m \notin DOMAIN Functions6
  <2>1. \A b \in FixedBits(m) : b >= 26
    BY <1>3 DEF FixedBits, Place, Pattern, Bits
  <2> QED BY <1>1, <2>1
<1> QED BY <1>2, <1>3

\* What is written into a field is what the core takes from it.
LEMMA FieldOfPacked ==
  ASSUME NEW m \in Recognised, NEW syntax, NEW fields, Suits(m, syntax, fields),
         NEW values, NEW n \in 1..Len(syntax)
  PROVE  Field(Packed(m, syntax, values), LowOf(fields[n]), WidthOf(fields[n]))
           = Pattern(values[n], WidthOf(fields[n]))
<1> DEFINE lo == LowOf(fields[n])   width == WidthOf(fields[n])
           part(k) == Pattern(values[k], syntax[k].width)
<1>0. Len(syntax) \in 0..3
  BY DEF Suits
<1>1. \A k \in 1..Len(syntax) :
        /\ fields[k] \in FieldNames
        /\ syntax[k].lo = LowOf(fields[k]) /\ syntax[k].width = WidthOf(fields[k])
        /\ LowOf(fields[k]) \in Nat /\ WidthOf(fields[k]) \in {5, 16, 26}
        /\ part(k) \subseteq 0..(WidthOf(fields[k]) - 1)
  <2> TAKE k \in 1..Len(syntax)
  <2>1. /\ fields[k] \in FieldNames
        /\ syntax[k].lo = LowOf(fields[k]) /\ syntax[k].width = WidthOf(fields[k])
    BY DEF Suits, Matches
  <2>2. part(k) \subseteq 0..(WidthOf(fields[k]) - 1)
    BY <2>1 DEF Pattern, Bits
  <2> QED BY <2>1, <2>2, FieldPlaces
<1>2. ASSUME NEW i \in 0..(width - 1)
      PROVE  i + lo \in Packed(m, syntax, values) <=> i \in part(n)
  <2>1. i + lo \notin FixedBits(m)
    BY <1>1, <1>2, CodesAside DEF Suits
  <2>2. ASSUME NEW k \in 1..Len(syntax), k # n PROVE i + lo \notin Place(part(k), syntax[k].lo)
    <3>1. \A j \in 0..(WidthOf(fields[k]) - 1) : i + lo # j + LowOf(fields[k])
      <4>1. /\ fields[n] # fields[k] /\ fields[n] # "imm26" /\ fields[k] # "imm26"
            /\ {fields[n], fields[k]} # {"imm16", "rc"}
        <5>1. /\ k \in 1..Len(syntax) /\ n \in 1..Len(syntax) /\ Len(syntax) # 1
          <6>1. \A size \in 0..3 : \A x, y \in 1..size : x # y => size # 1
            OBVIOUS
          <6> QED BY <1>0, <2>2, <6>1
        <5>2. fields[n] # fields[k]
          BY <2>2 DEF Suits
        <5>3. fields[n] # "imm26" /\ fields[k] # "imm26"
          BY <5>1 DEF Suits
        <5>4. fields[n] = "imm16" => fields[k] # "rc"
          BY DEF Suits
        <5>5. fields[k] = "imm16" => fields[n] # "rc"
          BY DEF Suits
        <5> QED BY <5>2, <5>3, <5>4, <5>5
      <4>2. fields[n] \in FieldNames /\ fields[k] \in FieldNames
        BY <1>1
      <4> QED BY <4>1, <4>2, FieldsApart
    <3> HIDE DEF part, lo
    <3> QED BY <1>1, <3>1 DEF Place
  <2>3. i + lo \in Place(part(n), syntax[n].lo) <=> i \in part(n)
    <3>1. part(n) \subseteq Int /\ lo \in Int /\ syntax[n].lo = lo
      BY <1>1
    <3> HIDE DEF part, lo
    <3> QED BY <3>1 DEF Place
  <2> HIDE DEF lo
  <2> QED BY <2>1, <2>2, <2>3 DEF Packed
<1>3. Field(Packed(m, syntax, values), lo, width) = part(n)
  <2>1. part(n) \subseteq 0..(width - 1)
    BY <1>1
  <2> HIDE DEF part, lo, width
  <2> QED BY <1>2, <2>1 DEF Field, Bits
<1> QED BY <1>1, <1>3

\* Six bits hold every code.
LEMMA CodeValue ==
  ASSUME NEW c \in 1..63
  PROVE  Unsigned(Pattern(c, 6)) = c
<1>1. c \in Int /\ 6 \in 0..Widest
  BY DEF Widest
<1>2. Unsigned(Pattern(c, 6)) = c % Weight(6)
  BY <1>1, PatternValue
<1> QED BY <1>2, Weights

LEMMA NothingIsZero == Unsigned({}) = 0
<1>1. 0 \in 0..Widest /\ {} \subseteq 0..(0 - 1) /\ \A i \in 0..(0 - 1) : i \notin {}
  BY DEF Widest
<1> QED BY <1>1, UnsignedOf, ValueOfNone

\* The core finds the instruction that was written.
LEMMA NameOfPacked ==
  ASSUME NEW m \in Recognised, NEW syntax, NEW fields, Suits(m, syntax, fields), NEW values
  PROVE  NameOf(Packed(m, syntax, values)) = m
<1> DEFINE w == Packed(m, syntax, values)
           part(k) == Pattern(values[k], syntax[k].width)
<1>0. Len(syntax) \in 0..3
  BY DEF Suits
<1>1. ASSUME NEW k \in 1..Len(syntax), NEW j \in Place(part(k), syntax[k].lo)
      PROVE  j \in 0..25 /\ (m \in DOMAIN Functions6 => j \in 11..25)
  <2>1. /\ fields[k] \in FieldNames
        /\ syntax[k].lo = LowOf(fields[k]) /\ syntax[k].width = WidthOf(fields[k])
        /\ m \in DOMAIN Functions6 => fields[k] \in {"ra", "rb", "rc"}
    BY DEF Suits, Matches
  <2>2. PICK i \in 0..(WidthOf(fields[k]) - 1) : j = i + LowOf(fields[k])
    BY <1>1, <2>1 DEF Place, Pattern, Bits
  <2>3. j \in 0..25 /\ (fields[k] \in {"ra", "rb", "rc"} => j \in 11..25)
    BY <2>1, <2>2, FieldBounds
  <2> QED BY <2>1, <2>3
<1>2. \A j \in w : j \in FixedBits(m) \/ (j \in 0..25 /\ (m \in DOMAIN Functions6 => j \in 11..25))
  <2> HIDE DEF part
  <2> QED BY <1>1 DEF Packed, part
<1>3. FixedBits(m) \subseteq w
  BY DEF Packed
<1> HIDE DEF w
<1>4. CASE m \in DOMAIN Functions6
  <2> DEFINE code == Pattern(Functions6[m], 6)
  <2>0. FixedBits(m) = code /\ code \subseteq 0..5
    BY <1>4 DEF FixedBits, Pattern, Bits
  <2> HIDE DEF code
  <2>1. Field(w, 26, 6) = {}
    <3>1. \A i \in 0..5 : i + 26 \notin w
      BY <1>2, <1>4, <2>0
    <3> QED BY <3>1 DEF Field, Bits
  <2>2. Field(w, 0, 6) = code
    <3>1. \A i \in 0..5 : i \in w <=> i \in code
      BY <1>2, <1>3, <1>4, <2>0
    <3>2. \A i \in 0..5 : i + 0 = i
      OBVIOUS
    <3>3. Field(w, 0, 6) = {i \in 0..5 : i \in w}
      BY <3>2 DEF Field, Bits
    <3> QED BY <2>0, <3>1, <3>3
  <2>3. Unsigned(Field(w, 26, 6)) = RTypeCode
    BY <2>1, NothingIsZero DEF RTypeCode
  <2>4. Unsigned(Field(w, 0, 6)) = FuncTable[m] /\ m \in DOMAIN FuncTable
    BY <1>4, <2>2, CodeValue, FunctionsAgree DEF code
  <2>5. NameOf(w) = Named(FuncTable, FuncTable[m])
    BY <2>3, <2>4 DEF NameOf
  <2>6. Named(FuncTable, FuncTable[m]) = m
    BY <2>4, CodesDiffer DEF Named
  <2> QED BY <2>5, <2>6 DEF w
<1>5. CASE m \notin DOMAIN Functions6
  <2> DEFINE code == Pattern(Opcodes6[m], 6)
  <2>0. FixedBits(m) = Place(code, 26) /\ code \subseteq 0..5 /\ m \in DOMAIN Opcodes6
    BY <1>5 DEF FixedBits, Pattern, Bits, Recognised
  <2> HIDE DEF code
  <2>1. Field(w, 26, 6) = code
    <3>1. \A i \in 0..5 : i + 26 \in w <=> i + 26 \in Place(code, 26)
      BY <1>2, <1>3, <2>0
    <3>2. \A i \in 0..5 : i + 26 \in Place(code, 26) <=> i \in code
      BY <2>0 DEF Place
    <3>3. Field(w, 26, 6) = {i \in 0..5 : i + 26 \in w}
      BY DEF Field, Bits
    <3> QED BY <2>0, <3>1, <3>2, <3>3
  <2>2. /\ Unsigned(Field(w, 26, 6)) = OpcodeTable[m] /\ OpcodeTable[m] # RTypeCode
        /\ m \in DOMAIN OpcodeTable
    BY <2>0, <2>1, CodeValue, OpcodesAgree DEF code, RTypeCode
  <2>3. NameOf(w) = Named(OpcodeTable, OpcodeTable[m])
    BY <2>2 DEF NameOf
  <2>4. Named(OpcodeTable, OpcodeTable[m]) = m
    BY <2>2, CodesDiffer DEF Named
  <2> QED BY <2>3, <2>4 DEF w
<1> QED BY <1>4, <1>5

\* Parts in a row.
IsRow(parts) == Len(parts) \in Nat /\ parts = [k \in 1..Len(parts) |-> parts[k]]

\* The parts of a line, and the tokens after the mnemonic, as sequences.
LEMMA TokensOf ==
  ASSUME NEW parts, IsRow(parts), parts # <<>>
  PROVE  /\ parts \in Seq({parts[k] : k \in 1..Len(parts)}) /\ Len(parts) # 0
         /\ Head(parts) = parts[1]
         /\ Len(Tail(parts)) = Len(parts) - 1
         /\ \A k \in 1..(Len(parts) - 1) : Tail(parts)[k] = parts[k + 1]
<1> DEFINE size == Len(parts)   tokens == {parts[k] : k \in 1..size}
<1>1. parts \in Seq(tokens)
  <2>1. parts \in [1..size -> tokens] /\ size \in Nat
    <3>1. size \in Nat /\ parts = [k \in 1..size |-> parts[k]]
      BY DEF IsRow
    <3> HIDE DEF size
    <3> QED BY <3>1
  <2> HIDE DEF tokens, size
  <2> QED BY <2>1
<1> HIDE DEF tokens
<1>2. /\ Head(parts) = parts[1] /\ Len(Tail(parts)) = Len(parts) - 1 /\ Len(parts) # 0
      /\ \A k \in 1..(Len(parts) - 1) : Tail(parts)[k] = parts[k + 1]
  BY <1>1
<1> QED BY <1>1, <1>2 DEF tokens, size

\* A number and its remainder differ by a multiple.
LEMMA WithoutRemainder ==
  ASSUME NEW v \in Int, NEW d \in Nat \ {0}
  PROVE  (v - (v % d)) % d = 0
<1> DEFINE q == v \div d   r == v % d
<1>1. v = d * q + r /\ q \in Int /\ r \in Int
  OBVIOUS
<1>2. d * q \in Int
  BY <1>1
<1> DEFINE p == d * q
<1> HIDE DEF q, r, p
<1>3. v - r = p
  BY <1>1, <1>2 DEF p
<1>4. (d * q + 0) % d = 0
  BY <1>1, Quotient
<1>5. p + 0 = p
  BY <1>2 DEF p
<1> QED BY <1>3, <1>4, <1>5 DEF p, r

\* What operand n of an instruction at this address stands for.
Worth(parts, n, address, symbols) ==
  IF parts[n + 1].kind # "symbol" THEN parts[n + 1].value
  ELSE symbols[parts[n + 1].name] - (IF Head(parts) \in Relative THEN address + 4 ELSE 0)

LEMMA RegisterLimits ==
  ASSUME NEW operand, NEW value, InLimits(operand, value), operand.as \in {"register", "special"}
  PROVE  value \in 0..31
<1>1. CASE operand.as = "register"
  BY <1>1 DEF InLimits
<1>2. CASE operand.as = "special"
  <2>1. value \in 0..2
    BY <1>2 DEF InLimits
  <2> QED BY <2>1
<1> QED BY <1>1, <1>2

LEMMA SameImmediate ==
  ASSUME NEW content, NEW value \in Int
  PROVE  /\ Unsigned(content) = value % Weight(16) => Same("imm16", content, value)
         /\ Unsigned(content) = value % Weight(26) => Same("imm26", content, value)
<1>1. \A k \in {16, 26} : Weight(k) \in Nat \ {0} /\ (value - (value % Weight(k))) % Weight(k) = 0
  <2>1. \A k \in {16, 26} : k \in 0..Widest
    BY DEF Widest
  <2> QED BY <2>1, WeightDoubles, WithoutRemainder
<1>2. ASSUME Unsigned(content) = value % Weight(16) PROVE Same("imm16", content, value)
  <2>1. (value - Unsigned(content)) % Weight(16) = 0
    BY <1>1, <1>2
  <2> QED BY <2>1 DEF Same, Weight
<1>3. ASSUME Unsigned(content) = value % Weight(26) PROVE Same("imm26", content, value)
  <2>1. (value - Unsigned(content)) % Weight(26) = 0
    BY <1>1, <1>3
  <2> QED BY <2>1 DEF Same, Weight
<1> QED BY <1>2, <1>3

\* The word of an instruction that is accepted holds each operand in its field.
LEMMA EncodedFields ==
  ASSUME SourceBits,
         NEW parts, IsRow(parts), \A k \in 2..Len(parts) : parts[k].value \in Int,
         NEW address \in Int, NEW symbols, IsSymbols(symbols),
         Accepted(parts, address, symbols)
  PROVE  LET m        == Head(parts)
             w        == Encoded(parts, address, symbols)
             syntax   == Syntax(m)
             fields   == FieldsOf(m)
             value(n) == ValueOf(syntax[n], parts[n + 1], address, symbols)
         IN /\ m \in Recognised /\ NameOf(w) = m
            /\ Len(syntax) \in 0..3 /\ Len(fields) = Len(syntax) /\ Len(parts) = Len(syntax) + 1
            /\ \A n \in 1..Len(syntax) :
                 /\ Resolvable(syntax[n], parts[n + 1], symbols)
                 /\ InLimits(syntax[n], value(n))
                 /\ value(n) = Worth(parts, n, address, symbols) /\ value(n) \in Int
                 /\ Field(w, LowOf(fields[n]), WidthOf(fields[n]))
                      = Pattern(value(n), WidthOf(fields[n]))
<1> DEFINE m      == Head(parts)
           fields == FieldsOf(m)
           syntax == Syntax(m)
           size   == Len(syntax)
           values == [k \in 1..size |-> ValueOf(syntax[k], parts[k + 1], address, symbols)]
           w      == Encoded(parts, address, symbols)
<1>1. m \in Recognised /\ parts # <<>> /\ Len(Tail(parts)) = size
  BY DEF Accepted
<1>2. Suits(m, syntax, fields)
  BY <1>1, SyntaxSuits
<1>3. size \in 0..3 /\ Len(parts) = size + 1 /\ Len(fields) = size
  <2>1. Len(Tail(parts)) = Len(parts) - 1
    BY <1>1, TokensOf
  <2>2. size \in 0..3 /\ Len(fields) = size
    BY <1>2 DEF Suits
  <2>3. Len(parts) \in Nat
    BY DEF IsRow
  <2> HIDE DEF m, fields, size
  <2> QED BY <1>1, <2>1, <2>2, <2>3
<1>4. \A k \in 1..size : Tail(parts)[k] = parts[k + 1]
  <2> HIDE DEF size
  <2> QED BY <1>1, <1>3, TokensOf
<1>5. w = Packed(m, syntax, values)
  <2>1. \A k \in 1..size : ValueOf(syntax[k], Tail(parts)[k], address, symbols) = values[k]
    BY <1>4
  <2> HIDE DEF values
  <2> QED BY <2>1 DEF Encoded, Packed
<1>6. ASSUME NEW n \in 1..size
      PROVE  /\ Resolvable(syntax[n], parts[n + 1], symbols)
             /\ InLimits(syntax[n], values[n])
  BY <1>4 DEF Accepted
<1>7. ASSUME NEW n \in 1..size
      PROVE  values[n] = Worth(parts, n, address, symbols) /\ values[n] \in Int
  <2> DEFINE token == parts[n + 1]   operand == syntax[n]
  <2>0. values[n] = ValueOf(operand, token, address, symbols)
    OBVIOUS
  <2> HIDE DEF values
  <2>1. CASE token.kind # "symbol"
    <3>1. n + 1 \in 2..Len(parts)
      BY <1>3
    <3> QED BY <2>0, <2>1, <3>1 DEF ValueOf, Worth
  <2>2. CASE token.kind = "symbol"
    <3>1. operand.as \in {"data", "distance"}
      BY <1>2, <1>6, <2>2 DEF Suits, Matches, Resolvable
    <3>2. token.name \in DOMAIN symbols /\ symbols[token.name] \in Int
      BY <1>6, <2>2, <3>1 DEF Resolvable, IsSymbols
    <3>3. operand.as = "distance" <=> m \in Relative
      BY <1>2, <3>1 DEF Suits
    <3> QED BY <2>0, <2>2, <3>1, <3>2, <3>3 DEF ValueOf, Worth
  <2> QED BY <2>1, <2>2
<1>8. \A n \in 1..size : values[n] = ValueOf(syntax[n], parts[n + 1], address, symbols)
  OBVIOUS
<1> HIDE DEF syntax, values, fields, w
<1>9. \A n \in 1..size : Field(w, LowOf(fields[n]), WidthOf(fields[n]))
                           = Pattern(values[n], WidthOf(fields[n]))
  BY <1>1, <1>2, <1>5, FieldOfPacked
<1>10. NameOf(w) = m
  BY <1>1, <1>2, <1>5, NameOfPacked
<1> QED BY <1>1, <1>3, <1>6, <1>7, <1>8, <1>9, <1>10 DEF w, fields, syntax

\* An instruction the assembler accepts is one the core decodes.
LEMMA AcceptedDecodes ==
  ASSUME SourceBits,
         NEW parts, IsRow(parts), \A k \in 2..Len(parts) : parts[k].value \in Int,
         NEW address \in Int, NEW symbols, IsSymbols(symbols),
         Accepted(parts, address, symbols)
  PROVE  LET m       == Head(parts)
             decoded == Decode(Encoded(parts, address, symbols))
             fields  == FieldsOf(m)
         IN /\ decoded.name = m
            /\ Len(parts) = Len(fields) + 1
            /\ \A n \in 1..Len(fields) :
                 Same(fields[n], decoded[fields[n]], Worth(parts, n, address, symbols))
<1> DEFINE m      == Head(parts)
           fields == FieldsOf(m)
           syntax == Syntax(m)
           size   == Len(syntax)
           w      == Encoded(parts, address, symbols)
           worth(n) == Worth(parts, n, address, symbols)
<1>1. /\ m \in Recognised /\ NameOf(w) = m
      /\ Len(parts) = size + 1 /\ Len(fields) = size
      /\ \A n \in 1..size :
           /\ InLimits(syntax[n], worth(n)) /\ worth(n) \in Int
           /\ Field(w, LowOf(fields[n]), WidthOf(fields[n]))
                = Pattern(worth(n), WidthOf(fields[n]))
  BY EncodedFields
<1>2. Suits(m, syntax, fields)
  BY <1>1, SyntaxSuits
<1> HIDE DEF syntax, fields, w, worth
<1>3. ASSUME NEW n \in 1..size
      PROVE  Same(fields[n], Decode(w)[fields[n]], worth(n))
  <2> DEFINE field == fields[n]   v == worth(n)
  <2>1. /\ field \in FieldNames
        /\ field \notin {"imm16", "imm26"} => syntax[n].as \in {"register", "special"}
    BY <1>2 DEF Suits, Matches
  <2>2. v \in Int /\ InLimits(syntax[n], v)
        /\ Field(w, LowOf(field), WidthOf(field)) = Pattern(v, WidthOf(field))
    BY <1>1
  <2>3. field \notin {"imm16", "imm26"} => v \in 0..31
    <3> HIDE DEF v, field
    <3> QED BY <2>1, <2>2, RegisterLimits
  <2> HIDE DEF field, v
  <2>4. \A k \in {5, 16, 26} : Unsigned(Pattern(v, k)) = v % Weight(k)
    <3>1. \A k \in {5, 16, 26} : k \in 0..Widest
      BY DEF Widest
    <3> QED BY <2>2, <3>1, PatternValue
  <2>5. CASE field = "imm16"
    <3>1. Decode(w)[field] = Pattern(v, 16)
      BY <2>2, <2>5, FieldPlaces DEF Decode
    <3>2. Unsigned(Decode(w)[field]) = v % Weight(16)
      BY <2>4, <3>1
    <3> QED BY <2>2, <2>5, <3>2, SameImmediate DEF field, v
  <2>6. CASE field = "imm26"
    <3>1. Decode(w)[field] = Pattern(v, 26)
      BY <2>2, <2>6, FieldPlaces DEF Decode
    <3>2. Unsigned(Decode(w)[field]) = v % Weight(26)
      BY <2>4, <3>1
    <3> QED BY <2>2, <2>6, <3>2, SameImmediate DEF field, v
  <2>7. CASE field \in {"ra", "rb", "rc"}
    <3>1. Decode(w)[field] = Unsigned(Pattern(v, 5))
      BY <2>2, <2>7, FieldPlaces DEF Decode
    <3>2. Decode(w)[field] = v % 32
      BY <2>4, <3>1, Weights
    <3>3. v \in 0..31
      BY <2>3, <2>7
    <3>4. v % 32 = v
      BY <3>3
    <3> QED BY <2>7, <3>2, <3>4 DEF Same, field, v
  <2> QED BY <2>1, <2>5, <2>6, <2>7 DEF FieldNames
<1>4. Decode(w).name = m
  BY <1>1 DEF Decode
<1> QED BY <1>1, <1>3, <1>4 DEF w, fields, worth

-----------------------------------------------------------------------------
(* Branches and jumps. *)

\* The bits of a branch's or a jump's displacement.
GoalWidth(m) == IF m \in {"J", "JAL"} THEN 26 ELSE 16

\* The last operand of a branch or a jump is its displacement.
LEMMA RelativeSyntax ==
  ASSUME NEW m \in Relative
  PROVE  LET syntax == Syntax(m)
             fields == FieldsOf(m)
             size   == Len(syntax)
         IN /\ m \in Recognised /\ GoalWidth(m) \in {16, 26}
            /\ size \in 1..2 /\ Len(fields) = size
            /\ syntax[size] = Distance(GoalWidth(m))
            /\ fields[size] = IF GoalWidth(m) = 26 THEN "imm26" ELSE "imm16"
            /\ size = 2 => m \in {"BEQZ", "BNEZ"} /\ syntax[1] = Ra
<1>1. /\ m \in Recognised /\ m \in {"BEQZ", "BNEZ", "J", "JAL"}
      /\ m \notin DOMAIN RFuncs \cup DOMAIN SFuncs \cup DOMAIN MCodes \cup AluNames \cup ImmediateNames
  BY TheMnemonics DEF Relative, Recognised, Functions6, Opcodes6, Merge, AluNames, FuncTable,
                      ImmediateNames, ImmediateOperation
<1> DEFINE syntax == Syntax(m)   fields == FieldsOf(m)
<1>2. \/ m \in {"BEQZ", "BNEZ"} /\ syntax = <<Ra, Distance(16)>> /\ fields = <<"ra", "imm16">>
      \/ m \in {"J", "JAL"} /\ syntax = <<Distance(26)>> /\ fields = <<"imm26">>
  BY <1>1, SyntaxOf
<1> HIDE DEF syntax, fields
<1>3. CASE m \in {"BEQZ", "BNEZ"} /\ syntax = <<Ra, Distance(16)>> /\ fields = <<"ra", "imm16">>
  <2>1. GoalWidth(m) = 16
    BY <1>3 DEF GoalWidth
  <2>2. Len(syntax) = 2 /\ Len(fields) = 2 /\ syntax[1] = Ra /\ syntax[2] = Distance(16)
        /\ fields[2] = "imm16"
    BY <1>3
  <2> QED BY <1>1, <1>3, <2>1, <2>2 DEF syntax, fields
<1>4. CASE m \in {"J", "JAL"} /\ syntax = <<Distance(26)>> /\ fields = <<"imm26">>
  <2>1. GoalWidth(m) = 26
    BY <1>4 DEF GoalWidth
  <2>2. Len(syntax) = 1 /\ Len(fields) = 1 /\ syntax[1] = Distance(26) /\ fields[1] = "imm26"
    BY <1>4
  <2> QED BY <1>1, <2>1, <2>2 DEF syntax, fields
<1> QED BY <1>2, <1>3, <1>4

LEMMA DistanceLimits ==
  ASSUME NEW n \in {16, 26}, NEW v \in Int
  PROVE  InLimits(Distance(n), v) <=> (-Weight(n - 1) <= v /\ v < Weight(n - 1))
<1>1. CASE n = 16
  BY <1>1 DEF InLimits, Distance, Lowest, Highest, Weight
<1>2. CASE n = 26
  BY <1>2 DEF InLimits, Distance, Lowest, Highest, Weight
<1> QED BY <1>1, <1>2

\* A branch or a jump that is accepted leads to its symbol.
LEMMA AcceptedLeads ==
  ASSUME SourceBits,
         NEW parts, IsRow(parts), \A k \in 2..Len(parts) : parts[k].value \in Int,
         NEW address \in Int, NEW symbols, IsSymbols(symbols),
         Accepted(parts, address, symbols),
         Head(parts) \in Relative, Last(parts).kind = "symbol"
  PROVE  Plus(Pattern(address + 4, WordBits), Displacement(Decode(Encoded(parts, address, symbols))))
           = Pattern(symbols[Last(parts).name], WordBits)
<1> DEFINE m      == Head(parts)
           w      == Encoded(parts, address, symbols)
           syntax == Syntax(m)
           fields == FieldsOf(m)
           size   == Len(syntax)
           goal   == symbols[Last(parts).name]
           away   == goal - (address + 4)
           n      == GoalWidth(m)
<1>1. /\ NameOf(w) = m /\ Len(parts) = size + 1 /\ Len(fields) = size
      /\ \A k \in 1..size :
           /\ Resolvable(syntax[k], parts[k + 1], symbols)
           /\ InLimits(syntax[k], ValueOf(syntax[k], parts[k + 1], address, symbols))
           /\ Field(w, LowOf(fields[k]), WidthOf(fields[k]))
                = Pattern(ValueOf(syntax[k], parts[k + 1], address, symbols), WidthOf(fields[k]))
  BY EncodedFields
<1>2. /\ size \in 1..2 /\ syntax[size] = Distance(n) /\ n \in {16, 26}
      /\ fields[size] = IF n = 26 THEN "imm26" ELSE "imm16"
  BY RelativeSyntax
<1>3. Last(parts) = parts[size + 1]
  BY <1>1 DEF Last
<1> HIDE DEF syntax, fields, size, w, n
<1>4. Distance(n).as = "distance"
  BY DEF Distance
<1>5. Last(parts).name \in DOMAIN symbols /\ goal \in Int
  BY <1>1, <1>2, <1>3, <1>4 DEF Resolvable, IsSymbols
<1>6. ValueOf(syntax[size], parts[size + 1], address, symbols) = away /\ away \in Int
  BY <1>2, <1>3, <1>4, <1>5 DEF ValueOf
<1> HIDE DEF away, goal
<1>7. InLimits(Distance(n), away)
  BY <1>1, <1>2, <1>6
<1>8. -Weight(n - 1) <= away /\ away < Weight(n - 1)
  BY <1>2, <1>6, <1>7, DistanceLimits
<1>9. Field(w, 0, n) = Pattern(away, n)
  <2>1. Field(w, LowOf(fields[size]), WidthOf(fields[size])) = Pattern(away, WidthOf(fields[size]))
    BY <1>1, <1>2, <1>6
  <2> QED BY <1>2, <2>1, FieldPlaces
<1>10. Displacement(Decode(w)) = SignExtend(Pattern(away, n), n)
  BY <1>1, <1>9 DEF Displacement, Decode, GoalWidth, n
<1>11. Plus(Pattern(address + 4, WordBits), SignExtend(Pattern(away, n), n)) = Pattern(goal, WordBits)
  <2>1. goal \in Int /\ address + 4 \in Int /\ away = goal - (address + 4)
    BY <1>5 DEF away
  <2> QED BY <1>2, <1>8, <2>1, FieldLeads
<1> QED BY <1>10, <1>11 DEF w, goal

\* One that is otherwise right is refused only if its symbol is out of reach.
LEMMA RefusedIsFar ==
  ASSUME NEW parts, IsRow(parts), NEW address \in Int, NEW symbols, IsSymbols(symbols),
         Head(parts) \in Relative, Len(parts) = Len(FieldsOf(Head(parts))) + 1,
         Last(parts).kind = "symbol", Last(parts).name \in DOMAIN symbols,
         Head(parts) \in {"BEQZ", "BNEZ"} =>
           parts[2].kind \in {"register", "number"} /\ parts[2].value \in 0..31,
         ~Accepted(parts, address, symbols)
  PROVE  LET away == symbols[Last(parts).name] - (address + 4)
             n    == GoalWidth(Head(parts))
         IN ~(-Weight(n - 1) <= away /\ away < Weight(n - 1))
<1> DEFINE m      == Head(parts)
           syntax == Syntax(m)
           size   == Len(syntax)
           goal   == symbols[Last(parts).name]
           away   == goal - (address + 4)
           n      == GoalWidth(m)
<1>1. /\ n \in {16, 26} /\ m \in Recognised
      /\ size \in 1..2 /\ Len(parts) = size + 1 /\ syntax[size] = Distance(n)
      /\ size = 2 => m \in {"BEQZ", "BNEZ"} /\ syntax[1] = Ra
  BY RelativeSyntax
<1>2. parts # <<>>
  BY <1>1
<1>3. size \in Nat
  BY <1>1
<1>4. Len(Tail(parts)) = size /\ \A k \in 1..size : Tail(parts)[k] = parts[k + 1]
  <2> HIDE DEF size
  <2> QED BY <1>1, <1>2, <1>3, TokensOf
<1>5. Last(parts) = parts[size + 1] /\ goal \in Int /\ away \in Int
  BY <1>1 DEF Last, IsSymbols
<1>6. PICK k \in 1..size :
        ~ (/\ Resolvable(syntax[k], parts[k + 1], symbols)
           /\ InLimits(syntax[k], ValueOf(syntax[k], parts[k + 1], address, symbols)))
  BY <1>1, <1>2, <1>4 DEF Accepted
<1>7. CASE k = size
  <2>1. Distance(n).as = "distance"
    BY DEF Distance
  <2>2. Resolvable(syntax[k], parts[k + 1], symbols)
    BY <1>1, <1>5, <1>7, <2>1 DEF Resolvable
  <2>3. ValueOf(syntax[k], parts[k + 1], address, symbols) = away
    BY <1>1, <1>5, <1>7, <2>1 DEF ValueOf
  <2>4. ~InLimits(Distance(n), away)
    BY <1>1, <1>6, <1>7, <2>2, <2>3
  <2> HIDE DEF away, n
  <2>5. ~(-Weight(n - 1) <= away /\ away < Weight(n - 1))
    BY <1>1, <1>5, <2>4, DistanceLimits
  <2> QED BY <2>5 DEF away, n
<1>8. CASE k # size
  <2>1. k = 1 /\ syntax[1] = Ra /\ m \in {"BEQZ", "BNEZ"}
    BY <1>1, <1>6, <1>8
  <2>2. parts[2].kind \in {"register", "number"} /\ parts[2].value \in 0..31
    BY <2>1
  <2>3. Resolvable(Ra, parts[2], symbols) /\ InLimits(Ra, ValueOf(Ra, parts[2], address, symbols))
    BY <2>2 DEF Resolvable, InLimits, ValueOf, Ra, RegisterAt
  <2> QED BY <1>6, <2>1, <2>3
<1> QED BY <1>7, <1>8

-----------------------------------------------------------------------------
(* What follows for the words. *)

\* The instructions of a program, one by one.
LEMMA ProgramParts ==
  ASSUME RunInv, Parsed, NEW k \in 1..Len(parsed.instructions)
  PROVE  /\ IsSymbols(parsed.symbols)
         /\ IsRow(parsed.instructions[k].parts)
         /\ \A n \in 2..Len(parsed.instructions[k].parts) :
              parsed.instructions[k].parts[n].value \in Int
         /\ parsed.instructions[k].address = 4 * (k - 1)
<1>1. InStep(parsed, lines, Len(lines)) /\ parsed.instructions \in Seq(Places)
  BY ParsedProgram
<1>2. PICK line \in SourceLines : IsWord(line) /\ parsed.instructions[k].parts = line.parts
  <2>1. parsed.instructions[k] \in Places
    <3> DEFINE program == parsed.instructions   P == Places
    <3> HIDE DEF program, P
    <3>1. program \in Seq(P) /\ k \in 1..Len(program)
      BY <1>1 DEF program, P
    <3>2. program[k] \in P
      BY <3>1
    <3> QED BY <3>2 DEF program, P
  <2>2. parsed.instructions[k].parts \in {l.parts : l \in {j \in SourceLines : IsWord(j)}}
    BY <2>1 DEF Places
  <2> QED BY <2>2
<1>3. IsLine(line)
  BY LinesAssumption
<1>4. IsRow(line.parts)
  BY <1>3 DEF IsLine, IsRow
<1>5. \A n \in 2..Len(line.parts) : line.parts[n].value \in Int
  BY <1>2, <1>3 DEF IsLine, IsWord
<1> QED BY <1>1, <1>2, <1>4, <1>5 DEF InStep

\* The words written are those of the instructions, which were accepted.
LEMMA WrittenWords ==
  ASSUME RunInv, Opened
  PROVE  /\ Parsed /\ Len(parsed.instructions) \in Nat /\ written \in 0..Len(parsed.instructions)
         /\ Words \subseteq 1..Len(parsed.instructions)
         /\ \A k \in Words :
              LET i == parsed.instructions[k] IN
              /\ Accepted(i.parts, i.address, parsed.symbols)
              /\ Output.items[k] = Encoded(i.parts, i.address, parsed.symbols)
         /\ Rejected =>
              LET i == parsed.instructions[written + 1] IN
              /\ written + 1 \in 1..Len(parsed.instructions)
              /\ ~Accepted(i.parts, i.address, parsed.symbols)
<1>1. Parsed
  BY DEF Parsed
<1>2. OutputIsAPrefix /\ OutputIsWritten /\ Len(parsed.instructions) \in Nat
  BY <1>1, ParsedProgram, OutputFollows DEF RunInv
<1>3. written \in 0..Len(parsed.instructions)
  BY <1>2 DEF OutputIsWritten
<1>4. Words \subseteq 1..Len(parsed.instructions)
  BY <1>2, <1>3 DEF OutputIsAPrefix, Words
<1>5. /\ \A k \in Words : AcceptedAt(k) /\ Output.items[k] = EncodedAt(k)
      /\ Rejected => ~AcceptedAt(written + 1) /\ written + 1 \in 1..Len(parsed.instructions)
  BY <1>2, <1>3 DEF OutputIsAPrefix
<1> QED BY <1>1, <1>2, <1>3, <1>4, <1>5 DEF AcceptedAt, EncodedAt, Instruction

\* What was written is what the core decodes, whatever the program is.
THEOREM WordsStayDecodable ==
  ASSUME SourceBits
  PROVE  AssemblerSpec => []DecodesAsWritten
<1>1. ASSUME RunInv PROVE DecodesAsWritten
  <2> SUFFICES ASSUME Opened, NEW k \in Words
               PROVE  LET decoded == Decode(Output.items[k])
                          fields  == FieldsOf(Mnemonic(k))
                      IN /\ decoded.name = Mnemonic(k)
                         /\ Len(Instruction(k).parts) = Len(fields) + 1
                         /\ \A n \in 1..Len(fields) :
                              Same(fields[n], decoded[fields[n]], Meant(k, n))
    BY DEF DecodesAsWritten
  <2> DEFINE parts   == parsed.instructions[k].parts
             address == parsed.instructions[k].address
             symbols == parsed.symbols
  <2>1. /\ Parsed /\ k \in 1..Len(parsed.instructions)
        /\ Accepted(parts, address, symbols)
        /\ Output.items[k] = Encoded(parts, address, symbols)
    BY <1>1, WrittenWords
  <2>2. /\ IsSymbols(symbols) /\ IsRow(parts)
        /\ \A n \in 2..Len(parts) : parts[n].value \in Int
        /\ address = 4 * (k - 1) /\ address \in Int /\ address + 4 = 4 * k
    BY <1>1, <2>1, ProgramParts
  <2>3. \A n : Meant(k, n) = Worth(parts, n, address, symbols)
    BY <2>2 DEF Meant, Worth, Operand, Mnemonic, Instruction
  <2>4. Mnemonic(k) = Head(parts) /\ Instruction(k).parts = parts
    BY DEF Mnemonic, Instruction
  <2> HIDE DEF parts, address, symbols
  <2>5. LET decoded == Decode(Output.items[k])
            fields  == FieldsOf(Head(parts))
        IN /\ decoded.name = Head(parts)
           /\ Len(parts) = Len(fields) + 1
           /\ \A n \in 1..Len(fields) :
                Same(fields[n], decoded[fields[n]], Worth(parts, n, address, symbols))
    BY <2>1, <2>2, AcceptedDecodes
  <2> QED BY <2>3, <2>4, <2>5
<1> QED BY <1>1, RunInvariance, PTL

\* A branch or a jump leads where it was written to, and one that is refused has
\* no displacement that would.
THEOREM BranchesStayInReach ==
  ASSUME SourceBits
  PROVE  AssemblerSpec => []ReachesTheLabel
<1>1. ASSUME RunInv PROVE ReachesTheLabel
  <2> SUFFICES ASSUME Opened PROVE ReachesTheLabel
    BY DEF ReachesTheLabel
  <2>0. Parsed /\ written \in Nat
    BY <1>1, WrittenWords
  <2>1. ASSUME NEW k \in Words, HasGoal(k)
        PROVE  Plus(Pattern(4 * k, WordBits), Displacement(Decode(Output.items[k])))
                 = Pattern(Goal(k), WordBits)
    <3> DEFINE parts   == parsed.instructions[k].parts
               address == parsed.instructions[k].address
               symbols == parsed.symbols
    <3>1. /\ Parsed /\ k \in 1..Len(parsed.instructions)
          /\ Accepted(parts, address, symbols)
          /\ Output.items[k] = Encoded(parts, address, symbols)
      BY <1>1, WrittenWords
    <3>2. /\ IsSymbols(symbols) /\ IsRow(parts)
          /\ \A n \in 2..Len(parts) : parts[n].value \in Int
          /\ address = 4 * (k - 1) /\ address \in Int /\ address + 4 = 4 * k
      BY <1>1, <3>1, ProgramParts
    <3>3. Head(parts) \in Relative /\ Last(parts).kind = "symbol"
      BY <2>1 DEF HasGoal, Mnemonic, Instruction
    <3>4. Goal(k) = symbols[Last(parts).name]
      BY DEF Goal, Instruction
    <3> HIDE DEF parts, address, symbols
    <3>5. Plus(Pattern(address + 4, WordBits), Displacement(Decode(Output.items[k])))
            = Pattern(symbols[Last(parts).name], WordBits)
      BY <3>1, <3>2, <3>3, AcceptedLeads
    <3> QED BY <3>2, <3>4, <3>5
  <2>2. ASSUME Rejected, HasGoal(written + 1)
        PROVE  LET k     == written + 1
                   width == IF Mnemonic(k) \in {"J", "JAL"} THEN 26 ELSE 16
                   away  == Goal(k) - 4 * k
               IN -(2 ^ 30) <= away /\ away < 2 ^ 30 =>
                    GoesTo(k, Pattern(away, width), width) # Pattern(Goal(k), WordBits)
    <3> DEFINE k       == written + 1
               parts   == parsed.instructions[k].parts
               address == parsed.instructions[k].address
               symbols == parsed.symbols
               goal    == symbols[Last(parts).name]
               n       == GoalWidth(Head(parts))
    <3>1. k \in 1..Len(parsed.instructions) /\ ~Accepted(parts, address, symbols) /\ k \in Nat
      BY <1>1, <2>0, <2>2, WrittenWords
    <3>2. /\ IsSymbols(symbols) /\ IsRow(parts)
          /\ address = 4 * (k - 1) /\ address \in Int /\ address + 4 = 4 * k
      BY <1>1, <2>0, <3>1, ProgramParts
    <3>3. /\ Head(parts) \in Relative /\ Len(parts) = Len(FieldsOf(Head(parts))) + 1
          /\ Last(parts).kind = "symbol" /\ Last(parts).name \in DOMAIN symbols
          /\ Head(parts) \in {"BEQZ", "BNEZ"} =>
               parts[2].kind \in {"register", "number"} /\ parts[2].value \in 0..31
      BY <2>2 DEF HasGoal, Mnemonic, Instruction, Operand
    <3>4. /\ Goal(k) = goal
          /\ n = IF Mnemonic(k) \in {"J", "JAL"} THEN 26 ELSE 16
      BY DEF Goal, Instruction, Mnemonic, GoalWidth
    <3> HIDE DEF parts, address, symbols, k
    <3>5. n \in {16, 26} /\ goal \in Int /\ 4 * k \in Int
      BY <3>1, <3>2, <3>3 DEF GoalWidth, IsSymbols
    <3> DEFINE away == goal - 4 * k
    <3>6. ~(-Weight(n - 1) <= away /\ away < Weight(n - 1))
      <4>1. away = goal - (address + 4)
        BY <3>2
      <4>2. LET far == goal - (address + 4) IN ~(-Weight(n - 1) <= far /\ far < Weight(n - 1))
        BY <3>1, <3>2, <3>3, RefusedIsFar
      <4> QED BY <4>1, <4>2
    <3>7. Pattern(away, n) \in SUBSET Bits(n) /\ 2 ^ 30 = 1073741824
      BY DEF Pattern
    <3>8. ASSUME -(2 ^ 30) <= away, away < 2 ^ 30
          PROVE  Plus(Pattern(4 * k, WordBits), SignExtend(Pattern(away, n), n))
                   # Pattern(goal, WordBits)
      <4> HIDE DEF n, goal
      <4>1. -1073741824 <= away /\ away < 1073741824
        BY <3>7, <3>8
      <4> QED BY <3>5, <3>6, <3>7, <4>1, FieldMisses
    <3> QED BY <3>4, <3>8 DEF GoesTo, k
  <2> QED BY <2>1, <2>2 DEF ReachesTheLabel
<1> QED BY <1>1, RunInvariance, PTL
=============================================================================
