------------------------------ MODULE WordProofs ------------------------------
(***************************************************************************)
(* Words as sets of bits compute what integers do: for every width up to    *)
(* the 32 bits of the source, the value of a sum, a difference or a shift   *)
(* is that of the integers modulo 2^WordBits, and the comparisons are those *)
(* of integers.                                                             *)
(***************************************************************************)
EXTENDS Arithmetic, WellFoundedInduction, TLAPS

\* The widest word considered, that of the source.
Widest == 32

-----------------------------------------------------------------------------
(* Natural numbers. *)

\* A set of natural numbers that is not empty has a least element.
LEMMA LeastElement ==
  ASSUME NEW T, T \subseteq Nat, T # {}
  PROVE  \E x \in T : \A y \in T : x <= y
<1> DEFINE less == {ss \in Nat \X Nat : ss[1] < ss[2]}
<1>1. IsWellFoundedOn(less, Nat)
  BY NatLessThanWellFounded DEF OpToRel
<1>2. PICK x \in T : \A y \in T : <<y, x>> \notin less
  BY <1>1, WFMin
<1>3. ASSUME NEW y \in T PROVE x <= y
  <2>1. ~(y < x)
    BY <1>2
  <2> HIDE DEF less
  <2> QED BY <2>1
<1> QED BY <1>3

\* Induction, for a set.
LEMMA Inductive ==
  ASSUME NEW T, 0 \in T, \A n \in Nat : n \in T => n + 1 \in T
  PROVE  \A n \in Nat : n \in T
<1> SUFFICES ASSUME Nat \ T # {} PROVE FALSE
  OBVIOUS
<1>1. PICK m \in Nat \ T : \A k \in Nat \ T : m <= k
  BY LeastElement
<1>2. m # 0 /\ m - 1 \in Nat
  BY <1>1
<1>3. m - 1 \in T
  BY <1>1, <1>2
<1> QED BY <1>1, <1>2, <1>3

\* Induction up to a bound.
LEMMA InductiveUpTo ==
  ASSUME NEW bound \in Nat, NEW T, 0 \in T,
         \A n \in 0..(bound - 1) : n \in T => n + 1 \in T
  PROVE  \A n \in 0..bound : n \in T
<1> DEFINE S == {n \in Nat : n <= bound => n \in T}
<1>1. 0 \in S
  OBVIOUS
<1>2. ASSUME NEW n \in Nat, n \in S PROVE n + 1 \in S
  BY <1>2
<1> HIDE DEF S
<1>3. \A n \in Nat : n \in S
  BY <1>1, <1>2, Inductive
<1> QED BY <1>3 DEF S

\* Division and remainder are determined by what they add up to.
LEMMA Quotient ==
  ASSUME NEW d \in Nat \ {0}, NEW q \in Int, NEW r \in 0..(d - 1)
  PROVE  (d * q + r) \div d = q /\ (d * q + r) % d = r
OBVIOUS

LEMMA Weights ==
  /\ Weight(0) = 1 /\ Weight(1) = 2 /\ Weight(2) = 4 /\ Weight(3) = 8
  /\ Weight(4) = 16 /\ Weight(5) = 32 /\ Weight(6) = 64 /\ Weight(7) = 128
  /\ Weight(8) = 256 /\ Weight(9) = 512 /\ Weight(10) = 1024 /\ Weight(11) = 2048
  /\ Weight(12) = 4096 /\ Weight(13) = 8192 /\ Weight(14) = 16384 /\ Weight(15) = 32768
  /\ Weight(16) = 65536 /\ Weight(17) = 131072 /\ Weight(18) = 262144
  /\ Weight(19) = 524288 /\ Weight(20) = 1048576 /\ Weight(21) = 2097152
  /\ Weight(22) = 4194304 /\ Weight(23) = 8388608 /\ Weight(24) = 16777216
  /\ Weight(25) = 33554432 /\ Weight(26) = 67108864 /\ Weight(27) = 134217728
  /\ Weight(28) = 268435456 /\ Weight(29) = 536870912 /\ Weight(30) = 1073741824
  /\ Weight(31) = 2147483648 /\ Weight(32) = 4294967296
BY DEF Weight

\* The weights double from one bit to the next.
LEMMA WeightDoubles ==
  /\ Weight(0) = 1
  /\ \A i \in 0..(Widest - 1) : Weight(i + 1) = 2 * Weight(i)
  /\ \A i \in 0..Widest : Weight(i) \in Nat \ {0}
<1>1. ASSUME NEW i \in 0..31 PROVE Weight(i + 1) = 2 * Weight(i)
  BY Weights
<1>2. ASSUME NEW i \in 0..32 PROVE Weight(i) \in Nat \ {0}
  BY Weights
<1> QED BY <1>1, <1>2, Weights DEF Widest

-----------------------------------------------------------------------------
(* The value of the low bits of a word, bit by bit. *)

\* What bit i of w adds to its value.
Share(w, i) == IF i \in w THEN Weight(i) ELSE 0

IsLowValues(f, w, bound) ==
  f = [n \in 0..bound |-> IF n = 0 THEN 0 ELSE f[n - 1] + Share(w, n - 1)]

LowValues(w) == CHOOSE f : IsLowValues(f, w, Widest)

\* The value of the n lowest bits.
Value(w, n) == LowValues(w)[n]

LEMMA LowValuesExist ==
  ASSUME NEW w
  PROVE  IsLowValues(LowValues(w), w, Widest)
<1> DEFINE T == {bound \in Nat : \E f : IsLowValues(f, w, bound)}
<1>1. 0 \in T
  <2>1. IsLowValues([n \in 0..0 |-> 0], w, 0)
    BY DEF IsLowValues
  <2> QED BY <2>1
<1>2. ASSUME NEW bound \in Nat, bound \in T PROVE bound + 1 \in T
  <2>1. PICK f : IsLowValues(f, w, bound)
    BY <1>2
  <2> DEFINE g == [n \in 0..(bound + 1) |->
                     IF n <= bound THEN f[n] ELSE f[bound] + Share(w, bound)]
  <2>2. ASSUME NEW n \in 0..(bound + 1)
        PROVE  g[n] = IF n = 0 THEN 0 ELSE g[n - 1] + Share(w, n - 1)
    <3>1. CASE n <= bound
      <4>1. g[n] = f[n] /\ n \in 0..bound
        BY <3>1
      <4>2. f[n] = IF n = 0 THEN 0 ELSE f[n - 1] + Share(w, n - 1)
        BY <2>1, <4>1 DEF IsLowValues
      <4>3. n # 0 => g[n - 1] = f[n - 1]
        BY <3>1
      <4> QED BY <4>1, <4>2, <4>3
    <3>2. CASE n = bound + 1
      <4>1. n # 0 /\ n - 1 = bound /\ g[n] = f[bound] + Share(w, bound) /\ g[bound] = f[bound]
        BY <3>2
      <4> HIDE DEF g
      <4> QED BY <4>1
    <3> QED BY <3>1, <3>2
  <2>3. IsLowValues(g, w, bound + 1)
    <3>1. g = [n \in 0..(bound + 1) |-> g[n]]
      OBVIOUS
    <3> HIDE DEF g
    <3> QED BY <2>2, <3>1 DEF IsLowValues
  <2> QED BY <2>3
<1> HIDE DEF T
<1>3. Widest \in T
  BY <1>1, <1>2, Inductive DEF Widest
<1> QED BY <1>3 DEF T, LowValues

\* The value bit by bit.
LEMMA ValueStep ==
  ASSUME NEW w
  PROVE  /\ Value(w, 0) = 0
         /\ \A n \in 0..(Widest - 1) : Value(w, n + 1) = Value(w, n) + Share(w, n)
<1> DEFINE f == LowValues(w)
<1>1. f = [n \in 0..Widest |-> IF n = 0 THEN 0 ELSE f[n - 1] + Share(w, n - 1)]
  BY LowValuesExist DEF IsLowValues
<1> HIDE DEF f
<1>2. f[0] = 0
  BY <1>1 DEF Widest
<1>3. ASSUME NEW n \in 0..(Widest - 1) PROVE f[n + 1] = f[n] + Share(w, n)
  <2>1. n + 1 \in 0..Widest /\ n + 1 # 0 /\ (n + 1) - 1 = n
    BY DEF Widest
  <2> QED BY <1>1, <2>1
<1> QED BY <1>2, <1>3 DEF f, Value

\* The n lowest bits hold a value below the weight of the next one.
LEMMA ValueRange ==
  ASSUME NEW w
  PROVE  \A n \in 0..Widest : Value(w, n) \in Nat /\ Value(w, n) < Weight(n)
<1> DEFINE T == {n \in 0..Widest : Value(w, n) \in Nat /\ Value(w, n) < Weight(n)}
<1>1. 0 \in T
  BY ValueStep, WeightDoubles DEF Widest
<1>2. ASSUME NEW n \in 0..(Widest - 1), n \in T PROVE n + 1 \in T
  <2>1. n + 1 \in 0..Widest /\ n \in 0..Widest
    BY DEF Widest
  <2>2. Value(w, n + 1) = Value(w, n) + Share(w, n)
    BY ValueStep
  <2>3. Share(w, n) \in {0, Weight(n)}
    BY DEF Share
  <2>4. Weight(n) \in Nat \ {0} /\ Weight(n + 1) = 2 * Weight(n)
    BY <2>1, WeightDoubles
  <2> QED BY <1>2, <2>1, <2>2, <2>3, <2>4
<1> HIDE DEF T
<1>3. \A n \in 0..Widest : n \in T
  BY <1>1, <1>2, InductiveUpTo DEF Widest
<1> QED BY <1>3 DEF T

\* Only the bits below n count.
LEMMA ValueAgree ==
  ASSUME NEW v, NEW w, NEW n \in 0..Widest, \A i \in 0..(n - 1) : i \in v <=> i \in w
  PROVE  Value(v, n) = Value(w, n)
<1> DEFINE T == {k \in 0..n : Value(v, k) = Value(w, k)}
<1>1. 0 \in T
  BY ValueStep DEF Widest
<1>2. ASSUME NEW k \in 0..(n - 1), k \in T PROVE k + 1 \in T
  <2>1. k + 1 \in 0..n /\ k \in 0..(Widest - 1)
    BY DEF Widest
  <2>2. Share(v, k) = Share(w, k)
    BY DEF Share
  <2> QED BY <1>2, <2>1, <2>2, ValueStep
<1> HIDE DEF T
<1>3. n \in Nat
  BY DEF Widest
<1>4. \A k \in 0..n : k \in T
  BY <1>1, <1>2, <1>3, InductiveUpTo
<1> QED BY <1>3, <1>4 DEF T

\* A word with no low bits.
LEMMA ValueOfNone ==
  ASSUME NEW w, NEW n \in 0..Widest, \A i \in 0..(n - 1) : i \notin w
  PROVE  Value(w, n) = 0
<1> DEFINE T == {k \in 0..n : Value(w, k) = 0}
<1>1. 0 \in T
  BY ValueStep DEF Widest
<1>2. ASSUME NEW k \in 0..(n - 1), k \in T PROVE k + 1 \in T
  <2>1. k + 1 \in 0..n /\ k \in 0..(Widest - 1)
    BY DEF Widest
  <2>2. Share(w, k) = 0
    BY DEF Share
  <2> QED BY <1>2, <2>1, <2>2, ValueStep
<1> HIDE DEF T
<1>3. n \in Nat
  BY DEF Widest
<1>4. \A k \in 0..n : k \in T
  BY <1>1, <1>2, <1>3, InductiveUpTo
<1> QED BY <1>3, <1>4 DEF T

\* A bit taken out of a word takes its weight with it.
LEMMA ValueRemove ==
  ASSUME NEW w, NEW x \in w, NEW n \in 0..Widest, x \in 0..(n - 1)
  PROVE  Value(w, n) = Weight(x) + Value(w \ {x}, n)
<1> DEFINE T == {k \in 0..n : x < k => Value(w, k) = Weight(x) + Value(w \ {x}, k)}
<1>0. n \in Nat /\ x \in Nat /\ x + 1 \in 0..n
  BY DEF Widest
<1>1. 0 \in T
  BY <1>0
<1>2. ASSUME NEW k \in 0..(n - 1), k \in T PROVE k + 1 \in T
  <2>1. k + 1 \in 0..n /\ k \in 0..(Widest - 1) /\ k \in 0..Widest
    BY DEF Widest
  <2>2. /\ Value(w, k + 1) = Value(w, k) + Share(w, k)
        /\ Value(w \ {x}, k + 1) = Value(w \ {x}, k) + Share(w \ {x}, k)
    BY <2>1, ValueStep
  <2>3. Value(w, k) \in Nat /\ Value(w \ {x}, k) \in Nat /\ Weight(k) \in Nat /\ Weight(x) \in Nat
    BY <2>1, <1>0, ValueRange, WeightDoubles DEF Widest
  <2>4. CASE x < k
    <3>1. Share(w, k) = Share(w \ {x}, k) /\ Share(w, k) \in Nat
      BY <1>0, <2>3, <2>4 DEF Share
    <3>2. Value(w, k) = Weight(x) + Value(w \ {x}, k)
      BY <1>2, <2>4
    <3>3. Value(w, k + 1) = Weight(x) + Value(w \ {x}, k + 1)
      BY <2>2, <2>3, <3>1, <3>2
    <3> QED BY <2>1, <3>3
  <2>5. CASE x = k
    <3>1. Share(w, k) = Weight(x) /\ Share(w \ {x}, k) = 0
      BY <2>5 DEF Share
    <3>2. Value(w, k) = Value(w \ {x}, k)
      BY <2>1, <2>5, ValueAgree
    <3> QED BY <2>1, <2>2, <2>3, <3>1, <3>2
  <2>6. CASE x > k
    BY <1>0, <2>1, <2>6
  <2> QED BY <1>0, <2>4, <2>5, <2>6
<1> HIDE DEF T
<1>3. \A k \in 0..n : k \in T
  BY <1>0, <1>1, <1>2, InductiveUpTo
<1> QED BY <1>0, <1>3 DEF T

\* Unsigned adds the weights of the bits in whatever order: it is the value bit
\* by bit.
LEMMA UnsignedIsValue ==
  ASSUME NEW w, w \subseteq 0..(Widest - 1)
  PROVE  Unsigned(w) = Value(w, Widest)
<1> DEFINE chosen(s) == CHOOSE x \in s : TRUE
           IsFold(f) == f = [s \in SUBSET w |-> IF s = {} THEN 0
                               ELSE Weight(chosen(s)) + f[s \ {chosen(s)}]]
           fold == CHOOSE f : IsFold(f)
           value(s) == Value(s, Widest)
<1>1. Unsigned(w) = fold[w]
  BY DEF Unsigned, MapThenSumSet, MapThenFoldSet
<1>2. ASSUME NEW s \in SUBSET w, s # {}
      PROVE  /\ chosen(s) \in s /\ s \ {chosen(s)} \in SUBSET w
             /\ value(s) = Weight(chosen(s)) + value(s \ {chosen(s)})
             /\ value(s \ {chosen(s)}) \in Nat /\ Weight(chosen(s)) \in Nat \ {0}
  <2>1. chosen(s) \in s
    BY <1>2
  <2> DEFINE x == chosen(s)
  <2> HIDE DEF chosen
  <2> SUFFICES /\ s \ {x} \in SUBSET w
               /\ Value(s, Widest) = Weight(x) + Value(s \ {x}, Widest)
               /\ Value(s \ {x}, Widest) \in Nat /\ Weight(x) \in Nat \ {0}
    BY <2>1
  <2> HIDE DEF x
  <2>2. x \in s /\ x \in 0..(Widest - 1)
    BY <2>1 DEF x
  <2>3. Widest \in 0..Widest /\ x \in 0..Widest
    BY <2>2 DEF Widest
  <2>4. Value(s, Widest) = Weight(x) + Value(s \ {x}, Widest)
    BY <2>2, <2>3, ValueRemove
  <2>5. Value(s \ {x}, Widest) \in Nat /\ Weight(x) \in Nat \ {0}
    BY <2>3, ValueRange, WeightDoubles
  <2> QED BY <2>4, <2>5
<1>3. \A s : s = {} => value(s) = 0
  BY ValueOfNone DEF Widest
<1> HIDE DEF chosen, value
<1>4. IsFold([s \in SUBSET w |-> value(s)])
  <2> DEFINE g == [s \in SUBSET w |-> value(s)]
  <2>1. ASSUME NEW s \in SUBSET w
        PROVE  g[s] = IF s = {} THEN 0 ELSE Weight(chosen(s)) + g[s \ {chosen(s)}]
    BY <1>2, <1>3
  <2>2. g = [s \in SUBSET w |-> g[s]]
    OBVIOUS
  <2> HIDE DEF g
  <2>3. g = [s \in SUBSET w |-> IF s = {} THEN 0 ELSE Weight(chosen(s)) + g[s \ {chosen(s)}]]
    BY <2>1, <2>2
  <2> QED BY <2>3 DEF g
<1>5. IsFold(fold)
  BY <1>4
<1> HIDE DEF fold
<1>6. ASSUME NEW s \in SUBSET w
      PROVE  fold[s] = IF s = {} THEN 0 ELSE Weight(chosen(s)) + fold[s \ {chosen(s)}]
  BY <1>5
<1> HIDE DEF IsFold
<1>7. \A s \in SUBSET w : fold[s] = value(s)
  <2> DEFINE wrong == {s \in SUBSET w : fold[s] # value(s)}
             T == {value(s) : s \in wrong}
  <2> SUFFICES ASSUME wrong # {} PROVE FALSE
    OBVIOUS
  <2>1. \A s \in SUBSET w : value(s) \in Nat
    BY ValueRange, WeightDoubles DEF value, Widest
  <2>2. T \subseteq Nat /\ T # {}
    BY <2>1
  <2>3. PICK v \in T : \A u \in T : v <= u
    BY <2>2, LeastElement
  <2>4. PICK s \in wrong : v = value(s)
    BY <2>3
  <2>5. s # {}
    BY <1>3, <1>6, <2>4
  <2>6. value(s \ {chosen(s)}) < v /\ s \ {chosen(s)} \in SUBSET w
    BY <1>2, <2>1, <2>4, <2>5
  <2>7. s \ {chosen(s)} \notin wrong
    BY <2>2, <2>3, <2>6
  <2> QED BY <1>2, <1>6, <2>4, <2>5, <2>6, <2>7
<1> QED BY <1>1, <1>7 DEF value

\* Bits a word does not have add nothing.
LEMMA ValueAbove ==
  ASSUME NEW m \in 0..Widest, NEW n \in m..Widest, NEW w, \A i \in m..(n - 1) : i \notin w
  PROVE  Value(w, n) = Value(w, m)
<1> DEFINE T == {k \in 0..(n - m) : Value(w, m + k) = Value(w, m)}
<1>0. m \in Nat /\ n \in Nat /\ n - m \in Nat /\ n <= Widest /\ Widest \in Nat
  BY DEF Widest
<1>1. 0 \in T
  BY <1>0
<1>2. ASSUME NEW k \in 0..((n - m) - 1), k \in T PROVE k + 1 \in T
  <2>1. m + k \in 0..(Widest - 1) /\ m + k \in m..(n - 1) /\ m + (k + 1) = (m + k) + 1
        /\ k + 1 \in 0..(n - m)
    BY <1>0
  <2>2. Value(w, (m + k) + 1) = Value(w, m + k) + Share(w, m + k) /\ Share(w, m + k) = 0
    BY <2>1, ValueStep DEF Share
  <2>3. Value(w, m + k) \in Nat
    BY <1>0, <2>1, ValueRange
  <2> QED BY <1>2, <2>1, <2>2, <2>3
<1> HIDE DEF T
<1>3. \A k \in 0..(n - m) : k \in T
  BY <1>0, <1>1, <1>2, InductiveUpTo
<1>4. n - m \in T /\ m + (n - m) = n
  BY <1>0, <1>3
<1> QED BY <1>4 DEF T

\* The integer a word of n bits stands for.
LEMMA UnsignedOf ==
  ASSUME NEW n \in 0..Widest, NEW w, w \subseteq 0..(n - 1)
  PROVE  Unsigned(w) = Value(w, n) /\ Unsigned(w) \in Nat /\ Unsigned(w) < Weight(n)
<1>0. n \in Nat /\ Widest \in n..Widest /\ n <= Widest /\ Widest \in Nat
  BY DEF Widest
<1>1. w \subseteq 0..(Widest - 1)
  BY <1>0
<1>2. Value(w, Widest) = Value(w, n)
  <2>1. \A i \in n..(Widest - 1) : i \notin w
    BY <1>0
  <2> QED BY <1>0, <2>1, ValueAbove
<1> QED BY <1>1, <1>2, UnsignedIsValue, ValueRange

\* Words that differ in bits have different values.
LEMMA SameBits ==
  ASSUME NEW v, NEW w, NEW n \in 0..Widest, Value(v, n) = Value(w, n)
  PROVE  \A i \in 0..(n - 1) : i \in v <=> i \in w
<1> DEFINE T == {k \in 0..n : Value(v, k) = Value(w, k) => \A i \in 0..(k - 1) : i \in v <=> i \in w}
<1>0. n \in Nat
  BY DEF Widest
<1>1. 0 \in T
  BY <1>0
<1>2. ASSUME NEW k \in 0..(n - 1), k \in T PROVE k + 1 \in T
  <2>1. k + 1 \in 0..n /\ k \in 0..(Widest - 1) /\ k \in 0..Widest
    BY DEF Widest
  <2> SUFFICES ASSUME Value(v, k + 1) = Value(w, k + 1)
               PROVE  \A i \in 0..k : i \in v <=> i \in w
    BY <2>1
  <2>2. /\ Value(v, k + 1) = Value(v, k) + Share(v, k)
        /\ Value(w, k + 1) = Value(w, k) + Share(w, k)
    BY <2>1, ValueStep
  <2>3. /\ Value(v, k) \in Nat /\ Value(v, k) < Weight(k)
        /\ Value(w, k) \in Nat /\ Value(w, k) < Weight(k) /\ Weight(k) \in Nat
    BY <2>1, ValueRange, WeightDoubles
  <2>4. k \in v <=> k \in w
    BY <2>2, <2>3 DEF Share
  <2>5. Value(v, k) = Value(w, k)
    BY <2>2, <2>3, <2>4 DEF Share
  <2>6. \A i \in 0..(k - 1) : i \in v <=> i \in w
    BY <1>2, <2>5
  <2> QED BY <2>1, <2>4, <2>6
<1> HIDE DEF T
<1>3. \A k \in 0..n : k \in T
  BY <1>0, <1>1, <1>2, InductiveUpTo
<1> QED BY <1>0, <1>3 DEF T

-----------------------------------------------------------------------------
(* The operations of a word. *)

\* The widths the theorems are about: up to the 32 bits of the source, whose
\* shift amounts have 5.
SourceWidth == WordBits <= Widest /\ ShiftBits <= 5

LEMMA WidthRange ==
  ASSUME SourceWidth
  PROVE  /\ WordBits \in 1..Widest /\ WordBits \in 0..Widest /\ SignBit \in 0..(Widest - 1)
         /\ SignBit \in 0..Widest /\ SignBit + 1 = WordBits /\ Bits(WordBits) = 0..(WordBits - 1)
         /\ ShiftBits \in 0..WordBits /\ WordBits = Weight(ShiftBits)
         /\ Weight(WordBits) = 2 * Weight(SignBit)
         /\ Weight(WordBits) \in Nat \ {0} /\ Weight(SignBit) \in Nat \ {0}
<1>1. WordBits \in 1..Widest /\ ShiftBits \in 0..5 /\ WordBits = Weight(ShiftBits)
  BY WordAssumption DEF SourceWidth, Widest, Weight
<1>2. ShiftBits \in 0..WordBits
  BY <1>1, Weights DEF Widest
<1>3. /\ WordBits \in 0..Widest /\ SignBit \in 0..(Widest - 1)
      /\ SignBit \in 0..Widest /\ SignBit + 1 = WordBits /\ Bits(WordBits) = 0..(WordBits - 1)
  BY <1>1 DEF Bits, SignBit, Widest
<1> QED BY <1>1, <1>2, <1>3, WeightDoubles

LEMMA WidthBounds ==
  ASSUME SourceWidth
  PROVE  /\ WordBits \in Nat /\ 1 <= WordBits /\ WordBits <= 32
         /\ SignBit = WordBits - 1 /\ Bits(WordBits) = 0..(WordBits - 1) /\ Widest = 32
<1>1. WordBits \in Nat \ {0} /\ WordBits <= 32
  BY WordAssumption DEF SourceWidth, Widest
<1> QED BY <1>1 DEF SignBit, Bits, Widest

LEMMA WordValue ==
  ASSUME SourceWidth, NEW w \in BitWord
  PROVE  /\ Unsigned(w) = Value(w, WordBits)
         /\ Unsigned(w) \in Nat /\ Unsigned(w) < Weight(WordBits)
BY UnsignedOf, WidthRange DEF BitWord

\* A carry leaves a bit if it is generated there, or enters and is passed on.
LEMMA CarryStep ==
  ASSUME NEW a \in SUBSET Nat, NEW b, NEW n \in Nat
  PROVE  /\ ~CarryInto(a, b, 0)
         /\ CarryInto(a, b, n + 1) <=> n \in a \cap b \/ (n \in a \cup b /\ CarryInto(a, b, n))
<1>1. ~CarryInto(a, b, 0)
  BY DEF CarryInto
<1>2. ASSUME CarryInto(a, b, n + 1)
      PROVE  n \in a \cap b \/ (n \in a \cup b /\ CarryInto(a, b, n))
  <2>1. PICK j \in a \cap b : j < n + 1 /\ \A k \in (j + 1)..((n + 1) - 1) : k \in a \cup b
    BY <1>2 DEF CarryInto
  <2>2. CASE j = n
    BY <2>2
  <2>3. CASE j # n
    <3>1. j < n /\ n \in (j + 1)..((n + 1) - 1)
      BY <2>1, <2>3
    <3>2. \A k \in (j + 1)..(n - 1) : k \in a \cup b
      BY <2>1
    <3> QED BY <2>1, <3>1, <3>2 DEF CarryInto
  <2> QED BY <2>2, <2>3
<1>3. ASSUME n \in a \cap b PROVE CarryInto(a, b, n + 1)
  BY <1>3 DEF CarryInto
<1>4. ASSUME n \in a \cup b, CarryInto(a, b, n) PROVE CarryInto(a, b, n + 1)
  <2>1. PICK j \in a \cap b : j < n /\ \A k \in (j + 1)..(n - 1) : k \in a \cup b
    BY <1>4 DEF CarryInto
  <2>2. \A k \in (j + 1)..((n + 1) - 1) : k \in a \cup b
    BY <1>4, <2>1
  <2> QED BY <2>1, <2>2 DEF CarryInto
<1> QED BY <1>1, <1>2, <1>3, <1>4

\* The low bits of a sum, and the carry out of them.
LEMMA PartialSum ==
  ASSUME SourceWidth, NEW a \in BitWord, NEW b \in BitWord
  PROVE  \A n \in 0..WordBits :
           Value(a, n) + Value(b, n)
             = Value(Plus(a, b), n) + (IF CarryInto(a, b, n) THEN Weight(n) ELSE 0)
<1> DEFINE s == Plus(a, b)
           out(n) == IF CarryInto(a, b, n) THEN Weight(n) ELSE 0
           T == {n \in 0..WordBits : Value(a, n) + Value(b, n) = Value(s, n) + out(n)}
<1>0. WordBits \in Nat /\ WordBits \in 0..Widest /\ a \in SUBSET Nat
  BY WidthRange DEF BitWord, Bits
<1>1. 0 \in T
  <2>1. Value(a, 0) = 0 /\ Value(b, 0) = 0 /\ Value(s, 0) = 0
    BY ValueStep
  <2>2. out(0) = 0 /\ 0 \in 0..WordBits
    BY <1>0, CarryStep
  <2> HIDE DEF s, out
  <2> QED BY <2>1, <2>2
<1>2. ASSUME NEW n \in 0..(WordBits - 1), n \in T PROVE n + 1 \in T
  <2>1. n + 1 \in 0..WordBits /\ n \in Nat /\ n \in 0..(Widest - 1) /\ n \in 0..Widest
    BY <1>0 DEF Widest
  <2>2. /\ Value(a, n + 1) = Value(a, n) + Share(a, n)
        /\ Value(b, n + 1) = Value(b, n) + Share(b, n)
        /\ Value(s, n + 1) = Value(s, n) + Share(s, n)
    BY <2>1, ValueStep
  <2>3. /\ Value(a, n) \in Nat /\ Value(b, n) \in Nat /\ Value(s, n) \in Nat
        /\ Weight(n) \in Nat /\ Weight(n + 1) = 2 * Weight(n)
    BY <2>1, ValueRange, WeightDoubles
  <2>4. n \in s <=> ~((n \in a <=> n \notin b) <=> CarryInto(a, b, n))
    <3>1. n \in SymDiff(a, b) <=> (n \in a <=> n \notin b)
      BY DEF SymDiff
    <3>2. n \in Bits(WordBits)
      BY DEF Bits
    <3>3. CarryInto(a, b, n) \in BOOLEAN
      BY DEF CarryInto
    <3> QED BY <3>1, <3>2, <3>3 DEF Plus
  <2>5. out(n + 1) = IF n \in a \cap b \/ (n \in a \cup b /\ CarryInto(a, b, n))
                       THEN 2 * Weight(n) ELSE 0
    BY <1>0, <2>1, <2>3, CarryStep
  <2>6. Share(a, n) + Share(b, n) + out(n) = Share(s, n) + out(n + 1)
    <3> DEFINE w == Weight(n)
    <3> HIDE DEF s, w
    <3>1. out(n) = (IF CarryInto(a, b, n) THEN w ELSE 0) /\ w \in Nat
      BY <2>3 DEF w
    <3>2. out(n + 1) = IF n \in a \cap b \/ (n \in a \cup b /\ CarryInto(a, b, n))
                         THEN 2 * w ELSE 0
      BY <2>5 DEF w
    <3>3. \A x : Share(x, n) = IF n \in x THEN w ELSE 0
      BY DEF Share, w
    <3> HIDE DEF out
    <3>4. CASE CarryInto(a, b, n)
      BY <2>4, <3>1, <3>2, <3>3, <3>4
    <3>5. CASE ~CarryInto(a, b, n)
      BY <2>4, <3>1, <3>2, <3>3, <3>5
    <3> QED BY <3>4, <3>5
  <2>7. /\ Share(a, n) \in Nat /\ Share(b, n) \in Nat /\ Share(s, n) \in Nat
        /\ out(n) \in Nat /\ out(n + 1) \in Nat
    BY <2>3, <2>5 DEF Share
  <2> HIDE DEF out, s
  <2> QED BY <1>2, <2>1, <2>2, <2>3, <2>6, <2>7
<1> HIDE DEF T
<1>3. \A n \in 0..WordBits : n \in T
  BY <1>0, <1>1, <1>2, InductiveUpTo
<1> QED BY <1>3 DEF T

LEMMA PlusIsWord == ASSUME NEW a, NEW b PROVE Plus(a, b) \in BitWord
BY DEF Plus, BitWord

\* Carries ripple to what uint32_t addition is: the sum modulo 2^WordBits.
THEOREM PlusAdds ==
  ASSUME SourceWidth, NEW a \in BitWord, NEW b \in BitWord
  PROVE  Unsigned(Plus(a, b)) = (Unsigned(a) + Unsigned(b)) % Weight(WordBits)
<1> DEFINE s == Plus(a, b)
           c == IF CarryInto(a, b, WordBits) THEN 1 ELSE 0
           m == Weight(WordBits)
<1>1. m \in Nat \ {0} /\ WordBits \in 0..Widest /\ WordBits \in 0..WordBits
  BY WidthRange
<1>2. /\ Unsigned(a) = Value(a, WordBits) /\ Unsigned(a) \in Nat
      /\ Unsigned(b) = Value(b, WordBits) /\ Unsigned(b) \in Nat
      /\ Unsigned(s) = Value(s, WordBits) /\ Unsigned(s) \in 0..(m - 1)
  BY <1>1, WordValue, PlusIsWord
<1>3. Unsigned(a) + Unsigned(b) = Unsigned(s) + m * c
  BY <1>1, <1>2, PartialSum
<1>4. c \in Int
  OBVIOUS
<1> HIDE DEF c, s, m
<1> QED BY <1>1, <1>2, <1>3, <1>4, Quotient DEF s, m

\* A word and its complement add up to the word of all bits.
LEMMA ComplementValue ==
  ASSUME SourceWidth, NEW w \in BitWord
  PROVE  /\ Complement(w) \in BitWord
         /\ Unsigned(Complement(w)) = (Weight(WordBits) - 1) - Unsigned(w)
<1> DEFINE c == Complement(w)
           T == {n \in 0..WordBits : Value(c, n) + Value(w, n) = Weight(n) - 1}
<1>0. WordBits \in Nat /\ WordBits \in 0..Widest /\ c \in BitWord
  BY WidthRange DEF Complement, BitWord
<1>1. 0 \in T
  BY <1>0, ValueStep, WeightDoubles
<1>2. ASSUME NEW n \in 0..(WordBits - 1), n \in T PROVE n + 1 \in T
  <2>1. n + 1 \in 0..WordBits /\ n \in 0..(Widest - 1) /\ n \in 0..Widest
    BY <1>0 DEF Widest
  <2>2. Value(c, n + 1) = Value(c, n) + Share(c, n) /\ Value(w, n + 1) = Value(w, n) + Share(w, n)
    BY <2>1, ValueStep
  <2>3. /\ Value(c, n) \in Nat /\ Value(w, n) \in Nat
        /\ Weight(n) \in Nat /\ Weight(n + 1) = 2 * Weight(n)
    BY <2>1, ValueRange, WeightDoubles
  <2>4. Share(c, n) + Share(w, n) = Weight(n) /\ Share(c, n) \in Nat /\ Share(w, n) \in Nat
    BY <2>3 DEF Share, Complement, Bits
  <2> HIDE DEF c
  <2> QED BY <1>2, <2>1, <2>2, <2>3, <2>4
<1> HIDE DEF T
<1>3. \A n \in 0..WordBits : n \in T
  BY <1>0, <1>1, <1>2, InductiveUpTo
<1>4. Value(c, WordBits) + Value(w, WordBits) = Weight(WordBits) - 1
  BY <1>0, <1>3 DEF T
<1>5. /\ Unsigned(c) = Value(c, WordBits) /\ Unsigned(c) \in Nat
      /\ Unsigned(w) = Value(w, WordBits) /\ Unsigned(w) \in Nat
      /\ Weight(WordBits) \in Nat
  BY <1>0, WordValue, WidthRange
<1> HIDE DEF c
<1> QED BY <1>0, <1>4, <1>5 DEF c

LEMMA UnsignedOne ==
  ASSUME SourceWidth
  PROVE  {0} \in BitWord /\ Unsigned({0}) = 1 /\ {} \in BitWord /\ Unsigned({}) = 0
<1>1. {0} \in BitWord /\ {} \in BitWord
  BY WidthRange DEF BitWord
<1>2. Unsigned({0}) = Value({0}, 1)
  BY UnsignedOf DEF Widest
<1>3. Value({0}, 0 + 1) = Value({0}, 0) + Share({0}, 0) /\ Value({0}, 0) = 0 /\ Share({0}, 0) = 1
  BY ValueStep, WeightDoubles DEF Share, Widest
<1>4. Unsigned({}) = Value({}, 0) /\ Value({}, 0) = 0
  BY UnsignedOf, ValueStep DEF Widest
<1> QED BY <1>1, <1>2, <1>3, <1>4

\* Subtraction, by the complement, is the difference modulo 2^WordBits.
THEOREM MinusSubtracts ==
  ASSUME SourceWidth, NEW a \in BitWord, NEW b \in BitWord
  PROVE  Unsigned(Minus(a, b)) = (Unsigned(a) - Unsigned(b)) % Weight(WordBits)
<1> DEFINE m == Weight(WordBits)
           p == Plus(a, Complement(b))
           x == Unsigned(a)
           y == Unsigned(b)
<1>1. m \in Nat \ {0} /\ x \in 0..(m - 1) /\ y \in 0..(m - 1)
  BY WidthRange, WordValue
<1>2. Unsigned(p) = (x + ((m - 1) - y)) % m /\ p \in BitWord
  BY ComplementValue, PlusAdds, PlusIsWord
<1>3. Unsigned(Minus(a, b)) = (Unsigned(p) + 1) % m
  BY <1>2, PlusAdds, UnsignedOne DEF Minus
<1> SUFFICES Unsigned(Minus(a, b)) = (x - y) % m
  OBVIOUS
<1> HIDE DEF m, p, x, y
<1>4. CASE x >= y + 1
  <2>1. x + ((m - 1) - y) = m * 1 + ((x - y) - 1) /\ (x - y) - 1 \in 0..(m - 1)
    BY <1>1, <1>4
  <2>2. Unsigned(p) = (x - y) - 1
    BY <1>1, <1>2, <2>1, Quotient
  <2> QED BY <1>1, <1>3, <2>2
<1>5. CASE x < y + 1
  <2>1. x + ((m - 1) - y) = m * 0 + (((m + x) - y) - 1) /\ ((m + x) - y) - 1 \in 0..(m - 1)
    BY <1>1, <1>5
  <2>2. Unsigned(p) = ((m + x) - y) - 1
    BY <1>1, <1>2, <2>1, Quotient
  <2>3. Unsigned(Minus(a, b)) = ((m + x) - y) % m
    BY <1>1, <1>3, <2>2
  <2>4. CASE x = y
    <3>1. (m + x) - y = m * 1 + 0 /\ x - y = m * 0 + 0 /\ 0 \in 0..(m - 1)
      BY <1>1, <2>4
    <3> QED BY <1>1, <2>3, <3>1, Quotient
  <2>5. CASE x # y
    <3>1. /\ (m + x) - y = m * 0 + ((m + x) - y) /\ x - y = m * (0 - 1) + ((m + x) - y)
          /\ (m + x) - y \in 0..(m - 1) /\ 0 - 1 \in Int
      BY <1>1, <1>5, <2>5
    <3> QED BY <1>1, <2>3, <3>1, Quotient
  <2> QED BY <2>4, <2>5
<1> QED BY <1>1, <1>4, <1>5

-----------------------------------------------------------------------------
(* Comparisons. *)

\* The highest bit that differs decides.
LEMMA HighestDecides ==
  ASSUME NEW a, NEW b, NEW n \in 0..Widest, NEW j \in 0..(n - 1), j \in a, j \notin b,
         \A i \in (j + 1)..(n - 1) : i \in a <=> i \in b
  PROVE  Value(a, n) > Value(b, n)
<1> DEFINE T == {k \in 0..n : k > j => Value(a, k) > Value(b, k)}
<1>0. n \in Nat /\ j \in Nat
  BY DEF Widest
<1>1. 0 \in T
  BY <1>0
<1>2. ASSUME NEW k \in 0..(n - 1), k \in T PROVE k + 1 \in T
  <2>1. k + 1 \in 0..n /\ k \in 0..(Widest - 1) /\ k \in 0..Widest
    BY <1>0 DEF Widest
  <2>2. Value(a, k + 1) = Value(a, k) + Share(a, k) /\ Value(b, k + 1) = Value(b, k) + Share(b, k)
    BY <2>1, ValueStep
  <2>3. /\ Value(a, k) \in Nat /\ Value(b, k) \in Nat /\ Value(b, k) < Weight(k)
        /\ Weight(k) \in Nat
    BY <2>1, ValueRange, WeightDoubles
  <2>4. CASE k = j
    <3>1. Share(a, k) = Weight(k) /\ Share(b, k) = 0
      BY <2>4 DEF Share
    <3> QED BY <2>1, <2>2, <2>3, <3>1
  <2>5. CASE k > j
    <3>1. Share(a, k) = Share(b, k) /\ Share(a, k) \in Nat
      BY <1>0, <2>3, <2>5 DEF Share
    <3> QED BY <1>2, <2>1, <2>2, <2>3, <2>5, <3>1
  <2>6. CASE k < j
    BY <1>0, <2>1, <2>6
  <2> QED BY <1>0, <2>4, <2>5, <2>6
<1> HIDE DEF T
<1>3. \A k \in 0..n : k \in T
  BY <1>0, <1>1, <1>2, InductiveUpTo
<1> QED BY <1>0, <1>3 DEF T

\* A set of bits that is not empty has a highest one.
LEMMA HighestBit ==
  ASSUME NEW n \in Nat, NEW D, D \subseteq 0..n, D # {}
  PROVE  Max(D) \in D /\ \A i \in D : i <= Max(D)
<1> DEFINE T == {n - i : i \in D}
<1>1. PICK t \in T : \A u \in T : t <= u
  <2>1. \A i \in D : n - i \in Nat
    OBVIOUS
  <2>2. T \subseteq Nat /\ T # {}
    BY <2>1
  <2> QED BY <2>2, LeastElement
<1>2. PICK x \in D : t = n - x
  BY <1>1
<1>3. \A i \in D : x >= i
  BY <1>1, <1>2
<1> HIDE DEF T
<1>4. Max(D) \in D /\ \A i \in D : Max(D) >= i
  BY <1>2, <1>3 DEF Max
<1> QED BY <1>4

\* The value of a word as an int32_t.
Signed(w) == IF SignBit \in w THEN Unsigned(w) - Weight(WordBits) ELSE Unsigned(w)

LEMMA SignedValue ==
  ASSUME SourceWidth, NEW w \in BitWord
  PROVE  /\ Value(w, SignBit) \in 0..(Weight(SignBit) - 1)
         /\ Unsigned(w) = Value(w, SignBit) + (IF SignBit \in w THEN Weight(SignBit) ELSE 0)
         /\ Signed(w) = Value(w, SignBit) - (IF SignBit \in w THEN Weight(SignBit) ELSE 0)
         /\ SignBit \in w <=> Unsigned(w) >= Weight(SignBit)
<1>1. /\ Value(w, SignBit) \in Nat /\ Value(w, SignBit) < Weight(SignBit)
      /\ Weight(SignBit) \in Nat
  BY ValueRange, WidthRange
<1>2. Unsigned(w) = Value(w, SignBit) + Share(w, SignBit)
  BY WordValue, WidthRange, ValueStep
<1>3. Weight(WordBits) = 2 * Weight(SignBit)
  BY WidthRange
<1>4. CASE SignBit \in w
  BY <1>1, <1>2, <1>3, <1>4 DEF Signed, Share
<1>5. CASE SignBit \notin w
  BY <1>1, <1>2, <1>3, <1>5 DEF Signed, Share
<1> QED BY <1>4, <1>5

\* The comparison by the highest bit that differs is that of signed integers.
THEOREM BelowIsSmaller ==
  ASSUME SourceWidth, NEW a \in BitWord, NEW b \in BitWord
  PROVE  Below(a, b) <=> Signed(a) < Signed(b)
<1> DEFINE D == SymDiff(a, b)
<1>0. /\ SignBit \in Nat /\ SignBit \in 0..Widest /\ Weight(SignBit) \in Nat \ {0}
      /\ a \subseteq 0..SignBit /\ b \subseteq 0..SignBit
  BY WidthRange DEF BitWord, SignBit
<1>1. \A i : i \in D <=> ~(i \in a <=> i \in b)
  BY DEF SymDiff
<1>2. /\ Value(a, SignBit) \in 0..(Weight(SignBit) - 1)
      /\ Value(b, SignBit) \in 0..(Weight(SignBit) - 1)
      /\ Signed(a) = Value(a, SignBit) - (IF SignBit \in a THEN Weight(SignBit) ELSE 0)
      /\ Signed(b) = Value(b, SignBit) - (IF SignBit \in b THEN Weight(SignBit) ELSE 0)
  BY SignedValue
<1>3. CASE SignBit \in D
  <2>1. Below(a, b) <=> SignBit \in a
    BY <1>3 DEF Below
  <2>2. CASE SignBit \in a
    <3>1. SignBit \notin b
      BY <1>1, <1>3, <2>2
    <3> QED BY <1>0, <1>2, <2>1, <2>2, <3>1
  <2>3. CASE SignBit \notin a
    <3>1. SignBit \in b
      BY <1>1, <1>3, <2>3
    <3> QED BY <1>0, <1>2, <2>1, <2>3, <3>1
  <2> QED BY <2>2, <2>3
<1>4. CASE SignBit \notin D
  <2>1. SignBit \in a <=> SignBit \in b
    BY <1>1, <1>4
  <2>2. Signed(a) < Signed(b) <=> Value(a, SignBit) < Value(b, SignBit)
    BY <1>0, <1>2, <2>1
  <2>3. CASE D = {}
    <3>1. ~Below(a, b)
      BY <2>3 DEF Below
    <3>2. a = b
      BY <1>1, <2>3
    <3> QED BY <1>2, <2>2, <3>1, <3>2
  <2>4. CASE D # {}
    <3> DEFINE j == Max(D)
    <3>1. j \in D /\ \A i \in D : i <= j
      <4>1. D \subseteq 0..SignBit
        BY <1>0, <1>1
      <4> HIDE DEF D
      <4> QED BY <1>0, <2>4, <4>1, HighestBit
    <3>2. Below(a, b) <=> j \in b
      BY <1>4, <2>4 DEF Below
    <3> HIDE DEF j, D
    <3>3. j \in 0..(SignBit - 1)
      <4>1. j \in 0..SignBit /\ j # SignBit
        BY <1>0, <1>1, <1>4, <3>1
      <4> QED BY <1>0, <4>1
    <3>4. \A i \in (j + 1)..(SignBit - 1) : i \in a <=> i \in b
      BY <1>0, <1>1, <3>1, <3>3
    <3>5. CASE j \in b
      <4>1. j \notin a
        BY <1>1, <3>1, <3>5
      <4>2. Value(b, SignBit) > Value(a, SignBit)
        BY <1>0, <3>3, <3>4, <3>5, <4>1, HighestDecides
      <4> QED BY <1>2, <2>2, <3>2, <3>5, <4>2
    <3>6. CASE j \notin b
      <4>1. j \in a
        BY <1>1, <3>1, <3>6
      <4>2. Value(a, SignBit) > Value(b, SignBit)
        BY <1>0, <3>3, <3>4, <3>6, <4>1, HighestDecides
      <4> QED BY <1>2, <2>2, <3>2, <3>6, <4>2
    <3> QED BY <3>5, <3>6
  <2> QED BY <2>3, <2>4
<1> QED BY <1>3, <1>4

-----------------------------------------------------------------------------
(* Shifts. *)

LEMMA WeightSum ==
  ASSUME NEW n \in 0..Widest, NEW k \in 0..(Widest - n)
  PROVE  Weight(n + k) = Weight(n) * Weight(k)
<1> DEFINE T == {j \in 0..k : Weight(n + j) = Weight(n) * Weight(j)}
<1>0. n \in Nat /\ k \in Nat /\ n + k <= Widest /\ Widest \in Nat /\ Weight(n) \in Nat
  BY WeightDoubles DEF Widest
<1>1. 0 \in T
  BY <1>0, WeightDoubles
<1>2. ASSUME NEW j \in 0..(k - 1), j \in T PROVE j + 1 \in T
  <2>1. /\ j + 1 \in 0..k /\ j \in 0..(Widest - 1) /\ n + j \in 0..(Widest - 1)
        /\ n + (j + 1) = (n + j) + 1
    BY <1>0
  <2>2. Weight(n + (j + 1)) = 2 * Weight(n + j) /\ Weight(j + 1) = 2 * Weight(j)
    BY <2>1, WeightDoubles
  <2>3. Weight(n + j) = Weight(n) * Weight(j) /\ Weight(j) \in Nat
    BY <1>0, <1>2, <2>1, WeightDoubles
  <2>4. 2 * (Weight(n) * Weight(j)) = Weight(n) * (2 * Weight(j))
    <3> DEFINE x == Weight(n)
               y == Weight(j)
    <3>1. x \in Nat /\ y \in Nat
      BY <1>0, <2>3
    <3> HIDE DEF x, y
    <3>2. 2 * (x * y) = x * (2 * y)
      BY <3>1
    <3> QED BY <3>2 DEF x, y
  <2> QED BY <2>1, <2>2, <2>3, <2>4
<1> HIDE DEF T
<1>3. \A j \in 0..k : j \in T
  BY <1>0, <1>1, <1>2, InductiveUpTo
<1> QED BY <1>0, <1>3 DEF T

\* Bits that are all set weigh together what separates the weights of their ends.
LEMMA ValueOfOnes ==
  ASSUME NEW m \in 0..Widest, NEW n \in m..Widest, NEW w, \A i \in m..(n - 1) : i \in w
  PROVE  Value(w, n) = Value(w, m) + (Weight(n) - Weight(m))
<1> DEFINE T == {k \in 0..(n - m) : Value(w, m + k) = Value(w, m) + (Weight(m + k) - Weight(m))}
<1>0. /\ m \in Nat /\ n \in Nat /\ n - m \in Nat /\ n <= Widest /\ Widest \in Nat
      /\ Weight(m) \in Nat /\ Value(w, m) \in Nat
  <2>1. Weight(m) \in Nat /\ Value(w, m) \in Nat
    BY WeightDoubles, ValueRange
  <2> QED BY <2>1 DEF Widest
<1>1. 0 \in T
  BY <1>0
<1>2. ASSUME NEW k \in 0..((n - m) - 1), k \in T PROVE k + 1 \in T
  <2>1. /\ m + k \in 0..(Widest - 1) /\ m + k \in m..(n - 1) /\ m + (k + 1) = (m + k) + 1
        /\ k + 1 \in 0..(n - m) /\ m + k \in 0..Widest
    BY <1>0
  <2>2. /\ Value(w, (m + k) + 1) = Value(w, m + k) + Share(w, m + k)
        /\ Share(w, m + k) = Weight(m + k) /\ Weight((m + k) + 1) = 2 * Weight(m + k)
    BY <2>1, ValueStep, WeightDoubles DEF Share
  <2>3. Value(w, m + k) \in Nat /\ Weight(m + k) \in Nat
    BY <2>1, ValueRange, WeightDoubles
  <2> QED BY <1>0, <1>2, <2>1, <2>2, <2>3
<1> HIDE DEF T
<1>3. \A k \in 0..(n - m) : k \in T
  BY <1>0, <1>1, <1>2, InductiveUpTo
<1>4. n - m \in T /\ m + (n - m) = n
  BY <1>0, <1>3
<1> QED BY <1>4 DEF T

\* A word whose bits are those of another, moved: the higher bits are a multiple.
LEMMA ValueSplit ==
  ASSUME NEW n \in 0..Widest, NEW k \in 0..(Widest - n), NEW w, NEW v,
         \A j \in 0..(k - 1) : j \in v <=> j + n \in w
  PROVE  Value(w, n + k) = Weight(n) * Value(v, k) + Value(w, n)
<1> DEFINE T == {j \in 0..k : Value(w, n + j) = Weight(n) * Value(v, j) + Value(w, n)}
<1>0. /\ n \in Nat /\ k \in Nat /\ n + k <= Widest /\ Widest \in Nat
      /\ Weight(n) \in Nat /\ Value(w, n) \in Nat
  <2>1. Weight(n) \in Nat /\ Value(w, n) \in Nat
    BY WeightDoubles, ValueRange
  <2> QED BY <2>1 DEF Widest
<1>1. 0 \in T
  BY <1>0, ValueStep
<1>2. ASSUME NEW j \in 0..(k - 1), j \in T PROVE j + 1 \in T
  <2>1. /\ j + 1 \in 0..k /\ j \in 0..(Widest - 1) /\ j \in 0..Widest /\ n + j \in 0..(Widest - 1)
        /\ n + (j + 1) = (n + j) + 1 /\ j \in 0..(Widest - n)
    BY <1>0
  <2>2. /\ Value(w, n + (j + 1)) = Value(w, n + j) + Share(w, n + j)
        /\ Value(v, j + 1) = Value(v, j) + Share(v, j)
    BY <2>1, ValueStep
  <2>3. Weight(n + j) = Weight(n) * Weight(j)
    BY <2>1, WeightSum
  <2>4. j \in v <=> n + j \in w
    <3>1. j + n = n + j
      BY <1>0, <2>1
    <3> QED BY <3>1
  <2>5. Value(v, j) \in Nat /\ Weight(j) \in Nat
    BY <2>1, ValueRange, WeightDoubles
  <2> DEFINE x == Weight(n)
             y == Weight(j)
             z == Value(v, j)
             b == IF j \in v THEN y ELSE 0
  <2>6. /\ Share(w, n + j) = IF j \in v THEN x * y ELSE 0
        /\ Share(v, j) = b
    BY <2>3, <2>4 DEF Share
  <2>7. Value(w, n + j) = x * z + Value(w, n)
    BY <1>2
  <2>8. x \in Nat /\ y \in Nat /\ z \in Nat /\ b \in Nat
    BY <1>0, <2>5
  <2>9. (IF j \in v THEN x * y ELSE 0) = x * b
    BY <2>8
  <2> HIDE DEF x, y, z, b
  <2>10. (x * z + Value(w, n)) + x * b = x * (z + b) + Value(w, n)
    BY <1>0, <2>8
  <2>11. Value(w, n + (j + 1)) = x * (z + b) + Value(w, n)
    BY <2>2, <2>6, <2>7, <2>9, <2>10
  <2>12. Value(v, j + 1) = z + b
    BY <2>2, <2>6 DEF z
  <2> QED BY <2>1, <2>11, <2>12 DEF x
<1> HIDE DEF T
<1>3. \A j \in 0..k : j \in T
  BY <1>0, <1>1, <1>2, InductiveUpTo
<1> QED BY <1>0, <1>3 DEF T

\* Shifting right drops the low bits.
LEMMA ShiftRightValue ==
  ASSUME SourceWidth, NEW w \in BitWord, NEW n \in 0..WordBits
  PROVE  /\ ShiftRight(w, n) \in BitWord
         /\ Unsigned(ShiftRight(w, n)) = Value(ShiftRight(w, n), WordBits - n)
         /\ Unsigned(w) = Weight(n) * Unsigned(ShiftRight(w, n)) + Value(w, n)
         /\ Unsigned(ShiftRight(w, n)) < Weight(WordBits - n)
<1> DEFINE v == ShiftRight(w, n)
           k == WordBits - n
<1>0. /\ WordBits \in Nat /\ WordBits \in 0..Widest /\ n \in 0..Widest /\ k \in 0..(Widest - n)
      /\ k \in 0..Widest /\ n + k = WordBits /\ n \in Nat /\ k \in Nat
      /\ Bits(WordBits) = 0..(WordBits - 1)
  BY WidthBounds
<1>1. v \in BitWord
  BY DEF ShiftRight, BitWord
<1>2. v \subseteq 0..(k - 1)
  <2> SUFFICES ASSUME NEW i \in w, i - n \in Bits(WordBits) PROVE i - n \in 0..(k - 1)
    BY DEF ShiftRight
  <2>1. i \in 0..(WordBits - 1)
    BY <1>0 DEF BitWord
  <2> QED BY <1>0, <2>1
<1>3. \A j \in 0..(k - 1) : j \in v <=> j + n \in w
  <2> TAKE j \in 0..(k - 1)
  <2>1. j \in Bits(WordBits) /\ (j + n) - n = j
    BY <1>0
  <2>2. j + n \in w => j \in v
    BY <2>1 DEF ShiftRight
  <2>3. ASSUME j \in v PROVE j + n \in w
    <3>1. PICK i \in w : j = i - n
      BY <2>3 DEF ShiftRight
    <3>2. i \in Int
      BY <1>0 DEF BitWord
    <3>3. i = j + n
      BY <1>0, <3>1, <3>2
    <3> QED BY <3>3
  <2> QED BY <2>2, <2>3
<1> HIDE DEF v, k
<1>4. Unsigned(v) = Value(v, k) /\ Unsigned(v) < Weight(k)
  BY <1>0, <1>2, UnsignedOf
<1>5. Value(w, n + k) = Weight(n) * Value(v, k) + Value(w, n)
  BY <1>0, <1>3, ValueSplit
<1>6. Unsigned(w) = Value(w, n + k)
  BY <1>0, WordValue
<1> QED BY <1>1, <1>4, <1>5, <1>6 DEF v, k

\* The low bits are the remainder, the others the quotient.
LEMMA LowAndHigh ==
  ASSUME SourceWidth, NEW w \in BitWord, NEW n \in 0..WordBits
  PROVE  /\ Unsigned(w) \div Weight(n) = Unsigned(ShiftRight(w, n))
         /\ Unsigned(w) % Weight(n) = Value(w, n)
<1>1. /\ Weight(n) \in Nat \ {0} /\ Value(w, n) \in 0..(Weight(n) - 1)
      /\ Unsigned(ShiftRight(w, n)) \in Int
  <2>1. n \in 0..Widest
    BY WidthBounds
  <2>2. Weight(n) \in Nat \ {0} /\ Value(w, n) \in Nat /\ Value(w, n) < Weight(n)
    BY <2>1, WeightDoubles, ValueRange
  <2>3. Unsigned(ShiftRight(w, n)) \in Nat
    BY ShiftRightValue, WordValue
  <2> QED BY <2>2, <2>3
<1>2. Unsigned(w) = Weight(n) * Unsigned(ShiftRight(w, n)) + Value(w, n)
  BY ShiftRightValue
<1> QED BY <1>1, <1>2, Quotient

\* The amount of a shift is the operand modulo the width.
THEOREM AmountIsModulo ==
  ASSUME SourceWidth, NEW w \in BitWord
  PROVE  ShiftAmount(w) = Unsigned(w) % WordBits /\ ShiftAmount(w) \in 0..(WordBits - 1)
<1>1. ShiftBits \in 0..Widest /\ ShiftBits \in 0..WordBits /\ WordBits = Weight(ShiftBits)
  <2>1. ShiftBits \in 0..WordBits /\ WordBits = Weight(ShiftBits)
    BY WidthRange
  <2> QED BY <2>1, WidthBounds
<1> DEFINE low == w \cap Bits(ShiftBits)
<1>2. Unsigned(low) = Value(low, ShiftBits)
  BY <1>1, UnsignedOf DEF Bits
<1>3. Value(low, ShiftBits) = Value(w, ShiftBits)
  BY <1>1, ValueAgree DEF Bits
<1>4. Unsigned(w) % Weight(ShiftBits) = Value(w, ShiftBits)
  BY <1>1, LowAndHigh
<1>5. Value(w, ShiftBits) \in 0..(WordBits - 1)
  <2>1. Value(w, ShiftBits) \in Nat /\ Value(w, ShiftBits) < WordBits /\ WordBits \in Nat
    BY <1>1, ValueRange, WidthBounds
  <2> QED BY <2>1
<1> HIDE DEF low
<1>6. ShiftAmount(w) = Unsigned(low)
  BY DEF ShiftAmount, low
<1> QED BY <1>1, <1>2, <1>3, <1>4, <1>5, <1>6

\* Shifting left multiplies, modulo 2^WordBits.
THEOREM ShiftLeftMultiplies ==
  ASSUME SourceWidth, NEW w \in BitWord, NEW n \in 0..WordBits
  PROVE  /\ ShiftLeft(w, n) \in BitWord
         /\ Unsigned(ShiftLeft(w, n)) = (Unsigned(w) * Weight(n)) % Weight(WordBits)
<1> DEFINE v == ShiftLeft(w, n)
           k == WordBits - n
<1>0. /\ WordBits \in Nat /\ WordBits \in 0..Widest /\ n \in 0..Widest /\ k \in 0..(Widest - n)
      /\ n \in 0..(Widest - k) /\ k \in 0..WordBits
      /\ k \in 0..Widest /\ n + k = WordBits /\ k + n = WordBits /\ n \in Nat /\ k \in Nat
      /\ Bits(WordBits) = 0..(WordBits - 1)
  BY WidthBounds
<1>1. v \in BitWord
  BY DEF ShiftLeft, BitWord
<1>2. \A j \in 0..(k - 1) : j \in w <=> j + n \in v
  <2> TAKE j \in 0..(k - 1)
  <2>1. j + n \in Bits(WordBits)
    BY <1>0
  <2>2. ASSUME j + n \in v PROVE j \in w
    <3>1. PICK i \in w : j + n = i + n
      BY <2>2 DEF ShiftLeft
    <3>2. i \in Int
      BY <1>0 DEF BitWord
    <3>3. i = j
      BY <1>0, <3>1, <3>2
    <3> QED BY <3>3
  <2> QED BY <2>1, <2>2 DEF ShiftLeft
<1>3. Value(v, n) = 0
  <2>1. ASSUME NEW j \in 0..(n - 1), j \in v PROVE FALSE
    <3>1. PICK i \in w : j = i + n
      BY <2>1 DEF ShiftLeft
    <3>2. i \in Nat
      BY <1>0 DEF BitWord
    <3> QED BY <1>0, <3>1, <3>2
  <2> HIDE DEF v
  <2> QED BY <1>0, <2>1, ValueOfNone
<1> HIDE DEF v, k
<1>4. Unsigned(v) = Weight(n) * Value(w, k)
  <2>1. Value(v, n + k) = Weight(n) * Value(w, k) + Value(v, n)
    BY <1>0, <1>2, ValueSplit
  <2>2. Unsigned(v) = Value(v, n + k)
    BY <1>0, <1>1, WordValue
  <2>3. Weight(n) * Value(w, k) \in Nat
    BY <1>0, ValueRange, WeightDoubles
  <2> QED BY <1>3, <2>1, <2>2, <2>3
<1> DEFINE q == Unsigned(ShiftRight(w, k))
           low == Value(w, k)
           x == Weight(n)
           y == Weight(k)
           m == Weight(WordBits)
<1>5. /\ Unsigned(w) = y * q + low /\ m = x * y
      /\ x \in Nat \ {0} /\ y \in Nat \ {0} /\ q \in Nat /\ low \in 0..(y - 1)
  <2>1. Unsigned(w) = y * q + low /\ q \in Nat
    BY <1>0, ShiftRightValue, WordValue
  <2>2. m = x * y
    BY <1>0, WeightSum
  <2>3. low \in Nat /\ low < y
    BY <1>0, ValueRange
  <2>4. x \in Nat \ {0} /\ y \in Nat \ {0}
    BY <1>0, WeightDoubles
  <2> QED BY <2>1, <2>2, <2>3, <2>4
<1>6. Unsigned(v) = x * low
  BY <1>4
<1> HIDE DEF q, low, x, y, m
<1>7. Unsigned(w) * x = m * q + x * low
  <2>1. (y * q + low) * x = (x * y) * q + x * low
    BY <1>5
  <2> QED BY <1>5, <2>1
<1>8. x * low \in 0..(m - 1) /\ m \in Nat \ {0}
  <2>1. x * low <= x * (y - 1) /\ x * low >= 0
    BY <1>5
  <2>2. x * (y - 1) = x * y - x /\ x * y >= 1 /\ x * y \in Nat /\ x * low \in Int
    BY <1>5
  <2> QED BY <1>5, <2>1, <2>2
<1>9. (m * q + x * low) % m = x * low
  <2> DEFINE r == x * low
  <2>1. r \in 0..(m - 1) /\ q \in Int
    BY <1>5, <1>8
  <2> HIDE DEF r
  <2>2. (m * q + r) % m = r
    BY <1>8, <2>1, Quotient
  <2> QED BY <2>2 DEF r
<1>10. (Unsigned(w) * x) % m = Unsigned(v)
  BY <1>6, <1>7, <1>9
<1> QED BY <1>1, <1>10 DEF v, x, m

\* >> on a signed operand divides it, rounding down.
THEOREM ShiftRightSignedDivides ==
  ASSUME SourceWidth, NEW w \in BitWord, NEW n \in 0..(WordBits - 1)
  PROVE  /\ ShiftRightSigned(w, n) \in BitWord
         /\ Unsigned(ShiftRightSigned(w, n)) = (Signed(w) \div Weight(n)) % Weight(WordBits)
<1> DEFINE v == ShiftRightSigned(w, n)
           u == ShiftRight(w, n)
           k == WordBits - n
           q == Unsigned(u)
           low == Value(w, n)
           x == Weight(n)
           y == Weight(k)
           m == Weight(WordBits)
<1>0. /\ WordBits \in Nat /\ WordBits \in 0..Widest /\ n \in 0..Widest /\ k \in 0..(Widest - n)
      /\ n \in 0..WordBits /\ k \in 0..WordBits
      /\ k \in 0..Widest /\ n + k = WordBits /\ n \in Nat /\ k \in Nat
      /\ Bits(WordBits) = 0..(WordBits - 1) /\ SignBit = WordBits - 1
      /\ WordBits \in k..Widest
  BY WidthBounds
<1>1. v \in BitWord
  <2>1. k..SignBit \subseteq Bits(WordBits)
    BY <1>0
  <2> QED BY <1>0, <2>1 DEF ShiftRightSigned, ShiftRight, BitWord
<1>2. /\ Unsigned(w) = x * q + low /\ m = x * y
      /\ x \in Nat \ {0} /\ y \in Nat \ {0} /\ m \in Nat \ {0}
      /\ q \in 0..(y - 1) /\ low \in 0..(x - 1)
  <2>1. Unsigned(w) = x * q + low /\ q \in Nat /\ q < y
    BY <1>0, ShiftRightValue, WordValue
  <2>2. m = x * y
    BY <1>0, WeightSum
  <2>3. low \in Nat /\ low < x
    BY <1>0, ValueRange
  <2>4. x \in Nat \ {0} /\ y \in Nat \ {0} /\ m \in Nat \ {0}
    BY <1>0, WeightDoubles
  <2> HIDE DEF x, y, m, q, low
  <2> QED BY <2>1, <2>2, <2>3, <2>4
<1>3. Unsigned(u) = Value(u, k) /\ u \subseteq 0..(k - 1)
  <2>1. Unsigned(u) = Value(u, k)
    BY <1>0, ShiftRightValue
  <2>2. ASSUME NEW i \in w, i - n \in Bits(WordBits) PROVE i - n \in 0..(k - 1)
    <3>1. i \in 0..(WordBits - 1)
      BY <1>0 DEF BitWord
    <3> QED BY <1>0, <2>2, <3>1
  <2> QED BY <2>1, <2>2 DEF ShiftRight
<1>4. y <= m
  <2> HIDE DEF x, y, m
  <2>1. y <= x * y
    BY <1>2
  <2> QED BY <1>2, <2>1
<1>5. CASE SignBit \notin w
  <2>1. v = u /\ Signed(w) = x * q + low
    BY <1>2, <1>5 DEF ShiftRightSigned, Signed
  <2>2. Unsigned(v) = q
    BY <2>1
  <2> HIDE DEF x, y, m, q, low, u, v
  <2>3. Signed(w) \div x = q
    BY <1>2, <2>1, Quotient
  <2>4. q = m * 0 + q /\ q \in 0..(m - 1)
    BY <1>2, <1>4
  <2>5. q % m = q
    BY <1>2, <2>4, Quotient
  <2>6. Unsigned(v) = (Signed(w) \div x) % m
    BY <2>2, <2>3, <2>5
  <2> QED BY <1>1, <2>6 DEF v, x, m
<1>6. CASE SignBit \in w
  <2>1. Signed(w) = (x * q + low) - m /\ v = u \cup (k..SignBit)
    BY <1>2, <1>6 DEF ShiftRightSigned, Signed
  <2>2. Value(v, k) = q
    <3>1. \A i \in 0..(k - 1) : i \in v <=> i \in u
      BY <1>0, <2>1
    <3> HIDE DEF u, v
    <3> QED BY <1>0, <1>3, <3>1, ValueAgree
  <2>3. Unsigned(v) = q + (m - y)
    <3>1. \A i \in k..(WordBits - 1) : i \in v
      BY <1>0, <2>1
    <3> HIDE DEF v, q, k
    <3> QED BY <1>0, <1>1, <2>2, <3>1, ValueOfOnes, WordValue
  <2> HIDE DEF x, y, m, q, low, u, v
  <2>4. Signed(w) = x * (q - y) + low
    BY <1>2, <2>1
  <2>5. Signed(w) \div x = q - y
    <3>1. q - y \in Int
      BY <1>2
    <3>2. (x * (q - y) + low) \div x = q - y
      BY <1>2, <3>1, Quotient
    <3> QED BY <2>4, <3>2
  <2>6. q - y = m * (0 - 1) + (q + (m - y)) /\ q + (m - y) \in 0..(m - 1) /\ 0 - 1 \in Int
    BY <1>2, <1>4
  <2>7. (q - y) % m = q + (m - y)
    <3> DEFINE r == q + (m - y)
               d == q - y
    <3>1. r \in 0..(m - 1) /\ 0 - 1 \in Int /\ d = m * (0 - 1) + r
      BY <2>6
    <3> HIDE DEF r, d
    <3>2. (m * (0 - 1) + r) % m = r
      BY <1>2, <3>1, Quotient
    <3>3. d % m = r
      BY <3>1, <3>2
    <3> QED BY <3>3 DEF d, r
  <2>8. Unsigned(v) = (Signed(w) \div x) % m
    BY <2>3, <2>5, <2>7
  <2> QED BY <1>1, <2>8 DEF v, x, m
<1> QED BY <1>5, <1>6

\* A word is its bits: bit i is the parity of the quotient by 2^i.
LEMMA BitIsParity ==
  ASSUME SourceWidth, NEW w \in BitWord, NEW i \in Bits(WordBits)
  PROVE  (Unsigned(w) \div Weight(i)) % 2 = IF i \in w THEN 1 ELSE 0
<1> DEFINE v == ShiftRight(w, i)
<1>0. /\ i \in 0..WordBits /\ WordBits \in Nat /\ 1 \in 0..WordBits /\ i \in 0..(WordBits - 1)
      /\ Bits(WordBits) = 0..(WordBits - 1)
  BY WidthBounds
<1>1. Unsigned(w) \div Weight(i) = Unsigned(v) /\ v \in BitWord
  BY <1>0, LowAndHigh, ShiftRightValue
<1>2. 0 \in v <=> i \in w
  <2>1. i \in w => 0 \in v
    <3>1. i - i = 0 /\ 0 \in Bits(WordBits)
      BY <1>0
    <3> QED BY <3>1 DEF ShiftRight
  <2>2. ASSUME 0 \in v PROVE i \in w
    <3>1. PICK j \in w : 0 = j - i
      BY <2>2 DEF ShiftRight
    <3>2. j \in Int
      BY <1>0 DEF BitWord
    <3>3. j = i
      BY <1>0, <3>1, <3>2
    <3> QED BY <3>3
  <2> QED BY <2>1, <2>2
<1> HIDE DEF v
<1>3. Unsigned(v) % Weight(1) = Value(v, 1) /\ Weight(1) = 2
  <2>1. Unsigned(v) % Weight(1) = Value(v, 1)
    BY <1>0, <1>1, LowAndHigh
  <2> QED BY <2>1, Weights
<1>4. Value(v, 0 + 1) = Value(v, 0) + Share(v, 0) /\ Value(v, 0) = 0 /\ Weight(0) = 1
  BY ValueStep, WeightDoubles DEF Widest
<1>5. Value(v, 1) = IF i \in w THEN 1 ELSE 0
  BY <1>2, <1>4 DEF Share
<1> QED BY <1>1, <1>3, <1>5

\* Sign extension adds the bits above an n-bit field whose top bit is set.
THEOREM SignExtensionValue ==
  ASSUME SourceWidth, NEW n \in 1..WordBits, NEW f \in SUBSET Bits(n)
  PROVE  /\ SignExtend(f, n) \in BitWord
         /\ n - 1 \in f <=> Unsigned(f) >= Weight(n - 1)
         /\ Unsigned(SignExtend(f, n))
              = IF Unsigned(f) < Weight(n - 1) THEN Unsigned(f)
                ELSE (Unsigned(f) + Weight(WordBits)) - Weight(n)
<1> DEFINE s == SignExtend(f, n)
<1>0. /\ n \in Nat \ {0} /\ n \in 0..Widest /\ n - 1 \in 0..(Widest - 1) /\ n - 1 \in 0..Widest
      /\ (n - 1) + 1 = n /\ WordBits \in 0..Widest /\ WordBits \in n..Widest /\ WordBits \in Nat
      /\ f \subseteq 0..(n - 1) /\ Bits(WordBits) = 0..(WordBits - 1) /\ SignBit = WordBits - 1
  BY WidthBounds DEF Bits
<1>1. Unsigned(f) = Value(f, n) /\ Unsigned(f) \in Nat
  BY <1>0, UnsignedOf
<1>2. n - 1 \in f <=> Unsigned(f) >= Weight(n - 1)
  <2>1. Value(f, (n - 1) + 1) = Value(f, n - 1) + Share(f, n - 1)
    BY <1>0, ValueStep
  <2>2. Value(f, n - 1) \in Nat /\ Value(f, n - 1) < Weight(n - 1) /\ Weight(n - 1) \in Nat
    BY <1>0, ValueRange, WeightDoubles
  <2>3. CASE n - 1 \in f
    <3>1. Share(f, n - 1) = Weight(n - 1)
      BY <2>3 DEF Share
    <3> QED BY <1>0, <1>1, <2>1, <2>2, <2>3, <3>1
  <2>4. CASE n - 1 \notin f
    <3>1. Share(f, n - 1) = 0
      BY <2>4 DEF Share
    <3> QED BY <1>0, <1>1, <2>1, <2>2, <2>4, <3>1
  <2> QED BY <2>3, <2>4
<1>3. CASE n - 1 \notin f
  <2>1. s = f /\ s \in BitWord
    BY <1>0, <1>3 DEF SignExtend, BitWord
  <2>2. Unsigned(f) < Weight(n - 1)
    BY <1>0, <1>1, <1>2, <1>3, WeightDoubles
  <2> QED BY <1>2, <2>1, <2>2
<1>4. CASE n - 1 \in f
  <2>1. s = f \cup (n..SignBit) /\ s \in BitWord
    BY <1>0, <1>4 DEF SignExtend, BitWord
  <2> HIDE DEF s
  <2>2. Value(s, n) = Value(f, n)
    BY <1>0, <2>1, ValueAgree
  <2>3. Unsigned(s) = Value(s, n) + (Weight(WordBits) - Weight(n))
    BY <1>0, <2>1, ValueOfOnes, WordValue
  <2>4. ~(Unsigned(f) < Weight(n - 1)) /\ Weight(WordBits) \in Nat /\ Weight(n) \in Nat
    BY <1>0, <1>1, <1>2, <1>4, WeightDoubles
  <2>5. Unsigned(s) = (Unsigned(f) + Weight(WordBits)) - Weight(n)
    BY <1>1, <2>2, <2>3, <2>4
  <2> QED BY <1>2, <2>1, <2>4, <2>5 DEF s
<1> QED BY <1>3, <1>4

-----------------------------------------------------------------------------
(* The bits of an integer. *)

\* A quotient of a quotient.
LEMMA NestedQuotient ==
  ASSUME NEW v \in Int, NEW a \in Nat \ {0}, NEW b \in Nat \ {0}, a * b \in Nat \ {0}
  PROVE  (v \div a) \div b = v \div (a * b)
<1> DEFINE q == v \div a   r == v % a
           p == q \div b   s == q % b
           ab == a * b     low == a * s   high == ab * p
<1>1. v = a * q + r /\ q \in Int /\ r \in 0..(a - 1)
  OBVIOUS
<1>2. q = b * p + s /\ p \in Int /\ s \in 0..(b - 1)
  <2> HIDE DEF q
  <2> QED BY <1>1
<1> HIDE DEF q, r, p, s
<1>3. a * q = high + low
  BY <1>1, <1>2
<1>4. low \in Nat /\ low <= ab - a
  <2>1. a * s <= a * (b - 1)
    BY <1>2
  <2>2. a * (b - 1) = ab - a
    OBVIOUS
  <2> QED BY <1>2, <2>1, <2>2
<1>5. low + r \in 0..(ab - 1) /\ ab \in Nat \ {0} /\ high \in Int
  <2>1. ab \in Nat \ {0} /\ high \in Int
    BY <1>2
  <2>2. r \in 0..(a - 1) /\ low \in Int
    BY <1>1, <1>4
  <2> HIDE DEF ab, low, high
  <2>3. low + r \in Int /\ 0 <= low + r /\ low + r <= ab - 1
    BY <1>4, <2>1, <2>2
  <2> QED BY <2>1, <2>3
<1>6. v = ab * p + (low + r)
  <2>1. v = a * q + r /\ a * q = high + low /\ high = ab * p
    BY <1>1, <1>3
  <2>2. high \in Int /\ low \in Int /\ r \in Int
    BY <1>1, <1>4, <1>5
  <2> HIDE DEF ab, low, high
  <2>3. v = (high + low) + r
    BY <2>1
  <2>4. v = high + (low + r)
    BY <2>2, <2>3
  <2> QED BY <2>1, <2>4
<1> HIDE DEF ab, low
<1>7. v \div ab = p
  BY <1>2, <1>5, <1>6, Quotient
<1> QED BY <1>7 DEF ab, p, q

LEMMA ShiftedIsQuotient ==
  ASSUME NEW v \in Int, NEW i \in 0..Widest
  PROVE  Shifted(v, i) = v \div Weight(i) /\ Shifted(v, i) \in Int
<1> DEFINE h == i \div 2   k == i - h
<1>1. h \in 0..Widest /\ k \in 0..(Widest - h) /\ h + k = i
  BY DEF Widest
<1>2. Shifted(v, i) = (v \div Weight(h)) \div Weight(k)
  BY DEF Shifted, Weight
<1> HIDE DEF h, k
<1>3. k \in 0..Widest
  BY <1>1 DEF Widest
<1>4. Weight(h) \in Nat \ {0} /\ Weight(k) \in Nat \ {0} /\ Weight(i) \in Nat \ {0}
  BY <1>1, <1>3, WeightDoubles
<1>5. Weight(i) = Weight(h) * Weight(k)
  BY <1>1, WeightSum
<1>6. Shifted(v, i) = v \div Weight(i)
  BY <1>2, <1>4, <1>5, NestedQuotient
<1> QED BY <1>4, <1>6

\* The low bits of an integer are its remainder.
THEOREM PatternValue ==
  ASSUME NEW v \in Int, NEW n \in 0..Widest
  PROVE  /\ Pattern(v, n) \in SUBSET Bits(n)
         /\ Unsigned(Pattern(v, n)) = v % Weight(n)
<1> DEFINE w == Pattern(v, n)
           T == {k \in 0..n : Value(w, k) = v % Weight(k)}
<1>0. n \in Nat /\ Widest = 32
  BY DEF Widest
<1>1. w \subseteq 0..(n - 1) /\ w \in SUBSET Bits(n)
  BY DEF Pattern, Bits
<1>2. 0 \in T
  <2>1. Value(w, 0) = 0 /\ Weight(0) = 1
    BY ValueStep, WeightDoubles
  <2> QED BY <1>0, <2>1
<1>3. ASSUME NEW k \in 0..(n - 1), k \in T PROVE k + 1 \in T
  <2> DEFINE d == Weight(k)   q == v \div d   r == v % d   b == q % 2   p == q \div 2
  <2>1. k + 1 \in 0..n /\ k \in 0..(Widest - 1) /\ k \in 0..Widest
    BY <1>0
  <2>2. d \in Nat \ {0} /\ Weight(k + 1) = 2 * d
    BY <2>1, WeightDoubles
  <2>3. v = d * q + r /\ q \in Int /\ r \in 0..(d - 1)
    <3> HIDE DEF d
    <3> QED BY <2>2
  <2>4. q = 2 * p + b /\ p \in Int /\ b \in {0, 1}
    <3> HIDE DEF q
    <3> QED BY <2>3
  <2>5. k \in w <=> b = 1
    <3>1. k \in Bits(n)
      BY <1>0 DEF Bits
    <3> QED BY <2>1, <3>1, ShiftedIsQuotient DEF Pattern
  <2>6. Value(w, k + 1) = Value(w, k) + Share(w, k) /\ Value(w, k) = r
    BY <1>3, <2>1, ValueStep
  <2> HIDE DEF w, q, r, b, p, d
  <2>7. v = (2 * d) * p + (d * b + r)
    BY <2>2, <2>3, <2>4
  <2>8. d * b + r \in 0..(2 * d - 1) /\ 2 * d \in Nat \ {0}
    BY <2>2, <2>3, <2>4
  <2>9. v % (2 * d) = d * b + r
    <3> DEFINE e == 2 * d   z == d * b + r
    <3> HIDE DEF e, z
    <3>1. v = e * p + z /\ z \in 0..(e - 1) /\ e \in Nat \ {0} /\ p \in Int
      BY <2>4, <2>7, <2>8 DEF e, z
    <3> QED BY <3>1, Quotient DEF e, z
  <2>10. Value(w, k + 1) = d * b + r
    BY <2>2, <2>3, <2>4, <2>5, <2>6 DEF Share, d
  <2> QED BY <2>1, <2>2, <2>9, <2>10
<1> HIDE DEF T, w
<1>4. n \in T
  <2>1. \A k \in 0..n : k \in T
    BY <1>0, <1>2, <1>3, InductiveUpTo
  <2> QED BY <1>0, <2>1
<1> QED BY <1>1, <1>4, UnsignedOf DEF T, w

-----------------------------------------------------------------------------
(* Displacements. *)

\* The widths of the source, which its fields and its encodings assume.
SourceBits == WordBits = 32 /\ ShiftBits = 5

LEMMA SameWord ==
  ASSUME SourceWidth, NEW v \in BitWord, NEW w \in BitWord
  PROVE  v = w <=> Unsigned(v) = Unsigned(w)
<1> SUFFICES ASSUME Unsigned(v) = Unsigned(w) PROVE v = w
  OBVIOUS
<1>1. WordBits \in 0..Widest /\ Value(v, WordBits) = Value(w, WordBits)
  BY WidthBounds, WordValue
<1>2. \A i \in 0..(WordBits - 1) : i \in v <=> i \in w
  BY <1>1, SameBits
<1> QED BY <1>2, WidthBounds DEF BitWord

\* A field that keeps its sign stands for an integer of its width.
LEMMA ExtensionAsInteger ==
  ASSUME SourceBits, NEW n \in {16, 26}, NEW f \in SUBSET Bits(n)
  PROVE  \E u \in Int : /\ -Weight(n - 1) <= u /\ u < Weight(n - 1)
                        /\ u = Unsigned(f) \/ u = Unsigned(f) - Weight(n)
                        /\ Unsigned(SignExtend(f, n)) = u % 4294967296
                        /\ SignExtend(f, n) \in BitWord
<1>0. SourceWidth /\ n \in 1..WordBits /\ Bits(n) = 0..(n - 1) /\ n \in 0..Widest
  BY DEF SourceBits, SourceWidth, Widest, Bits
<1>1. /\ Weight(WordBits) = 4294967296 /\ Weight(n) = 2 * Weight(n - 1)
      /\ Weight(n - 1) \in {32768, 33554432}
  BY Weights DEF SourceBits
<1>2. Unsigned(f) \in Nat /\ Unsigned(f) < Weight(n)
  BY <1>0, UnsignedOf
<1>3. /\ SignExtend(f, n) \in BitWord
      /\ Unsigned(SignExtend(f, n))
           = IF Unsigned(f) < Weight(n - 1) THEN Unsigned(f)
             ELSE (Unsigned(f) + Weight(WordBits)) - Weight(n)
  BY <1>0, SignExtensionValue
<1> DEFINE x == Unsigned(f)   y == Unsigned(SignExtend(f, n))   h == Weight(n - 1)
<1>4. x \in Nat /\ x < 2 * h /\ h \in {32768, 33554432}
      /\ y = IF x < h THEN x ELSE (x + 4294967296) - 2 * h
  BY <1>1, <1>2, <1>3
<1> DEFINE u == IF x < h THEN x ELSE x - 2 * h
<1> HIDE DEF x, y, h
<1>5. u \in Int /\ -h <= u /\ u < h /\ (u = x \/ u = x - 2 * h)
  BY <1>4
<1>6. y = u % 4294967296
  <2>1. CASE x < h
    BY <1>4, <2>1
  <2>2. CASE ~(x < h)
    BY <1>4, <2>2
  <2> QED BY <2>1, <2>2
<1> HIDE DEF u
<1> QED BY <1>1, <1>3, <1>5, <1>6 DEF x, y, h

\* Where an extended displacement leads.
LEMMA SumOfPatterns ==
  ASSUME SourceBits, NEW s \in Int, NEW u \in Int, NEW g \in Int, NEW w \in BitWord,
         Unsigned(w) = u % 4294967296
  PROVE  Plus(Pattern(s, WordBits), w) = Pattern(g, WordBits)
           <=> ((s + u) - g) % 4294967296 = 0
<1>0. SourceWidth /\ WordBits \in 0..Widest /\ Bits(WordBits) = Bits(32) /\ Weight(WordBits) = 4294967296
  BY Weights DEF SourceBits, SourceWidth, Widest
<1>1. /\ Pattern(s, WordBits) \in BitWord /\ Unsigned(Pattern(s, WordBits)) = s % 4294967296
      /\ Pattern(g, WordBits) \in BitWord /\ Unsigned(Pattern(g, WordBits)) = g % 4294967296
  BY <1>0, PatternValue DEF BitWord
<1> DEFINE p == Plus(Pattern(s, WordBits), w)   q == Pattern(g, WordBits)
<1>2. p \in BitWord /\ Unsigned(p) = ((s % 4294967296) + (u % 4294967296)) % 4294967296
  BY <1>0, <1>1, PlusAdds, PlusIsWord
<1>3. ((s % 4294967296) + (u % 4294967296)) % 4294967296 = (s + u) % 4294967296
  OBVIOUS
<1>4. p = q <=> Unsigned(p) = Unsigned(q)
  BY <1>0, <1>1, <1>2, SameWord
<1> HIDE DEF p, q
<1>5. (s + u) % 4294967296 = g % 4294967296 <=> ((s + u) - g) % 4294967296 = 0
  OBVIOUS
<1> QED BY <1>1, <1>2, <1>3, <1>4, <1>5 DEF p, q

\* A displacement that fits in the field leads where it should.
LEMMA FieldLeads ==
  ASSUME SourceBits, NEW n \in {16, 26}, NEW s \in Int, NEW g \in Int,
         -Weight(n - 1) <= g - s, g - s < Weight(n - 1)
  PROVE  Plus(Pattern(s, WordBits), SignExtend(Pattern(g - s, n), n)) = Pattern(g, WordBits)
<1> DEFINE f == Pattern(g - s, n)   h == Weight(n - 1)   x == Unsigned(f)
<1>1. f \in SUBSET Bits(n) /\ x = (g - s) % Weight(n) /\ Weight(n) = 2 * h /\ h \in {32768, 33554432}
  <2>1. n \in 0..Widest /\ g - s \in Int
    BY DEF Widest
  <2>2. f \in SUBSET Bits(n) /\ x = (g - s) % Weight(n)
    BY <2>1, PatternValue
  <2> QED BY <2>2, Weights
<1>2. PICK u \in Int : /\ -h <= u /\ u < h
                       /\ u = x \/ u = x - Weight(n)
                       /\ Unsigned(SignExtend(f, n)) = u % 4294967296
                       /\ SignExtend(f, n) \in BitWord
  BY <1>1, ExtensionAsInteger
<1>3. u = g - s
  <2> HIDE DEF f, x, h
  <2>1. x = (g - s) % (2 * h) /\ -h <= u /\ u < h /\ (u = x \/ u = x - 2 * h)
    BY <1>1, <1>2
  <2>2. -h <= g - s /\ g - s < h
    BY DEF h
  <2>3. CASE h = 32768
    BY <2>1, <2>2, <2>3
  <2>4. CASE h = 33554432
    BY <2>1, <2>2, <2>4
  <2> QED BY <1>1, <2>3, <2>4
<1>4. ((s + u) - g) % 4294967296 = 0
  BY <1>3
<1> QED BY <1>2, <1>4, SumOfPatterns

\* One that does not fit leads elsewhere, if it is not longer than a quarter of the
\* address space.
LEMMA FieldMisses ==
  ASSUME SourceBits, NEW n \in {16, 26}, NEW s \in Int, NEW g \in Int, NEW f \in SUBSET Bits(n),
         -1073741824 <= g - s, g - s < 1073741824,
         ~(-Weight(n - 1) <= g - s /\ g - s < Weight(n - 1))
  PROVE  Plus(Pattern(s, WordBits), SignExtend(f, n)) # Pattern(g, WordBits)
<1> DEFINE h == Weight(n - 1)
<1>1. h \in {32768, 33554432}
  BY Weights
<1>2. PICK u \in Int : /\ -h <= u /\ u < h
                       /\ Unsigned(SignExtend(f, n)) = u % 4294967296
                       /\ SignExtend(f, n) \in BitWord
  BY ExtensionAsInteger
<1>3. ((s + u) - g) % 4294967296 # 0
  <2> DEFINE a == g - s
  <2>1. a \in Int /\ -1073741824 <= a /\ a < 1073741824 /\ a # u /\ (s + u) - g = u - a
    BY <1>2
  <2>2. -33554432 <= u /\ u < 33554432
    BY <1>1, <1>2
  <2> HIDE DEF a
  <2> QED BY <2>1, <2>2
<1> QED BY <1>2, <1>3, SumOfPatterns

-----------------------------------------------------------------------------
(* The instructions. *)

LEMMA ModulusIsWeight ==
  ASSUME SourceWidth
  PROVE  /\ Modulus = Weight(WordBits) /\ Modulus \div 2 = Weight(SignBit)
         /\ \A w \in BitWord : AsSigned(Unsigned(w)) = Signed(w)
<1>1. Modulus = Weight(WordBits)
  BY DEF Modulus, Weight
<1>2. Modulus \div 2 = Weight(SignBit)
  <2>1. Weight(WordBits) = 2 * Weight(SignBit) + 0 /\ Weight(SignBit) \in Int
    BY WidthRange
  <2> QED BY <1>1, <2>1, Quotient
<1>3. ASSUME NEW w \in BitWord PROVE AsSigned(Unsigned(w)) = Signed(w)
  BY <1>1, <1>2, SignedValue DEF AsSigned, Signed
<1> QED BY <1>1, <1>2, <1>3

LEMMA TruthValue ==
  ASSUME SourceWidth, NEW b \in BOOLEAN
  PROVE  Truth(b) \in BitWord /\ Unsigned(Truth(b)) = IF b THEN 1 ELSE 0
BY UnsignedOne DEF Truth

\* The bits of an integer in the architecture document are those of the word.
LEMMA BitsOfValue ==
  ASSUME SourceWidth, NEW w \in BitWord, NEW i \in Bits(WordBits)
  PROVE  BitOf(Unsigned(w), i) = IF i \in w THEN 1 ELSE 0
BY BitIsParity DEF BitOf, Weight

LEMMA TheAluNames ==
  AluNames = {"SLL", "SRL", "SRA", "ADD", "SUB", "AND", "OR", "XOR", "SGT", "SEQ", "SGE",
              "SLT", "SNE", "SLE"}
BY DEF AluNames, FuncTable

\* Words that are equal have equal values, and conversely.
LEMMA EqualValues ==
  ASSUME SourceWidth, NEW a \in BitWord, NEW b \in BitWord
  PROVE  a = b <=> Signed(a) = Signed(b)
<1> SUFFICES ASSUME Signed(a) = Signed(b) PROVE a = b
  OBVIOUS
<1>1. Unsigned(a) = Unsigned(b)
  <2> DEFINE m == Weight(WordBits)
  <2>1. Unsigned(a) \in 0..(m - 1) /\ Unsigned(b) \in 0..(m - 1) /\ m \in Nat
    BY WordValue, WidthRange
  <2>2. /\ Signed(a) = IF SignBit \in a THEN Unsigned(a) - m ELSE Unsigned(a)
        /\ Signed(b) = IF SignBit \in b THEN Unsigned(b) - m ELSE Unsigned(b)
    BY DEF Signed
  <2>3. Signed(a) = Signed(b)
    OBVIOUS
  <2> DEFINE x == Unsigned(a)
             y == Unsigned(b)
  <2> HIDE DEF m, x, y
  <2>4. x \in 0..(m - 1) /\ y \in 0..(m - 1) /\ m \in Nat
    BY <2>1 DEF x, y
  <2>5. (IF SignBit \in a THEN x - m ELSE x) = (IF SignBit \in b THEN y - m ELSE y)
    BY <2>2, <2>3 DEF x, y
  <2>6. x = y
    BY <2>4, <2>5
  <2> QED BY <2>6 DEF x, y
<1>2. Value(a, WordBits) = Value(b, WordBits)
  BY <1>1, WordValue
<1>3. \A i \in 0..(WordBits - 1) : i \in a <=> i \in b
  BY <1>2, WidthRange, SameBits
<1> QED BY <1>3, WidthBounds DEF BitWord

\* Every R-type operation computes what the document says, for words of any
\* width up to the source's.
THEOREM AluComputes ==
  ASSUME SourceWidth, NEW name \in AluNames, NEW a \in BitWord, NEW b \in BitWord
  PROVE  /\ Alu(name, a, b) \in BitWord
         /\ Unsigned(Alu(name, a, b)) = Documented(name, Unsigned(a), Unsigned(b))
<1> DEFINE n == Unsigned(b) % WordBits
           Right(w) == w \in BitWord /\ Unsigned(w) = Documented(name, Unsigned(a), Unsigned(b))
<1> SUFFICES Right(Alu(name, a, b))
  OBVIOUS
<1>0. /\ ShiftAmount(b) = n /\ n \in 0..(WordBits - 1) /\ n \in 0..WordBits
      /\ 2 ^ n = Weight(n)
  <2>1. ShiftAmount(b) = n /\ n \in 0..(WordBits - 1)
    BY AmountIsModulo
  <2> HIDE DEF n
  <2>2. n \in 0..WordBits
    BY <2>1, WidthBounds
  <2> QED BY <2>1, <2>2 DEF Weight
<1>s. /\ Modulus = Weight(WordBits)
      /\ AsSigned(Unsigned(a)) = Signed(a) /\ AsSigned(Unsigned(b)) = Signed(b)
  BY ModulusIsWeight
<1>i. Signed(a) \in Int /\ Signed(b) \in Int
  BY WordValue, WidthRange DEF Signed
<1>1. CASE name = "ADD"
  <2>1. Alu(name, a, b) = Plus(a, b)
    BY <1>1 DEF Alu
  <2>2. Documented(name, Unsigned(a), Unsigned(b)) = (Unsigned(a) + Unsigned(b)) % Modulus
    BY <1>1 DEF Documented
  <2> QED BY <1>s, <2>1, <2>2, PlusAdds, PlusIsWord
<1>2. CASE name = "SUB"
  <2>1. Alu(name, a, b) = Minus(a, b)
    BY <1>2 DEF Alu
  <2>2. Documented(name, Unsigned(a), Unsigned(b)) = (Unsigned(a) - Unsigned(b)) % Modulus
    BY <1>2 DEF Documented
  <2> QED BY <1>s, <2>1, <2>2, MinusSubtracts, PlusIsWord DEF Minus
<1>3. CASE name = "AND"
  <2>1. Alu(name, a, b) = a \cap b
    BY <1>3 DEF Alu
  <2>2. Documented(name, Unsigned(a), Unsigned(b))
          = Unsigned({i \in Bits(WordBits) :
                        BitOf(Unsigned(a), i) = 1 /\ BitOf(Unsigned(b), i) = 1})
    BY <1>3 DEF Documented
  <2>3. {i \in Bits(WordBits) : BitOf(Unsigned(a), i) = 1 /\ BitOf(Unsigned(b), i) = 1} = a \cap b
    BY BitsOfValue DEF BitWord
  <2> QED BY <2>1, <2>2, <2>3 DEF BitWord
<1>4. CASE name = "OR"
  <2>1. Alu(name, a, b) = a \cup b
    BY <1>4 DEF Alu
  <2>2. Documented(name, Unsigned(a), Unsigned(b))
          = Unsigned({i \in Bits(WordBits) :
                        BitOf(Unsigned(a), i) = 1 \/ BitOf(Unsigned(b), i) = 1})
    BY <1>4 DEF Documented
  <2>3. {i \in Bits(WordBits) : BitOf(Unsigned(a), i) = 1 \/ BitOf(Unsigned(b), i) = 1} = a \cup b
    BY BitsOfValue DEF BitWord
  <2> QED BY <2>1, <2>2, <2>3 DEF BitWord
<1>5. CASE name = "XOR"
  <2>1. Alu(name, a, b) = SymDiff(a, b)
    BY <1>5 DEF Alu
  <2>2. Documented(name, Unsigned(a), Unsigned(b))
          = Unsigned({i \in Bits(WordBits) : BitOf(Unsigned(a), i) # BitOf(Unsigned(b), i)})
    BY <1>5 DEF Documented
  <2>3. {i \in Bits(WordBits) : BitOf(Unsigned(a), i) # BitOf(Unsigned(b), i)} = SymDiff(a, b)
    BY BitsOfValue DEF BitWord, SymDiff
  <2>4. SymDiff(a, b) \in BitWord
    BY DEF BitWord, SymDiff
  <2> QED BY <2>1, <2>2, <2>3, <2>4
<1>6. CASE name = "SLL"
  <2>1. Alu(name, a, b) = ShiftLeft(a, n)
    BY <1>0, <1>6 DEF Alu
  <2>2. Documented(name, Unsigned(a), Unsigned(b)) = (Unsigned(a) * 2 ^ n) % Modulus
    BY <1>6 DEF Documented
  <2> QED BY <1>0, <1>s, <2>1, <2>2, ShiftLeftMultiplies
<1>7. CASE name = "SRL"
  <2>1. Alu(name, a, b) = ShiftRight(a, n)
    BY <1>0, <1>7 DEF Alu
  <2>2. Documented(name, Unsigned(a), Unsigned(b)) = Unsigned(a) \div (2 ^ n)
    BY <1>7 DEF Documented
  <2> QED BY <1>0, <1>s, <2>1, <2>2, LowAndHigh, ShiftRightValue
<1>8. CASE name = "SRA"
  <2>1. Alu(name, a, b) = ShiftRightSigned(a, n)
    BY <1>0, <1>8 DEF Alu
  <2>2. Documented(name, Unsigned(a), Unsigned(b)) = (AsSigned(Unsigned(a)) \div (2 ^ n)) % Modulus
    BY <1>8 DEF Documented
  <2> QED BY <1>0, <1>s, <2>1, <2>2, ShiftRightSignedDivides
<1>9. CASE name = "SLT"
  <2>1. Alu(name, a, b) = Truth(Below(a, b))
    BY <1>9 DEF Alu
  <2>2. Documented(name, Unsigned(a), Unsigned(b)) = IF Signed(a) < Signed(b) THEN 1 ELSE 0
    BY <1>9, <1>s DEF Documented
  <2> QED BY <2>1, <2>2, BelowIsSmaller, UnsignedOne DEF Truth
<1>10. CASE name = "SLE"
  <2>1. Alu(name, a, b) = Truth(~Below(b, a))
    BY <1>10 DEF Alu
  <2>2. Documented(name, Unsigned(a), Unsigned(b)) = IF Signed(a) <= Signed(b) THEN 1 ELSE 0
    BY <1>10, <1>s DEF Documented
  <2>3. Below(b, a) <=> ~(Signed(a) <= Signed(b))
    BY <1>i, BelowIsSmaller
  <2> QED BY <2>1, <2>2, <2>3, UnsignedOne DEF Truth
<1>11. CASE name = "SGT"
  <2>1. Alu(name, a, b) = Truth(Below(b, a))
    BY <1>11 DEF Alu
  <2>2. Documented(name, Unsigned(a), Unsigned(b)) = IF Signed(a) > Signed(b) THEN 1 ELSE 0
    BY <1>11, <1>s DEF Documented
  <2>3. Below(b, a) <=> Signed(a) > Signed(b)
    BY <1>i, BelowIsSmaller
  <2> QED BY <2>1, <2>2, <2>3, UnsignedOne DEF Truth
<1>12. CASE name = "SGE"
  <2>1. Alu(name, a, b) = Truth(~Below(a, b))
    BY <1>12 DEF Alu
  <2>2. Documented(name, Unsigned(a), Unsigned(b)) = IF Signed(a) >= Signed(b) THEN 1 ELSE 0
    BY <1>12, <1>s DEF Documented
  <2>3. Below(a, b) <=> ~(Signed(a) >= Signed(b))
    BY <1>i, BelowIsSmaller
  <2> QED BY <2>1, <2>2, <2>3, UnsignedOne DEF Truth
<1>13. CASE name = "SEQ"
  <2>1. Alu(name, a, b) = Truth(a = b)
    BY <1>13 DEF Alu
  <2>2. Documented(name, Unsigned(a), Unsigned(b)) = IF Signed(a) = Signed(b) THEN 1 ELSE 0
    BY <1>13, <1>s DEF Documented
  <2> QED BY <2>1, <2>2, EqualValues, UnsignedOne DEF Truth
<1>14. CASE name = "SNE"
  <2>1. Alu(name, a, b) = Truth(a # b)
    BY <1>14 DEF Alu
  <2>2. Documented(name, Unsigned(a), Unsigned(b)) = IF Signed(a) # Signed(b) THEN 1 ELSE 0
    BY <1>14, <1>s DEF Documented
  <2> QED BY <2>1, <2>2, EqualValues, UnsignedOne DEF Truth
<1> HIDE DEF Right
<1> QED
  BY <1>1, <1>2, <1>3, <1>4, <1>5, <1>6, <1>7, <1>8, <1>9, <1>10, <1>11, <1>12, <1>13, <1>14,
     TheAluNames

LEMMA HalfRange == ASSUME SourceWidth PROVE HalfBits \in 1..WordBits /\ HalfBits \in 0..WordBits
<1>1. WordBits \in Nat \ {0} /\ WordBits % 2 = 0
  BY WordAssumption
<1>2. HalfBits = WordBits \div 2
  BY DEF HalfBits
<1> QED BY <1>1, <1>2

\* Immediates are widened as the document says.
LEMMA ImmediateIsWidened ==
  ASSUME SourceWidth, NEW name \in ImmediateNames, NEW imm16 \in Range16
  PROVE  /\ Immediate(name, imm16) \in BitWord
         /\ Unsigned(Immediate(name, imm16)) = Widened(name, Unsigned(imm16))
<1> DEFINE value == Unsigned(imm16)
           Zero == {"ADDUI", "SUBUI", "ANDI", "ORI", "XORI", "SLLI", "SRLI", "SRAI"}
<1>0. HalfBits \in 1..WordBits /\ imm16 \in SUBSET Bits(HalfBits) /\ imm16 \in BitWord
  BY HalfRange, WidthBounds DEF Range16, BitWord, Bits
<1>1. name \in SignedImmediates <=> name \notin Zero
  BY DEF ImmediateNames, ImmediateOperation, SignedImmediates
<1>2. /\ Modulus = Weight(WordBits)
      /\ 2 ^ (HalfBits - 1) = Weight(HalfBits - 1) /\ 2 ^ HalfBits = Weight(HalfBits)
  BY DEF Modulus, Weight
<1>3. Widened(name, value) = IF name \in Zero \/ value < Weight(HalfBits - 1) THEN value
                         ELSE value + (Modulus - Weight(HalfBits))
  BY <1>2 DEF Widened
<1>4. CASE name \in Zero
  BY <1>0, <1>1, <1>3, <1>4 DEF Immediate
<1>5. CASE name \notin Zero
  <2>1. Immediate(name, imm16) = SignExtend(imm16, HalfBits)
    BY <1>1, <1>5 DEF Immediate
  <2>2. Unsigned(SignExtend(imm16, HalfBits))
          = IF value < Weight(HalfBits - 1) THEN value ELSE (value + Modulus) - Weight(HalfBits)
    BY <1>0, <1>2, SignExtensionValue
  <2>3. SignExtend(imm16, HalfBits) \in BitWord
    BY <1>0, SignExtensionValue
  <2>4. (value + Modulus) - Weight(HalfBits) = value + (Modulus - Weight(HalfBits))
    <3>1. value \in Nat /\ Modulus \in Nat
      BY <1>0, <1>2, WordValue, WidthRange
    <3>2. Weight(HalfBits) \in Nat
      BY <1>0, WidthBounds, WeightDoubles
    <3> QED BY <3>1, <3>2
  <2> HIDE DEF Zero, value
  <2> QED BY <1>3, <1>5, <2>1, <2>2, <2>3, <2>4 DEF value
<1> QED BY <1>4, <1>5

LEMMA AluImmediateComputes ==
  ASSUME SourceWidth, NEW name \in ImmediateNames, NEW a \in BitWord, NEW imm16 \in Range16
  PROVE  /\ AluImmediate(name, a, imm16) \in BitWord
         /\ Unsigned(AluImmediate(name, a, imm16))
              = Documented(ImmediateOperation[name], Unsigned(a), Widened(name, Unsigned(imm16)))
<1>1. ImmediateOperation[name] \in AluNames
  BY TheAluNames DEF ImmediateNames, ImmediateOperation
<1> QED BY <1>1, AluComputes, ImmediateIsWidened DEF AluImmediate

\* The registers hold words.
RegistersAreWords == left \in BitWord /\ right \in BitWord

LEMMA RegistersStayWords ==
  ASSUME SourceWidth
  PROVE  ArithmeticSpec => []RegistersAreWords
<1>1. ArithmeticInit => RegistersAreWords
  BY DEF ArithmeticInit, RegistersAreWords, BitWord
<1>2. ASSUME RegistersAreWords, [ArithmeticNext]_registers PROVE RegistersAreWords'
  <2>1. ASSUME NEW name \in AluNames, Operate(name) PROVE RegistersAreWords'
    <3>1. Alu(name, left, right) \in BitWord
      BY <1>2, AluComputes DEF RegistersAreWords
    <3> QED BY <1>2, <2>1, <3>1 DEF RegistersAreWords, Operate
  <2>2. ASSUME NEW imm16 \in Range16, OperateImmediate(imm16) PROVE RegistersAreWords'
    <3>1. \A name \in ImmediateNames : AluImmediate(name, left, imm16) \in BitWord
      BY <1>2, AluImmediateComputes DEF RegistersAreWords
    <3>2. LoadHigh(imm16) \in BitWord
      BY DEF LoadHigh, ShiftLeft, BitWord
    <3> QED BY <1>2, <2>2, <3>1, <3>2 DEF RegistersAreWords, OperateImmediate
  <2>3. ASSUME Copy PROVE RegistersAreWords'
    BY <1>2, <2>3 DEF RegistersAreWords, Copy
  <2>4. ASSUME UNCHANGED registers PROVE RegistersAreWords'
    BY <1>2, <2>4 DEF RegistersAreWords, registers
  <2> QED BY <1>2, <2>1, <2>2, <2>3, <2>4 DEF ArithmeticNext
<1> QED BY <1>1, <1>2, PTL DEF ArithmeticSpec

\* Whatever was computed before, wrap-around, signs, shift amounts and
\* comparisons of the next operation are the documented ones.
THEOREM AluStaysDocumented ==
  ASSUME SourceWidth
  PROVE  ArithmeticSpec => []AluIsDocumented
<1>1. RegistersAreWords => AluIsDocumented
  BY AluComputes DEF RegistersAreWords, AluIsDocumented
<1> QED BY <1>1, RegistersStayWords, PTL

\* So are those with an immediate, sign or zero extended.
THEOREM ImmediatesStayDocumented ==
  ASSUME SourceWidth
  PROVE  ArithmeticSpec => []ImmediatesAreDocumented
<1>1. RegistersAreWords => ImmediatesAreDocumented
  BY AluImmediateComputes DEF RegistersAreWords, ImmediatesAreDocumented
<1> QED BY <1>1, RegistersStayWords, PTL
=============================================================================
