------------------------------ MODULE BitWords -------------------------------
(***************************************************************************)
(* Machine words as the C and Python sources compute on them: a word is the *)
(* set of its bits that are 1, bit 0 the least significant, so that &, |, ^ *)
(* and shifts are set operations and no value is ever out of a checker's    *)
(* reach.  The width is a parameter; it is 32 in the source.                *)
(***************************************************************************)
EXTENDS Integers, FiniteSetsExt

CONSTANTS
  WordBits,   \* the width of uint32_t
  ShiftBits   \* bits of a shift amount that count: 5, the mask 0x1F

ASSUME WordAssumption ==
  /\ WordBits \in Nat \ {0} /\ WordBits % 2 = 0
  /\ ShiftBits \in Nat /\ WordBits = 2 ^ ShiftBits

Bits(n) == 0..(n - 1)
BitWord == SUBSET Bits(WordBits)
SignBit == WordBits - 1

\* The low n bits of an integer, in two's complement if it is negative: the
\* conversion to an unsigned type, and Python's "value & mask".  (The division
\* is in two halves to keep its divisors small.)
Shifted(v, i) == (v \div (2 ^ (i \div 2))) \div (2 ^ (i - (i \div 2)))
Pattern(v, n) == {i \in Bits(n) : Shifted(v, i) % 2 = 1}

\* The value of a word as an unsigned integer.
Weight(i) == 2 ^ i
Unsigned(w) == MapThenSumSet(Weight, w)

\* The n bits of w from bit lo on, and a field put back at bit lo.
Field(w, lo, n) == {i \in Bits(n) : i + lo \in w}
Place(f, lo)    == {i + lo : i \in f}

-----------------------------------------------------------------------------
\* The arithmetic of uint32_t.

Complement(w) == Bits(WordBits) \ w

\* A carry enters bit i if a lower bit generates one and every bit between
\* passes it on.
CarryInto(a, b, i) ==
  \E j \in a \cap b : j < i /\ \A k \in (j + 1)..(i - 1) : k \in a \cup b

Plus(a, b) ==
  {i \in Bits(WordBits) : (i \in SymDiff(a, b)) # CarryInto(a, b, i)}

Minus(a, b) == Plus(Plus(a, Complement(b)), {0})

ShiftAmount(w) == Unsigned(w \cap Bits(ShiftBits))

ShiftLeft(w, n)  == {i + n : i \in w} \cap Bits(WordBits)
ShiftRight(w, n) == {i - n : i \in w} \cap Bits(WordBits)

\* >> on an int32_t.
ShiftRightSigned(w, n) ==
  ShiftRight(w, n) \cup (IF SignBit \in w THEN (WordBits - n)..SignBit ELSE {})

\* An n-bit field widened to a word that keeps its sign: sign_extend_8, _16 and
\* _26.
SignExtend(f, n) == IF n - 1 \in f THEN f \cup (n..SignBit) ELSE f

\* < on int32_t: the highest bit that differs decides, the sign bit the other
\* way round.
Below(a, b) ==
  LET differing == SymDiff(a, b)
  IN differing # {} /\ IF SignBit \in differing THEN SignBit \in a
                                                 ELSE Max(differing) \in b
=============================================================================
