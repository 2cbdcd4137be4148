------------------------------ MODULE WordLanes ------------------------------
(***************************************************************************)
(* What src/docs/architecture/Memory.md promises of the memory: an array of *)
(* 32-bit words, of which an access of 1, 2 or 4 bytes selects byte lanes,  *)
(* the byte at an address that is a multiple of 4 being on the lane of bits *)
(* 24..31.  No access reaches two words, the words of the ROM never change, *)
(* and an access that is not valid reads as 0 and stores nothing.           *)
(***************************************************************************)
EXTENDS Integers

CONSTANTS
  RomWords,    \* numbers of the words of the ROM, a word's address divided by 4
  RamWords,    \* numbers of the words of the RAM
  Answering    \* addresses at which a device answers a read

VARIABLE words   \* [RomWords \cup RamWords -> sets of bits that are 1]

\* The bit of the word on which the lowest bit of the access travels.
LowestBit(a, n) == 32 - 8 * ((a % 4) + n)
LaneBits(a, n)  == LowestBit(a, n)..(LowestBit(a, n) + 8 * n - 1)

Selected(word, a, n) ==
  {bit - LowestBit(a, n) : bit \in word \cap LaneBits(a, n)}

Replaced(word, value, a, n) ==
  (word \ LaneBits(a, n)) \cup {bit + LowestBit(a, n) : bit \in value \cap 0..(8 * n - 1)}

Valid(a, n) == a % n = 0 /\ a \div 4 \in RomWords \cup RamWords

WordInit == \A w \in RomWords \cup RamWords : words[w] \subseteq 0..31

LoadStep(a, n, value) ==
  /\ Valid(a, n) => value = Selected(words[a \div 4], a, n)
  /\ ~Valid(a, n) /\ (a \notin Answering \/ a % n # 0) => value = {}
  /\ UNCHANGED words

StoreStep(a, n, value) ==
  IF Valid(a, n) /\ a \div 4 \in RamWords
    THEN words' = [words EXCEPT ![a \div 4] = Replaced(words[a \div 4], value, a, n)]
    ELSE UNCHANGED words
=============================================================================
