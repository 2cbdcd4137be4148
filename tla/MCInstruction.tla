---------------------------- MODULE MCInstruction ----------------------------
(***************************************************************************)
(* Every opcode and every function code, executed once with registers that  *)
(* all hold one of the addresses at the edges of the memory map, and then   *)
(* whatever is found at the next address, be it a zero word of the ROM, the *)
(* garbage in the RAM or a device; and the INTs with interrupts enabled.     *)
(***************************************************************************)
EXTENDS MCCore, CoreProperties

\* Words with the registers R1 (RA) and R2 (RB), or R0 as a destination.
OpcodeWord(opcode, ra, rb, low) ==
  Place(Pattern(opcode, 6), 26) \cup Place(Pattern(ra, 5), 21) \cup
  Place(Pattern(rb, 5), 16) \cup Pattern(low, 16)

SingleWords ==
  {OpcodeWord(opcode, 1, 2, low) : opcode \in 1..63, low \in {0, 2, \hF0, \hF2, \hFFFF}} \cup
  {OpcodeWord(0, 1, 2, 2048 * rc + func) : rc \in {0, 2, 3}, func \in 0..63} \cup
  {OpcodeWord(0, ra, 2, 2048 + func) : ra \in {0, 2, 3}, func \in {48, 49}} \cup
  {OpcodeWord(57, 0, 0, low) : low \in {128, 240, 241, 242}} \cup {OpcodeWord(63, 0, 0, 0)}

\* Interrupts enabled by a MOVI2S from R1, where it is odd, and then each INT.
EnabledTraps ==
  {<<OpcodeWord(0, 1, 0, 48), OpcodeWord(57, 0, 0, code)>> : code \in {128, 129, 240, 241, 242}}

SinglePrograms == [binary \in {<<w>> : w \in SingleWords} \cup EnabledTraps |-> binary]

\* Zero, an odd address, both ends of the ROM and of the RAM, the devices, and
\* the last word of the address space.
EdgeWords ==
  {Halves(0, 0), Halves(0, 3), Halves(0, \hFFFC), Halves(1, 0), Halves(\h3FFF, \hFFFE),
   Halves(\h4000, 0), Halves(\h401F, \hFFFE), Halves(\h4020, 0), Halves(\hC000, 0),
   Halves(\hC004, 0), Halves(\hC008, 0), Halves(\hC010, 0), Halves(\hFFFF, \hFFFC)}

\* A jump to itself, or a word no instruction has.
MCGarbage == {{0, 1, 2, 3, 4, 5}}
=============================================================================
