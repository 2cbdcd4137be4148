SPECIFICATION ArithmeticSpec
CONSTANTS
  WordBits = 4
  ShiftBits = 2
INVARIANTS AluIsDocumented ImmediatesAreDocumented
