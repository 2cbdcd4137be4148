SPECIFICATION MCSpec
CONSTANTS
  WordBits = 32
  ShiftBits = 5
  Files <- MCFiles
  Paths <- MCPaths
  RealPath <- MCRealPath
  SourceLines <- MCSourceLines
INVARIANTS InputsAreKept IncludesAreInPlace OutputIsAPrefix LinesMeetTheirWords DecodesAsWritten ReachesTheLabel
PROPERTY AssemblerEnds
