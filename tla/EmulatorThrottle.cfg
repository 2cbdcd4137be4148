SPECIFICATION Spec
CONSTANTS
  MaxCycles = 0
  Freq = 2
  SyncRate = 1
  NsPerSec = 4
  CounterRange = 32
  DumpState = TRUE
  MaxElapsed = 20
INVARIANTS FrequencyIsRespected
