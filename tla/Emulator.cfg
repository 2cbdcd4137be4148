SPECIFICATION FairSpec
CONSTANTS
  MaxCycles = 7
  Freq = 2
  SyncRate = 1
  NsPerSec = 4
  CounterRange = 32
  DumpState = TRUE
  MaxElapsed = 20
INVARIANTS NothingLeaks ExitCodeIsTrue SnapshotAgrees LimitIsExact FrequencyIsRespected
PROPERTIES SignalEnds
