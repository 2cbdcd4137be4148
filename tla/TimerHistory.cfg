SPECIFICATION TSpec
CONSTANTS
  LineCount = 2
  TimerLine = 1
  WordSize = 8
  MaxTicks = 20
INVARIANTS CounterIsExact StatusIsExact
