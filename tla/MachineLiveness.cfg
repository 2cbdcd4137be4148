SPECIFICATION FairSpec
CONSTANTS
  LineCount = 3
  InputLine = 0
  InputCheckInterval = 2
  Input <- MCShortInput
  OutputPortDelay = 3
  StrictMode = FALSE
  TimerLine = 1
  WordSize = 4
  AddressSpace = 48
  RomSize = 8
  RamBase = 8
  RamSize = 4
  DevicesBase = 16
  DeviceBase <- MCDeviceBase
  JumpTargets = {0, 12}
  CodeAddresses = {4}
  DataAddresses <- MCDeviceAddresses
  StoredWords = {0, 2}
PROPERTIES OutputBecomesReady InputIsLatched RequestTraps StopLeadsToExit
