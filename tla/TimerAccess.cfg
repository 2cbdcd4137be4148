SPECIFICATION ASpec
CONSTANTS
  LineCount = 3
  InputLine = 0
  InputCheckInterval = 1
  Input <- MCShortInput
  OutputPortDelay = 2
  StrictMode = TRUE
  TimerLine = 1
  WordSize = 4
  AddressSpace = 48
  RomSize = 8
  RamBase = 8
  RamSize = 4
  DevicesBase = 16
  DeviceBase <- MCDeviceBase
  JumpTargets = {0}
  CodeAddresses = {4}
  DataAddresses <- MCTimerAddresses
  StoredWords = {0, 2}
INVARIANTS UnsupportedAccessFaults
