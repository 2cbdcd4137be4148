SPECIFICATION CoreSpec
CONSTANTS
  LineCount = 2
  InputLine = 0
  TimerLine = 1
  InputCheckInterval = 10
  Input <- MCOneByte
  OutputPortDelay = 3
  StrictMode = FALSE
  WordSize = 1073741824
  WordBits = 32
  ShiftBits = 5
  AddressSpace = 16777216
  RomSize = 65536
  RamBase = 4194304
  RamSize = 2097152
  DevicesBase = 12582912
  DeviceBase <- MCDeviceBase
  JumpTargets <- Addresses
  CodeAddresses <- Addresses
  DataAddresses = {}
  StoredWords = {}
  AddressOf <- MCAddressOf
  WordOf <- MCWordOf
  Programs <- SinglePrograms
  InitialGprs <- EdgeWords
  Garbage <- MCGarbage
  MaxCycles = 2
INVARIANT CoreTypeOK
PROPERTIES InvalidAccessIsHarmless FaultsAsDocumented
