SPECIFICATION AccessSpec
CONSTANTS
  LineCount = 2
  InputLine = 0
  TimerLine = 1
  InputCheckInterval = 1
  Input <- MCShortInput
  OutputPortDelay = 1
  StrictMode = FALSE
  WordSize = 1073741824
  WordBits = 32
  ShiftBits = 5
  AddressSpace = 48
  RomSize = 8
  RamBase = 8
  RamSize = 4
  DevicesBase = 16
  DeviceBase <- MCDeviceBase
  RomImage <- MCRomImage
  Garbage <- MCGarbage
  AccessedAddresses <- MCAccessedAddresses
  StoredValues <- MCStoredValues
PROPERTY ImplementsWordMemory
CHECK_DEADLOCK FALSE
