SPECIFICATION FairProgramsSpec
CONSTANTS
  LineCount = 15
  InputLine = 0
  TimerLine = 1
  InputCheckInterval = 10
  Input <- MCTyped
  OutputPortDelay = 3
  StrictMode = TRUE
  WordSize = 1073741824
  WordBits = 32
  ShiftBits = 5
  AddressSpace = 16777216
  RomSize = 65536
  RamBase = 4194304
  RamSize = 2097152
  DevicesBase = 12582912
  DeviceBase <- MCDeviceBase
  JumpTargets <- Addresses
  CodeAddresses <- Addresses
  DataAddresses = {}
  StoredWords = {}
  AddressOf <- MCAddressOf
  WordOf <- MCWordOf
  Programs <- AllPrograms
  InitialGprs = {{}, {0}}
  Garbage = {{}, {0, 7}}
  MaxCycles = 400
INVARIANTS EndsAsRecorded NothingSentIsLost ProgramGetsTheRest
PROPERTIES HandlerIsTransparent ProgramEnds StopsInPlace FetchesTheProgram
