SPECIFICATION HSpec
CONSTANTS
  LineCount = 3
  InputLine = 0
  InputCheckInterval = 1
  Input <- MCInput
  OutputPortDelay = 2
  StrictMode = TRUE
  TimerLine = 1
  WordSize = 4
  AddressSpace = 48
  RomSize = 8
  RamBase = 8
  RamSize = 4
  DevicesBase = 16
  DeviceBase <- MCDeviceBase
  JumpTargets <- MCJumpTargets
  CodeAddresses <- MCCodeAddresses
  DataAddresses <- MCDataAddresses
  StoredWords = {0, 2}
INVARIANTS IInv SampledLineIsExact NoUnservicedFetch TrapIsIntact HandlerFindsSource InputIsIntact
PROPERTIES StopIsFinal ImplementsLevelInterrupts
