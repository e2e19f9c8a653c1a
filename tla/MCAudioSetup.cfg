SPECIFICATION Spec
CONSTANTS
  Files <- Configurations
  Defaults <- AudioConfig
  Taps = 5
  ChunkCapacity = 2
  MaxRead = 5
  MaxFrames = 13
  MaxStarts = 3
INVARIANTS NoHandleLeak InternalRate WindowExact
CHECK_DEADLOCK FALSE
