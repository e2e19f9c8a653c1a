SPECIFICATION Spec
CONSTANTS
  FftSize = 5
  HopSize = 2
  MaxSamples = 9
INVARIANTS ConstantDelay MemoryOfSession
PROPERTY IsDelayLine
