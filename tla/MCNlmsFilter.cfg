SPECIFICATION Spec
CONSTANTS
  Taps = 3
  MaxSamples = 10
INVARIANTS TapsAligned
