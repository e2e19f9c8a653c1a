SPECIFICATION FairSpec
CONSTANTS
  Topology = "multichannel"
  Capacity = 2
  Period = 2
  Hop = 1
  MaxDrift = 2
  MaxPeriods = 4
  MaxRestarts = 1
INVARIANT NothingLostSilently SkewExplained NoSpuriousWarning
CHECK_DEADLOCK FALSE
PROPERTIES HeardInOrder ChunkTaken
