SPECIFICATION PoliteSpec
CONSTANTS
  BypassFlag = TRUE
  SocketFails = TRUE
PROPERTIES OverlapOnlyAtStart KeepsSession ShutdownCompletes CommandReturns
CHECK_DEADLOCK FALSE
INVARIANT TerminatedOnlyByListener QuietConsistent NoCommandDuringTeardown
