SPECIFICATION FairSpec
CONSTANTS
  BypassFlag = FALSE
  SocketFails = FALSE
PROPERTY ShutdownCompletes
CHECK_DEADLOCK FALSE
