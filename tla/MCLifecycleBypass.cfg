SPECIFICATION Spec
CONSTANTS
  BypassFlag = TRUE
  SocketFails = FALSE
INVARIANT BypassKept
CHECK_DEADLOCK FALSE
