SPECIFICATION FairSpec
CONSTANTS
  Closer = {main, client}
  MaxQueue = 2
  MaxFrames = 2
INVARIANTS LoggedOnce LoggedInOrder CompleteLog
PROPERTY StopReturns
CHECK_DEADLOCK FALSE
