SPECIFICATION Spec
CONSTANTS
  Starts <- NewDb
  Writes <- SmallWrites
  MaxLogFrames = 1
  Timed = FALSE
  MaxSnapshots = 2
  QueueSize = 1
  Shrinks = TRUE
  MaxTxns = 2
  MaxOpens = 2
  MaxFaults = 1
INVARIANT NothingIsLost
