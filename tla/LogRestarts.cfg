SPECIFICATION Spec
CONSTANTS
  Starts <- NewOrRestoredDb
  Writes <- SmallWrites
  MaxLogFrames = 1
  Timed = TRUE
  MaxSnapshots = 2
  QueueSize = 1
  Shrinks = TRUE
  MaxTxns = 3
  MaxOpens = 3
  MaxFaults = 0
INVARIANT LogMirrorsDb
INVARIANT LogFileIsSuffix
