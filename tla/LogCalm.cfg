SPECIFICATION LiveSpec
CONSTANTS
  Starts <- NewDb
  Writes <- GrowingWrites
  MaxLogFrames = 1
  Timed = FALSE
  MaxSnapshots = 2
  QueueSize = 1
  Shrinks = FALSE
  MaxTxns = 4
  MaxOpens = 2
  MaxFaults = 1
INVARIANT SnapshotsAreExact
INVARIANT MergerSurvives
PROPERTY PromiseKept
PROPERTY SnapshotBecomesReady
