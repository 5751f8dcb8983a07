SPECIFICATION ReplicaSpec
CONSTANTS
  Frame <- SmallFrames
  Txns <- SmallTxns
  Kind = "server"
  Capacity = 1
  MaxBatch = 2
  Tidy = FALSE
  FaultKinds = {"stream"}
  MaxFrames = 4
  MaxResets = 0
  MaxSessions = 0
  MaxFaults = 1
INVARIANT ReplicaIsExact
CHECK_DEADLOCK FALSE
