SPECIFICATION ReplicaLive
CONSTANTS
  Frame <- SmallFrames
  Txns <- SmallTxns
  Kind = "server"
  Capacity = 1
  MaxBatch = 2
  Tidy = TRUE
  FaultKinds = {"stream", "inject", "crash"}
  MaxFrames = 3
  MaxResets = 1
  MaxSessions = 1
  MaxFaults = 1
INVARIANT ReplicaIsExact
CHECK_DEADLOCK FALSE
PROPERTY NeverGoesBack
PROPERTY CatchesUp
