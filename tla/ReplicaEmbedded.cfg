SPECIFICATION ReplicaLive
CONSTANTS
  Frame <- SmallFrames
  Txns <- TwoTxns
  Kind = "embedded"
  Capacity = 3
  MaxBatch = 2
  Tidy = TRUE
  FaultKinds = {"meta", "crash", "cancel"}
  MaxFrames = 3
  MaxResets = 1
  MaxSessions = 0
  MaxFaults = 1
INVARIANT ReplicaIsExact
PROPERTY NeverGoesBack
PROPERTY CatchesUp
