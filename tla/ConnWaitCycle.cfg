\* Every transaction may reach the timeout.
CONSTANTS
  c1 = c1
  c2 = c2
  c3 = c3
  Conns = {c1, c2}
  None = None
  CheckpointModes = {}
  Slow = {c1, c2}
  Silent = {}
  Leaving = {}
  Refused = {}
  MaxQueue = 3
  MaxRetries = 1
SPECIFICATION LiveSpec
PROPERTY AllTxnsEventuallyAcquire
CHECK_DEADLOCK FALSE
