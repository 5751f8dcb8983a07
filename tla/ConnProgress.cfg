\* One client goes silent in a transaction that times out; checkpoints drain the queue.
CONSTANTS
  c1 = c1
  c2 = c2
  c3 = c3
  Conns = {c1, c2}
  None = None
  CheckpointModes = {"restart"}
  Slow = {c1}
  Silent = {c1}
  Leaving = {}
  Refused = {}
  MaxQueue = 3
  MaxRetries = 1
SPECIFICATION LiveSpec
INVARIANT NotifiedIsAwaited
PROPERTY EveryCallReturns
