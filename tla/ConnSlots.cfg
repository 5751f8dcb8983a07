\* Everything may happen; a checkpoint below RESTART may be raised to one that drains the queue.
CONSTANTS
  c1 = c1
  c2 = c2
  c3 = c3
  Conns = {c1, c2, c3}
  None = None
  CheckpointModes = {"passive"}
  Slow = {c1, c2, c3}
  Silent = {}
  Leaving = {c1, c2, c3}
  Refused = {c1, c2, c3}
  MaxQueue = 3
  MaxRetries = 0
SYMMETRY Symm
SPECIFICATION Spec
INVARIANTS WriterOwnsSlot AssertionsHold WaiterIsQueued DrainIsExclusive NoSilentRollback AbortIsEffective NoLostWakeup
CHECK_DEADLOCK FALSE
