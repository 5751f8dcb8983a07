SPECIFICATION LiveSpec
CONSTANTS
  MaxDbs = 2
  MaxActive = 2
  Settings = {"open"}
  MaxCalls = 2
  MaxJobs = 1
  FaultKinds = {"sql", "fork", "cleanup", "cancel", "crash", "evict", "again"}
  MaxFaults = 1
INVARIANTS
  SchemaLockExcludes
  LinkedMissesNothing
  TasksHaveDatabases
  AcknowledgedSurvives
  MemoryMatchesDisk
PROPERTY
  CallsEnd
CHECK_DEADLOCK FALSE
